------------------------------ MODULE RepoProofs ------------------------------
(***************************************************************************)
(* The repository of images and templates, for every set of names and      *)
(* locations and every set of configurations: proofs of TypeOK,            *)
(* SyncedUnlessReported, OthersKept and DroppedIsGone.                     *)
(***************************************************************************)
EXTENDS RepoProperties, TLAPS

(* The type of the state in three parts.                                   *)

ArrayOK ==
    /\ volume \in [Kind -> BOOLEAN] /\ policy \in [Kind -> BOOLEAN] /\ dir \in BOOLEAN
    /\ store \in [Kind -> [Name -> Content]] /\ file \in [Name -> Content]

TerraformOK ==
    /\ present \in BOOLEAN /\ reported \in BOOLEAN
    /\ old \in Configs /\ new \in Configs

HandlerOK ==
    /\ op \in {"idle", "create", "update", "delete"}
    /\ kind \in Kind /\ at \in Label /\ name \in Name
    /\ listed \subseteq Name /\ todo \subseteq Name

LEMMA TypeParts ==
    TypeOK <=> api \in {"rest", "zapi"} /\ ArrayOK /\ TerraformOK /\ HandlerOK
BY DEF TypeOK, ArrayOK, TerraformOK, HandlerOK

LEMMA Configured ==
    ASSUME TerraformOK, NEW k \in Kind, NEW n \in Name
    PROVE  old[k][n] \in Item /\ new[k][n] \in Item
BY ConfigsAssumption DEF TerraformOK

LEMMA UploadsAreNew ==
    ASSUME NEW k, NEW n \in Uploads(k)
    PROVE  new[k][n] \in Location /\ new[k][n] # Unlisted /\ n \notin Dropped(k)
BY ItemAssumption DEF Uploads, Dropped

LEMMA SourceIsContent ==
    ASSUME NEW l \in Location
    PROVE  Source(l) \subseteq Content
BY DEF Source, Content

(* The first part of VolumeInv.                                            *)
StoredInVolumes == \A k \in Kind : ~volume[k] => \A n \in Name : store[k][n] = "none"

-----------------------------------------------------------------------------
(* A handler that fails: whatever it has done, the resource is reported.   *)

LEMMA ErrorKeeps ==
    ASSUME RepoInv, op # "idle", ReturnError, UNCHANGED api, ArrayOK', StoredInVolumes'
    PROVE  RepoInv'
<1>1. TypeOK'
  BY TypeParts DEF RepoInv, ReturnError, Return, TypeOK, ArrayOK, TerraformOK, HandlerOK, Kind,
     Label
<1>2. /\ op' = "idle" /\ at' = "idle" /\ todo' = {} /\ reported' /\ present' = present
      /\ new' = new /\ old' = IF op = "update" THEN new ELSE old
  BY DEF ReturnError, Return
<1>3. RunInv'
  BY <1>2, TypeParts DEF RepoInv, RunInv, HandlerOK, Deleting
<1>4. WorkInv'
  BY <1>2 DEF WorkInv, Deleting, Creating
<1>5. VolumeInv'
  BY <1>2 DEF VolumeInv, StoredInVolumes, Filling
<1>6. DoneInv' /\ KeptInv'
  BY <1>2 DEF DoneInv, KeptInv
<1>. QED
  BY <1>1, <1>3, <1>4, <1>5, <1>6 DEF RepoInv

LEMMA ErrorUnchanged ==
    ASSUME RepoInv, op # "idle", ReturnError, UNCHANGED <<api, array>>
    PROVE  RepoInv'
<1>1. ArrayOK' /\ StoredInVolumes'
  BY TypeParts DEF RepoInv, VolumeInv, array, ArrayOK, StoredInVolumes
<1>. QED
  BY <1>1, ErrorKeeps

-----------------------------------------------------------------------------
(* The steps of one item.                                                  *)

(* Only the item at work is touched, and the handler stays with it.        *)
ItemOnly ==
    /\ \A k \in Kind, n \in Name : k # kind \/ n # name => store'[k][n] = store[k][n]
    /\ \A k \in Kind : volume[k] => volume'[k]

LEMMA ItemSteps ==
    ASSUME RepoInv, at \in Deleting \cup Creating, NEW l, Goto(l), UNCHANGED api,
           ArrayOK', StoredInVolumes', ItemOnly,
           at \in Deleting /\ (op = "delete" \/ Dropping) =>
              /\ l \in {"file", "next", "drop"}
              /\ l = "next" => op = "delete"
              /\ l = "drop" => op = "update" /\ Dropping
              /\ l # "file" => at = "file"
              /\ store'[kind][name] = "none" \/ (at = "file" /\ store' = store)
              /\ l = "file" => at = "lun",
           at \in Deleting /\ op # "delete" /\ ~Dropping =>
              l \in {"file", "policy"} /\ (l = "file" => at = "lun"),
           at \in Creating =>
              /\ l \in (Creating \ {"policy"}) \cup {"next"}
              /\ l = "next" => Has(kind, name, new[kind][name])'
              /\ l = "convert" => file'[name] \in Source(new[kind][name]),
           l \in Filling => volume'[kind]
    PROVE  RepoInv'
<1>1. /\ at' = l /\ op' = op /\ kind' = kind /\ name' = name /\ todo' = todo
      /\ present' = present /\ old' = old /\ new' = new /\ reported' = reported
      /\ listed' = listed
  BY DEF Goto, terraform
<1>2. l \in Label
  BY DEF Deleting, Creating, Label
<1>3. TypeOK'
  BY <1>1, <1>2, TypeParts DEF RepoInv, TypeOK, ArrayOK, TerraformOK, HandlerOK
<1>4. op \in {"create", "update", "delete"} /\ kind \in Kind /\ name \in Name
  BY TypeParts DEF RepoInv, RunInv, HandlerOK, Deleting, Creating
<1>5. \A k : Uploads(k)' = Uploads(k) /\ Dropped(k)' = Dropped(k)
  BY <1>1 DEF Uploads, Changed, Dropped
<1>6. RunInv'
  BY <1>1, <1>4 DEF RepoInv, RunInv, Deleting, Creating
<1>7. (op # "delete" => (Dropping' <=> Dropping))
  BY <1>1, <1>4, <1>5, UploadsAreNew DEF RepoInv, RunInv, WorkInv, Dropping, Deleting, Creating
<1>8. WorkInv'
  BY <1>1, <1>4, <1>5, <1>7 DEF RepoInv, RunInv, WorkInv, Deleting, Creating
<1>9. VolumeInv'
  BY <1>1 DEF VolumeInv, StoredInVolumes
<1>10. KeptInv'
  <2>1. ASSUME op = "update", new[kind][name] = old[kind][name], old[kind][name] \in Location
        PROVE  FALSE
    <3>1. name \notin Uploads(kind)
      BY <2>1 DEF Uploads, Changed
    <3>2. name \notin Dropped(kind)
      BY <2>1, ItemAssumption DEF Dropped
    <3>. QED
      BY <2>1, <3>1, <3>2 DEF RepoInv, RunInv, WorkInv, Dropping, Deleting, Creating
  <2>2. ASSUME NEW k \in Kind, NEW n \in Name, op = "update", old[k][n] \in Location,
               new[k][n] = old[k][n]
        PROVE  store'[k][n] = store[k][n]
    BY <2>1, <2>2 DEF ItemOnly
  <2>. QED
    BY <1>1, <1>4, <2>2 DEF RepoInv, KeptInv, Has
<1>11. DoneInv'
  <2>1. \A k \in Kind : k # kind =>
           ToDelete(k)' = ToDelete(k) /\ ToUpload(k)' = ToUpload(k) /\ store'[k] = store[k]
    BY <1>1, TypeParts DEF ToDelete, ToUpload, ItemOnly, RepoInv, ArrayOK
  <2>2. ASSUME op = "delete", NEW k \in Kind, NEW n \in Name, n \notin ToDelete(k)',
               old[k][n] # Unlisted
        PROVE  store'[k][n] = "none"
    <3>1. CASE k # kind
      BY <2>1, <2>2, <3>1 DEF RepoInv, DoneInv
    <3>2. CASE k = kind
      <4>1. at \in Deleting /\ l \in {"file", "next"}
        BY <2>2 DEF RepoInv, RunInv, Deleting, Creating
      <4>2. n \notin todo
        BY <1>1, <2>2, <3>2, <4>1 DEF ToDelete
      <4>3. n # name \/ at = "file" => store[k][n] = "none"
        BY <2>2, <3>2, <4>1, <4>2 DEF RepoInv, DoneInv, ToDelete, Deleting
      <4>. QED
        BY <2>2, <3>2, <4>1, <4>3 DEF ItemOnly, Deleting
    <3>. QED
      BY <3>1, <3>2
  <2>3. ASSUME op = "update", NEW k \in Kind, NEW n \in Dropped(k), n \notin ToDelete(k)'
        PROVE  store'[k][n] = "none"
    <3>0. n \in Name
      BY <2>3 DEF Dropped
    <3>1. CASE k # kind
      BY <2>1, <2>3, <3>1 DEF RepoInv, DoneInv
    <3>2. CASE k = kind /\ Dropping
      <4>1. at \in Deleting /\ l \in {"file", "drop"}
        BY <2>3, <3>2 DEF Dropping, Deleting, Creating
      <4>2. n \notin todo
        BY <1>1, <1>7, <2>3, <3>2, <4>1 DEF ToDelete
      <4>3. n # name \/ at = "file" => store[k][n] = "none"
        BY <2>3, <3>2, <4>1, <4>2 DEF RepoInv, DoneInv, ToDelete, Deleting
      <4>. QED
        BY <3>0, <3>2, <4>1, <4>3 DEF ItemOnly, Deleting
    <3>3. CASE k = kind /\ ~Dropping
      <4>1. name \in Uploads(kind)
        BY <2>3, <3>3 DEF RepoInv, WorkInv
      <4>2. n # name
        BY <2>3, <3>3, <4>1, UploadsAreNew
      <4>3. store[k][n] = "none"
        BY <2>3, <3>3 DEF RepoInv, DoneInv, ToDelete, Dropping
      <4>. QED
        BY <3>0, <4>2, <4>3 DEF ItemOnly
    <3>. QED
      BY <3>1, <3>2, <3>3
  <2>4. ASSUME op \in {"create", "update"}, NEW k \in Kind, NEW n \in Uploads(k),
               n \notin ToUpload(k)'
        PROVE  Has(k, n, new[k][n])'
    <3>0. n \in Name /\ new'[k][n] = new[k][n]
      BY <1>1, <2>4 DEF Uploads
    <3>1. CASE k # kind
      BY <1>1, <2>1, <2>4, <3>1 DEF RepoInv, DoneInv, Has
    <3>2. CASE k = kind
      <4>1. ~Dropping' /\ ~Dropping
        BY <1>1, <1>7, <2>4, <3>0, <3>2 DEF ToUpload
      <4>2. n # name \/ l = "next"
        BY <1>1, <2>4, <3>2, <4>1 DEF ToUpload, Dropping, Deleting, Creating
      <4>3. n \notin todo
        BY <1>1, <2>4, <3>2, <4>1 DEF ToUpload, Dropping, Deleting, Creating
      <4>4. CASE n = name
        BY <1>1, <2>4, <3>2, <4>1, <4>2, <4>4 DEF Has
      <4>5. CASE n # name
        <5>1. n \notin ToUpload(k)
          BY <3>2, <4>1, <4>3, <4>5 DEF ToUpload, Deleting, Creating
        <5>2. Has(k, n, new[k][n])
          BY <2>4, <5>1 DEF RepoInv, DoneInv
        <5>. QED
          BY <3>0, <4>5, <5>2 DEF Has, ItemOnly
      <4>. QED
        BY <4>4, <4>5
    <3>. QED
      BY <3>1, <3>2
  <2>5. l = "convert" => file'[name] \in Source(new[kind][name])
    BY DEF Creating, Deleting
  <2>. QED
    BY <1>1, <1>5, <2>2, <2>3, <2>4, <2>5 DEF DoneInv
<1>. QED
  BY <1>3, <1>6, <1>8, <1>9, <1>10, <1>11 DEF RepoInv

-----------------------------------------------------------------------------
(* What the requests change.                                               *)

Stable == UNCHANGED array \/ (ArrayOK' /\ StoredInVolumes' /\ ItemOnly)

LEMMA StableFacts ==
    ASSUME RepoInv, Stable
    PROVE  ArrayOK' /\ StoredInVolumes' /\ ItemOnly
BY TypeParts DEF RepoInv, VolumeInv, Stable, array, ArrayOK, StoredInVolumes, ItemOnly

LEMMA Effects ==
    ASSUME RepoInv, op # "idle"
    PROVE  /\ DestroyItem => ArrayOK' /\ StoredInVolumes' /\ ItemOnly
           /\ DestroyFile => ArrayOK' /\ StoredInVolumes' /\ ItemOnly
<1>1. ArrayOK /\ StoredInVolumes /\ kind \in Kind /\ name \in Name
  BY TypeParts DEF RepoInv, VolumeInv, StoredInVolumes, HandlerOK
<1>2. "none" \in Content
  BY DEF Content
<1>3. DestroyItem => ArrayOK' /\ StoredInVolumes' /\ ItemOnly
  BY <1>1, <1>2 DEF DestroyItem, Put, ArrayOK, StoredInVolumes, ItemOnly
<1>4. DestroyFile => ArrayOK' /\ StoredInVolumes' /\ ItemOnly
  BY <1>1, <1>2 DEF DestroyFile, PutFile, ArrayOK, StoredInVolumes, ItemOnly
<1>. QED
  BY <1>3, <1>4

(* A step of DeleteRepoImage, CreateRepoImage and so on either goes on or  *)
(* fails; both keep the invariant if the first does.                       *)
LEMMA FailOrGo ==
    ASSUME RepoInv, at \in Deleting \cup Creating, UNCHANGED api, Stable,
           NEW l, Goto(l) \/ ReturnError, Goto(l) => RepoInv'
    PROVE  RepoInv'
<1>1. op # "idle"
  BY DEF RepoInv, RunInv, Deleting, Creating
<1>. QED
  BY <1>1, StableFacts, ErrorKeeps

LEMMA DeleteLunKeeps ==
    ASSUME RepoInv, DeleteLun, UNCHANGED api
    PROVE  RepoInv'
<1>1. at = "lun" /\ op # "idle" /\ at \in Deleting
  BY DEF DeleteLun, RepoInv, RunInv, Deleting
<1>2. DestroyItem \/ UNCHANGED array
  BY DEF DeleteLun, RequestIf, Request
<1>3. Stable
  BY <1>1, <1>2, Effects DEF Stable
<1>4. ASSUME Goto("file")
      PROVE  RepoInv'
  <2>1. store'[kind][name] = "none"
    <3>1. kind \in Kind /\ name \in Name /\ ArrayOK
      BY TypeParts DEF RepoInv, HandlerOK
    <3>2. IF store[kind][name] # "none" THEN DestroyItem ELSE UNCHANGED array
      BY <1>1, <1>4 DEF DeleteLun, RequestIf, Request, ReturnError, Return, Goto
    <3>. QED
      BY <3>1, <3>2 DEF DestroyItem, Put, ArrayOK, array
  <2>. QED
    BY <1>1, <1>3, <1>4, <2>1, StableFacts, ItemSteps DEF Deleting, Creating, Filling
<1>5. Goto("file") \/ ReturnError
  BY DEF DeleteLun, RequestIf, Request
<1>. QED
  BY <1>1, <1>3, <1>4, <1>5, FailOrGo

LEMMA DeleteFileKeeps ==
    ASSUME RepoInv, DeleteFile, UNCHANGED api
    PROVE  RepoInv'
<1>1. at = "file" /\ op # "idle" /\ at \in Deleting
  BY DEF DeleteFile, RepoInv, RunInv, Deleting
<1>2. (DestroyFile \/ UNCHANGED array) /\ store' = store
  BY DEF DeleteFile, RequestIf, Request, DestroyFile, array
<1>3. Stable
  BY <1>1, <1>2, Effects DEF Stable
<1>4. ASSUME Goto(AfterDelete)
      PROVE  RepoInv'
  <2>1. /\ op = "delete" => AfterDelete = "next"
        /\ op # "delete" /\ Dropping => AfterDelete = "drop" /\ op = "update"
        /\ op # "delete" /\ ~Dropping => AfterDelete = "policy"
    <3>1. Dropping => op = "update" /\ new[kind][name] = Unlisted
      BY <1>1 DEF Dropping, Dropped, Deleting
    <3>2. op # "delete" /\ ~Dropping => new[kind][name] # Unlisted
      BY <1>1, UploadsAreNew DEF RepoInv, WorkInv
    <3>. QED
      BY <1>1, <3>1, <3>2 DEF AfterDelete
  <2>2. AfterDelete \in {"next", "drop", "policy"}
    BY DEF AfterDelete
  <2>. QED
    BY <1>1, <1>2, <1>3, <1>4, <2>1, <2>2, StableFacts, ItemSteps
       DEF Deleting, Creating, Filling
<1>5. Goto(AfterDelete) \/ ReturnError
  BY DEF DeleteFile, RequestIf, Request
<1>. QED
  BY <1>1, <1>3, <1>4, <1>5, FailOrGo

(* The steps of an upload up to the last one.                              *)
LEMMA CreateGoes ==
    ASSUME RepoInv, at \in Creating, UNCHANGED api, Stable,
           NEW l \in Creating \ {"policy", "convert"}, Goto(l) \/ ReturnError,
           Goto(l) /\ l \in Filling => volume'[kind]
    PROVE  RepoInv'
<1>1. Goto(l) => RepoInv'
  BY StableFacts, ItemSteps DEF Creating, Deleting
<1>. QED
  BY <1>1, FailOrGo

LEMMA PrepareKeeps ==
    ASSUME RepoInv, UNCHANGED api,
           CreatePolicy \/ CreateVolume \/ ClearLun \/ ClearFile
    PROVE  RepoInv'
<1>1. /\ ArrayOK /\ StoredInVolumes /\ kind \in Kind /\ name \in Name
      /\ at \in Creating => op # "idle"
  BY TypeParts DEF RepoInv, VolumeInv, StoredInVolumes, HandlerOK, RunInv, Creating
<1>2. CASE CreatePolicy
  <2>1. Stable
    BY <1>1, <1>2 DEF CreatePolicy, RequestIf, Request, Stable, ArrayOK, StoredInVolumes,
       ItemOnly
  <2>2. at \in Creating /\ (Goto("volume") \/ ReturnError)
    BY <1>2 DEF CreatePolicy, RequestIf, Request, Creating
  <2>. QED
    BY <2>1, <2>2, CreateGoes DEF Creating, Filling
<1>3. CASE CreateVolume
  <2>1. at \in Creating /\ (Goto("clear_lun") \/ ReturnError)
    BY <1>3 DEF CreateVolume, RequestIf, Request, Creating
  <2>2. Stable
    BY <1>1, <1>3 DEF CreateVolume, RequestIf, Request, Stable, ArrayOK, StoredInVolumes,
       ItemOnly
  <2>3. Goto("clear_lun") => volume'[kind]
    BY <1>1, <1>3 DEF CreateVolume, RequestIf, Request, Goto, ReturnError, Return, ArrayOK,
       array
  <2>. QED
    BY <2>1, <2>2, <2>3, CreateGoes DEF Creating
<1>4. CASE ClearLun
  <2>1. at \in Creating /\ at \in Filling /\ (Goto("clear_file") \/ ReturnError)
    BY <1>4 DEF ClearLun, RequestIf, Request, Creating, Filling
  <2>2. Stable
    BY <1>1, <1>4, <2>1, Effects DEF ClearLun, RequestIf, Request, Stable
  <2>3. volume'[kind]
    BY <1>1, <2>1, <2>2, StableFacts DEF ItemOnly, RepoInv, VolumeInv
  <2>. QED
    BY <2>1, <2>2, <2>3, CreateGoes DEF Creating
<1>5. CASE ClearFile
  <2>1. at \in Creating /\ at \in Filling /\ (Goto("open") \/ ReturnError)
    BY <1>5 DEF ClearFile, RequestIf, Request, Creating, Filling
  <2>2. Stable
    BY <1>1, <1>5, <2>1, Effects DEF ClearFile, RequestIf, Request, Stable
  <2>3. volume'[kind]
    BY <1>1, <2>1, <2>2, StableFacts DEF ItemOnly, RepoInv, VolumeInv
  <2>. QED
    BY <2>1, <2>2, <2>3, CreateGoes DEF Creating
<1>. QED
  BY <1>2, <1>3, <1>4, <1>5

(* Put and PutFile, in a volume that exists.                               *)
LEMMA PutStable ==
    ASSUME RepoInv, at \in Filling, NEW c \in Content
    PROVE  /\ Put(c) /\ UNCHANGED <<volume, policy>> /\ dir' \in BOOLEAN /\ file' = file
                => Stable /\ store'[kind][name] = c
           /\ PutFile(c) /\ UNCHANGED <<volume, policy, dir, store>>
                => Stable /\ file'[name] = c
           /\ Stable => volume'[kind]
<1>1. /\ ArrayOK /\ StoredInVolumes /\ kind \in Kind /\ name \in Name /\ volume[kind]
  BY TypeParts DEF RepoInv, VolumeInv, StoredInVolumes, HandlerOK
<1>2. Put(c) /\ UNCHANGED <<volume, policy>> /\ dir' \in BOOLEAN /\ file' = file
         => Stable /\ store'[kind][name] = c
  BY <1>1 DEF Put, Stable, ArrayOK, StoredInVolumes, ItemOnly
<1>3. PutFile(c) /\ UNCHANGED <<volume, policy, dir, store>> => Stable /\ file'[name] = c
  BY <1>1 DEF PutFile, Stable, ArrayOK, StoredInVolumes, ItemOnly
<1>4. Stable => volume'[kind]
  BY <1>1, StableFacts DEF ItemOnly
<1>. QED
  BY <1>2, <1>3, <1>4

LEMMA OpenKeeps ==
    ASSUME RepoInv, UNCHANGED api, Open
    PROVE  RepoInv'
<1>1. at \in Filling /\ at \in Creating /\ (Goto("write") \/ ReturnError)
  BY DEF Open, Request, Filling, Creating
<1>2. "part" \in Content /\ (dir \/ kind = "template") \in BOOLEAN
  BY DEF Content
<1>3. Stable
  <2>1. CASE UNCHANGED array
    BY <2>1 DEF Stable
  <2>2. CASE PutFile("part") /\ UNCHANGED <<volume, policy, dir, store>>
    BY <1>1, <1>2, <2>2, PutStable
  <2>3. CASE Put("part") /\ dir' = (dir \/ kind = "template") /\ UNCHANGED <<volume, policy, file>>
    <3>1. dir' \in BOOLEAN
      BY <1>2, <2>3
    <3>. QED
      BY <1>1, <1>2, <2>3, <3>1, PutStable
  <2>. QED
    BY <2>1, <2>2, <2>3 DEF Open, Request
<1>. QED
  BY <1>1, <1>2, <1>3, PutStable, CreateGoes DEF Creating

LEMMA WriteKeeps ==
    ASSUME RepoInv, UNCHANGED api, Write
    PROVE  RepoInv'
<1>1. at \in Filling /\ at \in Creating /\ at \notin Deleting /\ dir \in BOOLEAN
  BY TypeParts DEF Write, Filling, Creating, Deleting, RepoInv, ArrayOK
<1>2. name \in Uploads(kind) /\ new[kind][name] \in Location
  BY <1>1, UploadsAreNew DEF RepoInv, WorkInv
<1>3. PICK c \in Source(new[kind][name]) :
         IF kind = "image" /\ api = "zapi"
         THEN Request(PutFile(c) /\ UNCHANGED <<volume, policy, dir, store>>, "convert")
         ELSE Request(Put(c) /\ UNCHANGED <<volume, policy, dir, file>>, "next")
  BY DEF Write
<1>4. c \in Content
  BY <1>2, SourceIsContent
<1>5. CASE Request(PutFile(c) /\ UNCHANGED <<volume, policy, dir, store>>, "convert")
  <2>1. Stable
    BY <1>1, <1>4, <1>5, PutStable DEF Request, Stable
  <2>2. Goto("convert") => file'[name] = c /\ volume'[kind]
    BY <1>1, <1>4, <1>5, <2>1, PutStable DEF Request, Goto, ReturnError, Return
  <2>3. Goto("convert") => RepoInv'
    BY <1>1, <2>1, <2>2, StableFacts, ItemSteps DEF Creating
  <2>. QED
    BY <1>1, <1>5, <2>1, <2>3, FailOrGo DEF Request
<1>6. CASE Request(Put(c) /\ UNCHANGED <<volume, policy, dir, file>>, "next")
  <2>1. Stable
    BY <1>1, <1>4, <1>6, PutStable DEF Request, Stable
  <2>2. Goto("next") => store'[kind][name] = c /\ new' = new
    BY <1>1, <1>4, <1>6, PutStable DEF Request, Goto, ReturnError, Return, terraform
  <2>3. Goto("next") => Has(kind, name, new[kind][name])'
    BY <2>2 DEF Has, Goto
  <2>4. Goto("next") => RepoInv'
    BY <1>1, <2>1, <2>3, StableFacts, ItemSteps DEF Creating, Filling
  <2>. QED
    BY <1>1, <1>6, <2>1, <2>4, FailOrGo DEF Request
<1>. QED
  BY <1>3, <1>5, <1>6

LEMMA ConvertKeeps ==
    ASSUME RepoInv, UNCHANGED api, Convert
    PROVE  RepoInv'
<1>1. at \in Filling /\ at \in Creating /\ at \notin Deleting /\ dir \in BOOLEAN
  BY TypeParts DEF Convert, Filling, Creating, Deleting, RepoInv, ArrayOK
<1>2. file[name] \in Content /\ file[name] \in Source(new[kind][name])
  BY TypeParts DEF RepoInv, ArrayOK, HandlerOK, DoneInv, Convert
<1>3. Request(Put(file[name]) /\ UNCHANGED <<volume, policy, dir, file>>, "next")
  BY DEF Convert
<1>4. Stable
  BY <1>1, <1>2, <1>3, PutStable DEF Request, Stable
<1>5. Goto("next") => store'[kind][name] = file[name] /\ new' = new
  BY <1>1, <1>2, <1>3, PutStable DEF Request, Goto, ReturnError, Return, terraform
<1>6. Goto("next") => Has(kind, name, new[kind][name])'
  BY <1>2, <1>5 DEF Has, Goto
<1>7. Goto("next") => RepoInv'
  BY <1>1, <1>4, <1>6, StableFacts, ItemSteps DEF Creating, Filling
<1>. QED
  BY <1>1, <1>3, <1>4, <1>7, FailOrGo DEF Request

-----------------------------------------------------------------------------
(* The loops.                                                              *)

(* A step of the handler that leaves the array and the state as they are.  *)
LEMMA QuietStep ==
    ASSUME RepoInv, UNCHANGED <<api, array, present, old, new, reported, op>>, HandlerOK',
           RunInv', WorkInv', at' \notin Filling, DoneInv'
    PROVE  RepoInv'
<1>1. TypeOK'
  BY TypeParts DEF RepoInv, TypeOK, ArrayOK, TerraformOK, HandlerOK, array
<1>2. VolumeInv' /\ KeptInv'
  BY DEF RepoInv, VolumeInv, KeptInv, Has, array
<1>. QED
  BY <1>1, <1>2 DEF RepoInv

(* DoneInv, when the array and the configurations do not change, is about  *)
(* what is left to do.                                                     *)
LEMMA LessDone ==
    ASSUME DoneInv, UNCHANGED <<array, old, new, op>>, at' # "convert",
           \A k \in Kind : op = "delete" =>
               \A n \in Name \ ToDelete(k)' : old[k][n] # Unlisted =>
                   n \notin ToDelete(k) \/ store[k][n] = "none",
           \A k \in Kind : op = "update" =>
               \A n \in Dropped(k) \ ToDelete(k)' :
                   n \notin ToDelete(k) \/ store[k][n] = "none",
           \A k \in Kind : op \in {"create", "update"} =>
               \A n \in Uploads(k) \ ToUpload(k)' : n \notin ToUpload(k)
    PROVE  DoneInv'
<1>1. \A k : Uploads(k)' = Uploads(k) /\ Dropped(k)' = Dropped(k)
  BY DEF Uploads, Changed, Dropped
<1>. QED
  BY <1>1 DEF DoneInv, Has, array

LEMMA ListKeeps ==
    ASSUME RepoInv, UNCHANGED api, StartList \/ Relist
    PROVE  RepoInv'
<1>. DEFINE drops == {n \in Names(kind) : old[kind][n] # Unlisted /\ new[kind][n] = Unlisted}
<1>1. at \in {"list", "relist"} /\ op \in {"create", "update"} /\ UNCHANGED array
      /\ kind \in Kind /\ Names(kind) \subseteq Name /\ at \notin Deleting
  BY TypeParts DEF StartList, Relist, List, RepoInv, RunInv, HandlerOK, Deleting, Names
<1>2. CASE ReturnError
  BY <1>1, <1>2, ErrorUnchanged
<1>3. ASSUME listed' = Names(kind), UNCHANGED <<terraform, op, kind, name>>,
             \/ at' = "next" /\ todo' = Uploads(kind) /\ (at = "list" => op = "create")
             \/ at' = "drop" /\ todo' = drops /\ at = "list" /\ op = "update"
      PROVE  RepoInv'
  <2>1. UNCHANGED <<present, old, new, reported>>
    BY <1>3 DEF terraform
  <2>2. \A k : Uploads(k)' = Uploads(k) /\ Dropped(k)' = Dropped(k)
    BY <1>3, <2>1 DEF Uploads, Changed, Dropped
  <2>3. HandlerOK'
    BY <1>1, <1>3, TypeParts DEF RepoInv, HandlerOK, Uploads, Label
  <2>4. Dropping' <=> at' = "drop"
    BY <1>3 DEF Dropping, Deleting
  <2>5. RunInv'
    BY <1>1, <1>3, <2>1 DEF RepoInv, RunInv, Deleting
  <2>6. WorkInv'
    BY <1>1, <1>3, <2>1, <2>2, <2>4 DEF WorkInv, Dropped, Deleting, Creating
  <2>7. \A n \in Name : n \notin Names(kind) => store[kind][n] = "none"
    BY <1>1 DEF Names, RepoInv, VolumeInv
  <2>8. ASSUME NEW k \in Kind, op = "update", NEW n \in Dropped(k) \ ToDelete(k)'
        PROVE  n \notin ToDelete(k) \/ store[k][n] = "none"
    <3>1. CASE k # kind
      BY <1>3, <2>8, <3>1 DEF ToDelete
    <3>2. CASE k = kind /\ at' = "drop"
      <4>1. n \notin drops
        BY <1>1, <1>3, <2>4, <2>8, <3>2 DEF ToDelete
      <4>. QED
        BY <2>7, <2>8, <3>2, <4>1 DEF Dropped
    <3>3. CASE k = kind /\ at = "relist"
      <4>1. ~Dropping /\ op = "update" /\ at # "list"
        BY <1>1, <2>8, <3>3 DEF Dropping
      <4>2. ToDelete(k) = {}
        BY <3>3, <4>1 DEF ToDelete
      <4>. QED
        BY <4>2
    <3>. QED
      BY <1>1, <1>3, <2>8, <3>1, <3>2, <3>3
  <2>9. ASSUME NEW k \in Kind, NEW n \in Uploads(k) \ ToUpload(k)'
        PROVE  n \notin ToUpload(k)
    <3>1. CASE k # kind
      BY <1>3, <2>9, <3>1 DEF ToUpload
    <3>2. CASE k = kind
      BY <1>3, <2>4, <2>9, <3>2 DEF ToUpload, Uploads
    <3>. QED
      BY <3>1, <3>2
  <2>10. DoneInv'
    BY <1>1, <1>3, <2>1, <2>8, <2>9, LessDone DEF RepoInv
  <2>. QED
    BY <1>1, <1>3, <2>1, <2>3, <2>5, <2>6, <2>10, QuietStep DEF Filling
<1>. QED
  BY <1>1, <1>2, <1>3 DEF StartList, Relist, List

(* DeleteItem and the taking of an item to upload.                         *)
LEMMA TakeKeeps ==
    ASSUME RepoInv, UNCHANGED api, NEW n \in todo, NEW l, Take(n, l),
           \/ at = "drop" /\ l = "lun"
           \/ at = "next" /\ op = "delete" /\ l = "lun"
           \/ at = "next" /\ op \in {"create", "update"} /\ l \in {"lun", "policy"}
    PROVE  RepoInv'
<1>1. /\ name' = n /\ todo' = todo \ {n} /\ at' = l
      /\ UNCHANGED <<array, present, old, new, reported, op, kind, listed>>
  BY DEF Take, terraform
<1>2. /\ at = "drop" => op = "update"
      /\ op # "idle" /\ n \in Name /\ kind \in Kind
  BY TypeParts DEF RepoInv, RunInv, HandlerOK
<1>3. HandlerOK'
  BY <1>1, <1>2, TypeParts DEF RepoInv, HandlerOK, Label
<1>4. \A k : Uploads(k)' = Uploads(k) /\ Dropped(k)' = Dropped(k)
  BY <1>1 DEF Uploads, Changed, Dropped
<1>5. RunInv'
  BY <1>1, <1>2 DEF RepoInv, RunInv, Deleting
<1>6. /\ op = "delete" => old[kind][n] # Unlisted
      /\ at = "drop" => n \in Dropped(kind) /\ todo \subseteq Dropped(kind)
      /\ at = "next" /\ op # "delete" => n \in Uploads(kind) /\ todo \subseteq Uploads(kind)
  BY <1>2, TypeParts DEF RepoInv, WorkInv, HandlerOK, Dropping, Deleting
<1>7. op # "delete" => (Dropping' <=> at = "drop")
  BY <1>1, <1>2, <1>4, <1>6, UploadsAreNew DEF Dropping, Deleting
<1>8. WorkInv'
  <2>1. CASE op = "delete"
    BY <1>1, <1>6, <2>1 DEF WorkInv, RepoInv, Deleting, Creating
  <2>2. CASE at = "drop"
    BY <1>1, <1>2, <1>4, <1>6, <1>7, <2>2 DEF WorkInv, Deleting, Creating
  <2>3. CASE at = "next" /\ op # "delete"
    BY <1>1, <1>4, <1>6, <1>7, <2>3 DEF WorkInv, Deleting, Creating
  <2>. QED
    BY <2>1, <2>2, <2>3
<1>9. DoneInv'
  <2>1. ASSUME NEW k \in Kind, op = "delete" \/ (op = "update" /\ at = "drop"),
               NEW m, m \notin ToDelete(k)'
        PROVE  m \notin ToDelete(k)
    <3>1. CASE k # kind
      BY <1>1, <2>1, <3>1 DEF ToDelete
    <3>2. CASE k = kind
      <4>1. ToDelete(k)' = (todo \ {n}) \cup {n}
        BY <1>1, <1>7, <2>1, <3>2 DEF ToDelete
      <4>2. ToDelete(k) = todo
        BY <2>1, <3>2 DEF ToDelete, Dropping
      <4>. QED
        BY <2>1, <4>1, <4>2
    <3>. QED
      BY <3>1, <3>2
  <2>2. ASSUME NEW k \in Kind, op = "update", at = "next", NEW m \in Dropped(k),
               m \notin ToDelete(k)'
        PROVE  m \notin ToDelete(k)
    BY <1>1, <1>7, <2>2 DEF ToDelete, Dropping, Deleting
  <2>3. ASSUME NEW k \in Kind, op \in {"create", "update"}, NEW m \in Uploads(k),
               m \notin ToUpload(k)'
        PROVE  m \notin ToUpload(k)
    <3>1. CASE k # kind
      BY <1>1, <2>3, <3>1 DEF ToUpload
    <3>2. CASE k = kind /\ at = "drop"
      <4>1. ToUpload(k)' = Name
        BY <1>1, <1>7, <2>3, <3>2 DEF ToUpload
      <4>. QED
        BY <2>3, <4>1 DEF Uploads
    <3>3. CASE k = kind /\ at = "next"
      <4>1. ToUpload(k)' = (todo \ {n}) \cup {n}
        BY <1>1, <1>7, <2>3, <3>3 DEF ToUpload
      <4>2. ToUpload(k) = todo
        BY <3>3 DEF ToUpload, Dropping, Deleting
      <4>. QED
        BY <2>3, <4>1, <4>2
    <3>. QED
      BY <3>1, <3>2, <3>3
  <2>. QED
    BY <1>1, <1>2, <2>1, <2>2, <2>3, LessDone DEF RepoInv
<1>. QED
  BY <1>1, <1>3, <1>5, <1>8, <1>9, QuietStep DEF Filling

LEMMA DeleteItemKeeps ==
    ASSUME RepoInv, UNCHANGED api, DeleteItem,
           at = "drop" \/ (at = "next" /\ op = "delete")
    PROVE  RepoInv'
<1>1. op # "idle"
  BY DEF RepoInv, RunInv
<1>2. CASE ReturnError /\ UNCHANGED array
  BY <1>1, <1>2, ErrorUnchanged
<1>3. CASE \E n \in todo : Take(n, "lun")
  BY <1>3, TakeKeeps
<1>. QED
  BY <1>2, <1>3 DEF DeleteItem

LEMMA DropKeeps ==
    ASSUME RepoInv, UNCHANGED api, Drop
    PROVE  RepoInv'
<1>1. at = "drop" /\ op = "update"
  BY DEF Drop, RepoInv, RunInv
<1>2. CASE DeleteItem
  BY <1>1, <1>2, DeleteItemKeeps
<1>3. CASE todo = {} /\ Goto("relist") /\ UNCHANGED array
  <2>1. /\ at' = "relist" /\ todo' = {}
        /\ UNCHANGED <<array, present, old, new, reported, op, kind, name, listed>>
    BY <1>3 DEF Goto, terraform
  <2>2. HandlerOK'
    BY <2>1, TypeParts DEF RepoInv, HandlerOK, Label
  <2>3. RunInv' /\ WorkInv'
    BY <1>1, <2>1 DEF RepoInv, RunInv, WorkInv, Deleting, Creating
  <2>4. \A k \in Kind : ToDelete(k) = ToDelete(k)' /\ ToUpload(k)' = ToUpload(k)
    BY <1>1, <1>3, <2>1 DEF ToDelete, ToUpload, Dropping, Deleting
  <2>5. DoneInv'
    BY <1>1, <2>1, <2>4, LessDone DEF RepoInv
  <2>. QED
    BY <2>1, <2>2, <2>3, <2>5, QuietStep DEF Filling
<1>. QED
  BY <1>2, <1>3 DEF Drop

-----------------------------------------------------------------------------
(* The end of a loop.                                                      *)

(* Nothing is left to be done for the kind, and if its turn was the last   *)
(* nothing at all.                                                         *)
LEMMA LoopEnd ==
    ASSUME RepoInv, at = "next", todo = {}
    PROVE  /\ op = "delete" \/ op \in {"create", "update"}
           /\ ~Dropping /\ ToUpload(kind) = {} /\ ToDelete(kind) = {}
           /\ kind = "template" => ToUpload("image") = {} /\ ToDelete("image") = {}
<1>1. op # "idle" /\ ~Dropping
  BY DEF RepoInv, RunInv, Dropping, Deleting
<1>2. op \in {"create", "update", "delete"}
  BY <1>1, TypeParts DEF RepoInv, HandlerOK
<1>. QED
  BY <1>1, <1>2 DEF ToUpload, ToDelete

LEMMA NextKindKeeps ==
    ASSUME RepoInv, UNCHANGED <<api, array>>, at = "next", todo = {},
           kind = "image", kind' = "template",
           IF op = "delete"
           THEN at' = "next" /\ todo' = {n \in Name : old["template"][n] # Unlisted}
           ELSE at' = "list" /\ UNCHANGED todo,
           UNCHANGED <<terraform, op, name, listed>>
    PROVE  RepoInv'
<1>1. UNCHANGED <<present, old, new, reported>>
  BY DEF terraform
<1>2. HandlerOK'
  BY TypeParts DEF RepoInv, HandlerOK, Label, Kind
<1>3. RunInv'
  BY <1>1 DEF RepoInv, RunInv, Deleting
<1>4. WorkInv'
  BY <1>1 DEF RepoInv, RunInv, WorkInv, Dropping, Deleting, Creating
<1>5. ASSUME NEW k \in Kind, NEW n \in Name, n \notin ToDelete(k)'
      PROVE  k = "image" \/ (op = "delete" /\ old[k][n] = Unlisted)
  BY <1>1, <1>5 DEF Kind, ToDelete
<1>6. ASSUME NEW k \in Kind, NEW n \in Name, n \notin ToUpload(k)'
      PROVE  k = "image" \/ op = "delete"
  BY <1>6 DEF Kind, ToUpload, Dropping
<1>7. DoneInv'
  BY <1>1, <1>5, <1>6, LoopEnd, LessDone DEF RepoInv, Uploads, Dropped
<1>. QED
  BY <1>1, <1>2, <1>3, <1>4, <1>7, QuietStep DEF Filling

(* A handler that ends without an error has uploaded everything there is   *)
(* to upload, or has found it there.                                       *)
LEMMA AllUploaded ==
    ASSUME RepoInv, at = "next", todo = {}, op # "delete", op = "update" => ~reported,
           kind = "template" \/ (op = "update" /\ Changed("template") = {}),
           NEW k \in Kind, NEW n \in Name, new[k][n] \in Location
    PROVE  Has(k, n, new[k][n])
<1>1. op \in {"create", "update"} /\ kind \in Kind
  BY LoopEnd, TypeParts DEF RepoInv, HandlerOK
<1>2. CASE n \in Uploads(k)
  <2>1. k = kind \/ kind = "template"
    BY <1>1, <1>2 DEF Kind, Uploads
  <2>2. n \notin ToUpload(k)
    BY <2>1, LoopEnd DEF Kind
  <2>. QED
    BY <1>1, <1>2, <2>2 DEF RepoInv, DoneInv
<1>3. CASE n \notin Uploads(k)
  <2>1. op = "update" /\ old[k][n] = new[k][n]
    BY <1>1, <1>3 DEF Uploads, Changed
  <2>. QED
    BY <2>1 DEF RepoInv, RunInv, KeptInv
<1>. QED
  BY <1>2, <1>3

LEMMA ReturnOkKeeps ==
    ASSUME RepoInv, UNCHANGED <<api, array>>, at = "next", todo = {}, ReturnOk,
           kind = "template" \/ (op = "update" /\ Changed("template") = {})
    PROVE  RepoInv'
<1>1. /\ op' = "idle" /\ at' = "idle" /\ kind' = "image" /\ todo' = {} /\ listed' = {}
      /\ present' = (op # "delete") /\ old' = new /\ new' = new /\ name' = name
      /\ reported' = (reported /\ op = "update")
  BY DEF ReturnOk, Return
<1>2. TypeOK'
  BY <1>1, TypeParts DEF RepoInv, TypeOK, ArrayOK, TerraformOK, HandlerOK, array, Kind, Label
<1>3. RunInv' /\ WorkInv'
  BY <1>1 DEF RunInv, WorkInv, Deleting, Creating
<1>4. VolumeInv' /\ DoneInv'
  BY <1>1 DEF RepoInv, VolumeInv, DoneInv, Filling, array
<1>5. KeptInv'
  <2>1. ASSUME present', ~reported', NEW k \in Kind, NEW n \in Name, new[k][n] \in Location
        PROVE  Has(k, n, new[k][n])
    BY <1>1, <2>1, AllUploaded
  <2>. QED
    BY <1>1, <2>1 DEF KeptInv, Has, array
<1>. QED
  BY <1>2, <1>3, <1>4, <1>5 DEF RepoInv

LEMMA NextItemKeeps ==
    ASSUME RepoInv, UNCHANGED api, NextItem
    PROVE  RepoInv'
<1>1. at = "next" /\ op # "idle" /\ op \in {"create", "update", "delete"} /\ kind \in Kind
  BY TypeParts DEF NextItem, RepoInv, RunInv, HandlerOK
<1>2. CASE todo = {}
  <2>1. EndKind /\ UNCHANGED array
    BY <1>2 DEF NextItem
  <2>2. CASE kind = "image" /\ (op = "update" => Changed("template") # {})
    BY <1>1, <1>2, <2>1, <2>2, NextKindKeeps DEF EndKind
  <2>3. CASE ~(kind = "image" /\ (op = "update" => Changed("template") # {}))
    <3>1. ReturnOk \/ ReturnError
      BY <2>1, <2>3 DEF EndKind
    <3>. QED
      BY <1>1, <1>2, <2>1, <2>3, <3>1, ReturnOkKeeps, ErrorUnchanged DEF Kind
  <2>. QED
    BY <2>2, <2>3
<1>3. CASE todo # {} /\ op = "delete"
  BY <1>1, <1>3, DeleteItemKeeps DEF NextItem
<1>4. CASE todo # {} /\ op # "delete"
  <2>1. PICK n \in todo : Take(n, IF n \in listed THEN "lun" ELSE "policy")
    BY <1>4 DEF NextItem
  <2>. QED
    BY <1>1, <1>4, <2>1, TakeKeeps
<1>. QED
  BY <1>2, <1>3, <1>4

-----------------------------------------------------------------------------
(* Terraform.                                                              *)

LEMMA DestroyKeeps ==
    ASSUME RepoInv, UNCHANGED api, Destroy
    PROVE  RepoInv'
<1>1. /\ op = "idle" /\ present /\ op' = "delete" /\ kind' = "image" /\ at' = "next"
      /\ todo' = {n \in Name : old["image"][n] # Unlisted}
      /\ UNCHANGED <<array, present, old, new, reported, name, listed>>
  BY DEF Destroy, Start
<1>2. TypeOK'
  BY <1>1, TypeParts DEF RepoInv, TypeOK, ArrayOK, TerraformOK, HandlerOK, array, Kind, Label
<1>3. RunInv' /\ WorkInv'
  BY <1>1 DEF RepoInv, RunInv, WorkInv, Deleting, Creating
<1>4. VolumeInv' /\ KeptInv'
  BY <1>1 DEF RepoInv, VolumeInv, KeptInv, Filling, array
<1>5. DoneInv'
  BY <1>1 DEF DoneInv, ToDelete, Kind
<1>. QED
  BY <1>2, <1>3, <1>4, <1>5 DEF RepoInv

LEMMA ApplyKeeps ==
    ASSUME RepoInv, UNCHANGED api, NEW c \in Configs, Apply(c)
    PROVE  RepoInv'
<1>1. /\ op = "idle" /\ new' = c /\ at' = "list" /\ todo' = {}
      /\ UNCHANGED <<array, present, old, reported, name, listed>>
      /\ \/ ~present /\ op' = "create" /\ kind' = "image"
         \/ /\ present /\ op' = "update"
            /\ kind' = IF c["image"] # old["image"] THEN "image" ELSE "template"
  BY DEF Apply, Start
<1>2. TypeOK'
  BY <1>1, TypeParts DEF RepoInv, TypeOK, ArrayOK, TerraformOK, HandlerOK, array, Kind, Label
<1>3. RunInv' /\ WorkInv'
  BY <1>1 DEF RepoInv, RunInv, WorkInv, Deleting, Creating
<1>4. VolumeInv'
  BY <1>1 DEF RepoInv, VolumeInv, Filling, array
<1>5. KeptInv'
  BY <1>1 DEF RepoInv, RunInv, KeptInv, Has, array
<1>6. DoneInv'
  <2>1. Dropping'
    BY <1>1 DEF Dropping
  <2>2. CASE kind' = "image"
    <3>1. \A k \in Kind : ToDelete(k)' = Name /\ ToUpload(k)' = Name
      BY <1>1, <2>1, <2>2 DEF ToDelete, ToUpload, Kind
    <3>. QED
      BY <1>1, <3>1 DEF DoneInv, Dropped, Uploads
  <2>3. CASE kind' = "template" /\ op' = "update" /\ c["image"] = old["image"]
    <3>1. ToDelete("template")' = Name /\ ToUpload("template")' = Name
      BY <1>1, <2>1, <2>3 DEF ToDelete, ToUpload
    <3>2. Dropped("image")' = {} /\ Uploads("image")' = {}
      BY <1>1, <2>3 DEF Dropped, Uploads, Changed
    <3>. QED
      BY <1>1, <2>3, <3>1, <3>2 DEF DoneInv, Dropped, Uploads, Kind
  <2>. QED
    BY <1>1, <2>2, <2>3
<1>. QED
  BY <1>2, <1>3, <1>4, <1>5, <1>6 DEF RepoInv

LEMMA InitKeeps ==
    ASSUME Init
    PROVE  RepoInv
<1>1. TypeOK
  <2>1. PICK filled \in BOOLEAN :
          /\ volume = [k \in Kind |-> filled] /\ policy = volume /\ dir = filled
          /\ store = [k \in Kind |-> [n \in Name |-> IF filled THEN "foreign" ELSE "none"]]
    BY DEF Init
  <2>2. volume \in [Kind -> BOOLEAN] /\ policy \in [Kind -> BOOLEAN] /\ dir \in BOOLEAN
    BY <2>1
  <2>3. (IF filled THEN "foreign" ELSE "none") \in Content
    BY DEF Content
  <2>4. store \in [Kind -> [Name -> Content]]
    BY <2>1, <2>3
  <2>5. file \in [Name -> Content]
    BY DEF Init, Content
  <2>. QED
    BY <2>2, <2>4, <2>5 DEF Init, TypeOK, Kind, Label
<1>2. RunInv /\ WorkInv /\ DoneInv /\ KeptInv
  BY DEF Init, RunInv, WorkInv, DoneInv, KeptInv, Deleting, Creating
<1>3. VolumeInv
  BY DEF Init, VolumeInv, Filling
<1>. QED
  BY <1>1, <1>2, <1>3 DEF RepoInv

LEMMA NextKeeps ==
    ASSUME RepoInv, [Next]_vars
    PROVE  RepoInv'
<1>1. CASE UNCHANGED vars
  BY <1>1 DEF vars, array, terraform, handler, RepoInv, TypeOK, RunInv, WorkInv, VolumeInv,
     DoneInv, KeptInv, Dropping, Dropped, Uploads, Changed, ToDelete, ToUpload, Has
<1>2. CASE Next
  BY <1>2, ListKeeps, DropKeeps, NextItemKeeps, DeleteLunKeeps, DeleteFileKeeps, PrepareKeeps,
     OpenKeeps, WriteKeeps, ConvertKeeps, DestroyKeeps, ApplyKeeps DEF Next, Handle
<1>. QED
  BY <1>1, <1>2

-----------------------------------------------------------------------------
(* The inductive invariant: what terraform knows of the resource fits what *)
(* the handler does, the loops come to what they are for and nothing else, *)
(* what they are done with is done, and the rest is as it was.             *)
THEOREM RepoInvariance == Spec => []RepoInv
<1>1. Init => RepoInv
  BY InitKeeps
<1>2. RepoInv /\ [Next]_vars => RepoInv'
  BY NextKeeps
<1>. QED
  BY <1>1, <1>2, PTL DEF Spec

(* The type of the state of array, terraform and handler.                  *)
THEOREM RepoTypes == Spec => []TypeOK
<1>1. RepoInv => TypeOK
  BY DEF RepoInv
<1>. QED
  BY <1>1, RepoInvariance, PTL

(* Between two runs of terraform that have reported no error since the     *)
(* resource was created, every image and template that has a location is   *)
(* on the array, whole and with the contents of this location.             *)
THEOREM SyncedBetweenRuns == Spec => []SyncedUnlessReported
<1>1. RepoInv => SyncedUnlessReported
  BY DEF RepoInv, RunInv, KeptInv, SyncedUnlessReported
<1>. QED
  BY <1>1, RepoInvariance, PTL

(* The contents of an item change only while a handler works at it: only   *)
(* to nothing before it is uploaded again.                                 *)
LEMMA WhoStores ==
    ASSUME RepoInv, Next, NEW k \in Kind, NEW n \in Name, store'[k][n] # store[k][n]
    PROVE  /\ k = kind /\ n = name
           /\ at \in {"lun", "clear_lun", "open", "write", "convert"}
           /\ at = "lun" => store'[k][n] = "none"
           /\ (new' = new /\ old' = old) \/ ReturnError
<1>. USE DEF array
<1>1. store \in [Kind -> [Name -> Content]]
  BY DEF RepoInv, TypeOK
<1>2. ~StartList /\ ~Drop /\ ~Relist /\ ~NextItem /\ ~Destroy
  BY DEF StartList, Drop, Relist, NextItem, List, DeleteItem, Take, Destroy, Start
<1>3. ~DeleteFile /\ ~CreatePolicy /\ ~CreateVolume /\ ~ClearFile
  BY DEF DeleteFile, CreatePolicy, CreateVolume, ClearFile, Request, RequestIf, DestroyFile
<1>4. ~ \E c \in Configs : Apply(c)
  BY DEF Apply, Start
<1>5. DeleteLun \/ ClearLun \/ Open \/ Write \/ Convert
  BY <1>2, <1>3, <1>4 DEF Next, Handle
<1>6. at \in {"lun", "clear_lun", "open", "write", "convert"}
  BY <1>5 DEF DeleteLun, ClearLun, Open, Write, Convert
<1>7. \E c : store' = [store EXCEPT ![kind][name] = c]
  BY <1>5 DEF DeleteLun, ClearLun, Open, Write, Convert, Request, RequestIf, DestroyItem, Put,
     PutFile
<1>8. k = kind /\ n = name
  BY <1>1, <1>7
<1>9. at = "lun" => store'[k][n] = "none"
  <2>1. SUFFICES ASSUME at = "lun"
                 PROVE  store'[k][n] = "none"
    OBVIOUS
  <2>2. DeleteLun
    BY <1>5, <2>1 DEF ClearLun, Open, Write, Convert
  <2>. QED
    BY <1>1, <1>8, <2>2 DEF DeleteLun, Request, RequestIf, DestroyItem, Put
<1>10. (new' = new /\ old' = old) \/ ReturnError
  BY <1>5 DEF DeleteLun, ClearLun, Open, Write, Convert, Request, RequestIf, Goto, terraform
<1>. QED
  BY <1>6, <1>8, <1>9, <1>10

(* Images and templates that neither the configuration nor the state lists *)
(* keep their contents, one that is listed without a location is never     *)
(* written, only deleted with the resource, and an update does not touch   *)
(* what has kept its location: neither does a handler that fails.          *)
THEOREM OthersAreKept == Spec => OthersKept
<1>. DEFINE Act ==
       \A k \in Kind, n \in Name :
          store'[k][n] # store[k][n] =>
              /\ Managed(k, n)
              /\ new[k][n] \in Location \/ store'[k][n] = "none"
              /\ new[k][n] = NoLocation => op = "delete"
              /\ op = "update" => old[k][n] # new[k][n]
<1>1. ASSUME RepoInv, Next, NEW k \in Kind, NEW n \in Name, store'[k][n] # store[k][n]
      PROVE  /\ Managed(k, n)
             /\ new[k][n] \in Location \/ store'[k][n] = "none"
             /\ new[k][n] = NoLocation => op = "delete"
             /\ op = "update" => old[k][n] # new[k][n]
  <2>1. /\ k = kind /\ n = name
        /\ at \in {"lun", "clear_lun", "open", "write", "convert"}
        /\ at = "lun" => store'[k][n] = "none"
    BY <1>1, WhoStores
  <2>2. WorkInv /\ RunInv /\ op \in {"idle", "create", "update", "delete"}
    BY <1>1 DEF RepoInv, TypeOK
  <2>3. Unlisted # NoLocation /\ Unlisted \notin Location /\ NoLocation \notin Location
    BY ItemAssumption DEF NoLocation
  <2>4. CASE name \in Uploads(kind)
    BY <2>1, <2>3, <2>4 DEF Uploads, Changed, Managed
  <2>5. CASE op = "delete" /\ at = "lun"
    BY <2>1, <2>2, <2>5 DEF WorkInv, RunInv, Managed, Deleting
  <2>6. CASE op = "update" /\ at = "lun" /\ name \in Dropped(kind)
    BY <2>1, <2>2, <2>3, <2>6 DEF RunInv, Managed, Dropped
  <2>. QED
    BY <2>1, <2>2, <2>4, <2>5, <2>6 DEF WorkInv, RunInv, Deleting, Creating, Dropping
<1>2. RepoInv /\ [Next]_vars => [Act]_vars
  BY <1>1
<1>3. Init => RepoInv
  BY InitKeeps
<1>4. RepoInv /\ [Next]_vars => RepoInv'
  BY NextKeeps
<1>. QED
  BY <1>2, <1>3, <1>4, PTL DEF Spec, OthersKept

(* A run of terraform ends without an error only at the end of the lists.  *)
LEMMA WhoReturns ==
    ASSUME RepoInv, Next, op # "idle", op' = "idle",
           (present /\ ~present') \/ ~reported'
    PROVE  at = "next" /\ todo = {} /\ EndKind /\ ~ReturnError /\ UNCHANGED array
<1>1. ~ReturnError
  BY DEF ReturnError
<1>2. ~ \E l : Goto(l)
  BY DEF Goto
<1>3. ~StartList /\ ~Drop /\ ~Relist
  BY <1>1, <1>2 DEF StartList, Drop, Relist, List, DeleteItem, Take
<1>4. ~DeleteLun /\ ~DeleteFile /\ ~CreatePolicy /\ ~CreateVolume /\ ~ClearLun /\ ~ClearFile
  BY <1>1, <1>2 DEF DeleteLun, DeleteFile, CreatePolicy, CreateVolume, ClearLun, ClearFile,
     Request, RequestIf
<1>5. ~Open /\ ~Write /\ ~Convert
  BY <1>1, <1>2 DEF Open, Write, Convert, Request
<1>6. ~Destroy /\ ~ \E c \in Configs : Apply(c)
  BY DEF Destroy, Apply, Start
<1>7. NextItem
  BY <1>3, <1>4, <1>5, <1>6 DEF Next, Handle
<1>. QED
  BY <1>1, <1>7 DEF NextItem, DeleteItem, Take

(* Only the end of a handler changes whether the resource is in the state. *)
LEMMA WhoLeaves ==
    ASSUME Next, op # "idle", op' # "idle"
    PROVE  UNCHANGED present
<1>1. ~ReturnError /\ ~ReturnOk
  BY DEF ReturnError, ReturnOk, Return
<1>2. CASE \E l : Goto(l)
  BY <1>2 DEF Goto, terraform
<1>3. CASE StartList \/ Drop \/ Relist \/ NextItem
  BY <1>1, <1>2, <1>3 DEF StartList, Drop, Relist, NextItem, List, DeleteItem, Take, EndKind,
     terraform
<1>4. CASE DeleteLun \/ DeleteFile \/ CreatePolicy \/ CreateVolume \/ ClearLun \/ ClearFile
  BY <1>1, <1>2, <1>4 DEF DeleteLun, DeleteFile, CreatePolicy, CreateVolume, ClearLun,
     ClearFile, Request, RequestIf
<1>5. CASE Open \/ Write \/ Convert
  BY <1>1, <1>2, <1>5 DEF Open, Write, Convert, Request
<1>6. ~Destroy /\ ~ \E c \in Configs : Apply(c)
  BY DEF Destroy, Apply, Start
<1>. QED
  BY <1>3, <1>4, <1>5, <1>6 DEF Next, Handle

(* When the resource leaves the state, everything that was listed is gone  *)
(* from the array, of both kinds; an update that reports no error, after   *)
(* none that did, has deleted what the configuration dropped.              *)
THEOREM DroppedItemsAreGone == Spec => DroppedIsGone
<1>. DEFINE Act ==
       \A k \in Kind, n \in Name :
          /\ old[k][n] # Unlisted
          /\ \/ present /\ ~present'
             \/ op = "update" /\ op' = "idle" /\ ~reported' /\ new[k][n] = Unlisted
          => store[k][n] = "none"
<1>1. ASSUME RepoInv, Next, NEW k \in Kind, NEW n \in Name, old[k][n] # Unlisted,
             \/ present /\ ~present'
             \/ op = "update" /\ op' = "idle" /\ ~reported' /\ new[k][n] = Unlisted
      PROVE  store[k][n] = "none"
  <2>1. op # "idle" /\ op' = "idle"
    <3>1. ASSUME op = "idle"
          PROVE  UNCHANGED present
      <4>1. at = "idle"
        BY <1>1, <3>1 DEF RepoInv, RunInv
      <4>2. ~Handle
        BY <4>1 DEF Handle, StartList, Drop, Relist, List, NextItem, DeleteLun, DeleteFile,
           CreatePolicy, CreateVolume, ClearLun, ClearFile, Open, Write, Convert
      <4>. QED
        BY <1>1, <4>2 DEF Next, Destroy, Apply, Start
    <3>2. op # "idle"
      BY <1>1, <3>1
    <3>3. CASE op' # "idle"
      <4>1. UNCHANGED present
        BY <1>1, <3>2, <3>3, WhoLeaves
      <4>. QED
        BY <1>1, <3>3, <4>1
    <3>. QED
      BY <3>2, <3>3
  <2>2. at = "next" /\ todo = {} /\ EndKind /\ ~ReturnError
    BY <1>1, <2>1, WhoReturns
  <2>3. ReturnOk /\ (kind = "template" \/ (op = "update" /\ Changed("template") = {}))
    <3>1. kind \in {"image", "template"}
      BY <1>1 DEF RepoInv, TypeOK, Kind
    <3>2. CASE kind = "image" /\ (op = "update" => Changed("template") # {})
      BY <2>1, <2>2, <3>2 DEF EndKind
    <3>3. CASE ~(kind = "image" /\ (op = "update" => Changed("template") # {}))
      BY <2>2, <3>1, <3>3 DEF EndKind
    <3>. QED
      BY <3>2, <3>3
  <2>4. DoneInv /\ k \in {"image", "template"}
    BY <1>1 DEF RepoInv, Kind
  <2>5. CASE op = "delete"
    <3>1. n \notin ToDelete(k)
      BY <1>1, <2>2, <2>3, <2>5, LoopEnd DEF Kind
    <3>. QED
      BY <1>1, <2>4, <2>5, <3>1 DEF DoneInv
  <2>6. CASE op # "delete"
    <3>1. op = "update" /\ new[k][n] = Unlisted /\ n \in Dropped(k)
      BY <1>1, <2>3, <2>6 DEF ReturnOk, Dropped
    <3>2. n \notin ToDelete(k)
      <4>1. k = kind \/ kind = "template"
        <5>1. n \in Changed(k)
          BY <1>1, <3>1 DEF Changed
        <5>2. kind \in {"image", "template"}
          BY <1>1 DEF RepoInv, TypeOK, Kind
        <5>. QED
          BY <2>3, <2>4, <5>1, <5>2
      <4>. QED
        BY <1>1, <2>2, <2>4, <4>1, LoopEnd
    <3>. QED
      BY <1>1, <2>4, <3>1, <3>2 DEF DoneInv
  <2>. QED
    BY <2>5, <2>6
<1>2. RepoInv /\ [Next]_vars => [Act]_vars
  BY <1>1
<1>3. Init => RepoInv
  BY InitKeeps
<1>4. RepoInv /\ [Next]_vars => RepoInv'
  BY NextKeeps
<1>. QED
  BY <1>2, <1>3, <1>4, PTL DEF Spec, DroppedIsGone

=============================================================================

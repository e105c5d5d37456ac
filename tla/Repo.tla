-------------------------------- MODULE Repo --------------------------------
(***************************************************************************)
(* The repository of images and templates on the array:                    *)
(* flexbot/resource_flexbot_repo.go with pkg/ontap/repo-storage.go, one    *)
(* terraform apply after the other.  An image is a LUN, a template a file, *)
(* each in a volume of its kind.  Every request to the array may fail,     *)
(* before or after its effect.                                             *)
(***************************************************************************)
EXTENDS TLC

CONSTANTS
    Name,       \* the names of images and templates
    Location,   \* where their contents can be uploaded from
    Web,        \* the locations that are fetched by HTTP
    Unlisted,   \* not among the items of the configuration
    Configs     \* the configurations: per kind and name an item

Kind == {"image", "template"}
NoLocation == ""
Item == Location \cup {NoLocation, Unlisted}
Content == Location \cup {"none", "part", "foreign", "page"}

ASSUME WebAssumption == Web \subseteq Location
ASSUME ItemAssumption ==
    /\ Unlisted \notin Location \cup {NoLocation}
    /\ Location \cap {"", "none", "part", "foreign", "page"} = {}
ASSUME ConfigsAssumption == Configs \subseteq [Kind -> [Name -> Item]]

VARIABLES
    \* the array
    api,        \* wire protocol
    volume,     \* by kind: its volume exists
    policy,     \* by kind: its export policy exists
    dir,        \* the directory of the templates exists
    store,      \* by kind and name: none, part, whose content it has
    file,       \* by name: the file that ZAPI makes an image's LUN from
    \* terraform
    present,    \* the resource is in its state
    old,        \* the configuration in its state
    new,        \* the configuration that is applied
    reported,   \* an update has failed since the resource was created
    \* the handler
    op, kind, at,
    name,       \* the item at work
    listed,     \* the names that the array had when it was asked
    todo        \* the names that the loop has not come to yet

array     == <<volume, policy, dir, store, file>>
terraform == <<present, old, new, reported>>
handler   == <<op, kind, at, name, listed, todo>>
vars      == <<api, array, terraform, handler>>

Label ==
    { "idle", "list", "drop", "relist", "next", "lun", "file", "policy", "volume",
      "clear_lun", "clear_file", "open", "write", "convert" }

TypeOK ==
    /\ api \in {"rest", "zapi"}
    /\ volume \in [Kind -> BOOLEAN] /\ policy \in [Kind -> BOOLEAN] /\ dir \in BOOLEAN
    /\ store \in [Kind -> [Name -> Content]] /\ file \in [Name -> Content]
    /\ present \in BOOLEAN /\ reported \in BOOLEAN
    /\ old \in Configs /\ new \in Configs
    /\ op \in {"idle", "create", "update", "delete"}
    /\ kind \in Kind /\ at \in Label /\ name \in Name
    /\ listed \subseteq Name /\ todo \subseteq Name

(* An empty array, or one whose repositories were filled by hand.          *)
Init ==
    /\ api \in {"rest", "zapi"}
    /\ \E filled \in BOOLEAN :
          /\ volume = [k \in Kind |-> filled] /\ policy = volume /\ dir = filled
          /\ store = [k \in Kind |-> [n \in Name |-> IF filled THEN "foreign" ELSE "none"]]
    /\ file = [n \in Name |-> "none"]
    /\ present = FALSE /\ reported = FALSE
    /\ old \in Configs /\ new = old
    /\ op = "idle" /\ kind = "image" /\ at = "idle"
    /\ name \in Name /\ listed = {} /\ todo = {}

-----------------------------------------------------------------------------
(* Control.                                                                *)

Goto(l) == at' = l /\ UNCHANGED <<terraform, op, kind, name, listed, todo>>

Return ==
    /\ op' = "idle" /\ kind' = "image" /\ at' = "idle"
    /\ listed' = {} /\ todo' = {}
    /\ UNCHANGED <<new, name>>

(* Without SetId a resource whose creation failed is not in the state; the *)
(* new configuration of a failed update is, for lack of d.Partial(true).   *)
ReturnError ==
    /\ Return
    /\ old' = IF op = "update" THEN new ELSE old
    /\ reported' = TRUE
    /\ UNCHANGED present

(* A request with effect A.                                                *)
Request(A, l) ==
    \/ A /\ Goto(l)
    \/ (A \/ UNCHANGED array) /\ ReturnError

(* A request that is only made if c, for which the array is asked first.   *)
RequestIf(c, A, l) == Request(IF c THEN A ELSE UNCHANGED array, l)

(* The templates cannot be listed in a volume that has no directory yet:   *)
(* the read at the end of create and update, and the refresh before.       *)
Listable(k) == k = "template" /\ volume[k] => dir

Names(k) == IF volume[k] THEN {n \in Name : store[k][n] # "none"} ELSE {}

ReturnOk ==
    /\ Return
    /\ present' = (op # "delete")
    /\ old' = new
    /\ reported' = (reported /\ op = "update")

Changed(k) == {n \in Name : old[k][n] # new[k][n]}

(* The names with a location to upload.                                    *)

(* Only looks for new names.                                               *)
UploadsBug(k) ==
    {n \in Name : new[k][n] \in Location /\ (op = "update" => old[k][n] = Unlisted)}

(* Does not compare locations.                                             *)
UploadsAll(k) == {n \in Name : new[k][n] \in Location}

Uploads(k) ==
    {n \in Name : new[k][n] \in Location /\ (op = "update" => n \in Changed(k))}

-----------------------------------------------------------------------------
(* The handlers.  The order of the items within a list is any.             *)

(* GetRepoImages or GetRepoTemplates.                                      *)
List(from, t, l) ==
    /\ at = from
    /\ \/ /\ Listable(kind)
          /\ listed' = Names(kind) /\ todo' = t /\ at' = l
          /\ UNCHANGED <<terraform, op, kind, name>>
       \/ ReturnError
    /\ UNCHANGED array

(* createRepo starts with the uploads, updateRepo with what is dropped.    *)
StartList ==
    IF op = "create"
    THEN List("list", Uploads(kind), "next")
    ELSE List("list", {n \in Names(kind) : old[kind][n] # Unlisted /\ new[kind][n] = Unlisted}, "drop")

Relist == List("relist", Uploads(kind), "next")

Take(n, l) ==
    /\ n \in todo
    /\ name' = n /\ todo' = todo \ {n} /\ at' = l
    /\ UNCHANGED <<array, terraform, op, kind, listed>>

(* DeleteRepoImage and DeleteRepoTemplate fail without the volume.         *)
DeleteItem ==
    \/ volume[kind] /\ \E n \in todo : Take(n, "lun")
    \/ todo # {} /\ ReturnError /\ UNCHANGED array

Drop ==
    /\ at = "drop"
    /\ DeleteItem \/ (todo = {} /\ Goto("relist") /\ UNCHANGED array)

(* Goes on with a kind that does not exist.                                *)
EndKindBug ==
    IF kind = "image"
    THEN kind' = "templates" /\ at' = "list" /\ UNCHANGED <<terraform, op, name, listed, todo>>
    ELSE ReturnOk

(* The deletion goes on with the templates of the last handler.            *)
EndKindKept ==
    IF op = "delete" /\ kind = "image"
    THEN kind' = "template" /\ at' = "next" /\ UNCHANGED <<terraform, op, name, listed, todo>>
    ELSE ReturnOk

(* Images first, then templates; an update passes over what is unchanged.  *)
EndKind ==
    IF kind = "image" /\ (op = "update" => Changed("template") # {})
    THEN /\ kind' = "template"
         /\ IF op = "delete"
            THEN at' = "next" /\ todo' = {n \in Name : old["template"][n] # Unlisted}
            ELSE at' = "list" /\ UNCHANGED todo
         /\ UNCHANGED <<terraform, op, name, listed>>
    ELSE \/ (op # "delete" => Listable("template")) /\ ReturnOk
         \/ op # "delete" /\ ReturnError

NextItem ==
    /\ at = "next"
    /\ IF todo = {} THEN EndKind /\ UNCHANGED array
       ELSE IF op = "delete" THEN DeleteItem
       ELSE \E n \in todo : Take(n, IF n \in listed THEN "lun" ELSE "policy")

-----------------------------------------------------------------------------
(* DeleteRepoImage, DeleteRepoTemplate; CreateRepoImage, CreateRepoTemplate.*)

Put(c) == store' = [store EXCEPT ![kind][name] = c]
PutFile(c) == file' = [file EXCEPT ![name] = c]

DestroyItem == Put("none") /\ UNCHANGED <<volume, policy, dir, file>>
DestroyFile == PutFile("none") /\ UNCHANGED <<volume, policy, dir, store>>

DeleteLun ==
    at = "lun" /\ RequestIf(store[kind][name] # "none", DestroyItem, "file")

AfterDelete ==
    IF op = "delete" THEN "next"
    ELSE IF op = "update" /\ new[kind][name] = Unlisted THEN "drop" ELSE "policy"

DeleteFile ==
    at = "file" /\ RequestIf(kind = "image" /\ file[name] # "none", DestroyFile, AfterDelete)

(* The policy is only created with the volume, and refused if it exists.   *)
CreatePolicy ==
    /\ at = "policy"
    /\ \/ /\ ~policy[kind] \/ volume[kind]
          /\ RequestIf(~volume[kind],
                policy' = [policy EXCEPT ![kind] = TRUE] /\ UNCHANGED <<volume, dir, store, file>>,
                "volume")
       \/ policy[kind] /\ ~volume[kind] /\ ReturnError /\ UNCHANGED array

CreateVolume ==
    /\ at = "volume"
    /\ RequestIf(~volume[kind],
          volume' = [volume EXCEPT ![kind] = TRUE] /\ UNCHANGED <<policy, dir, store, file>>,
          "clear_lun")

ClearLun ==
    at = "clear_lun" /\ RequestIf(store[kind][name] # "none", DestroyItem, "clear_file")

ClearFile ==
    at = "clear_file" /\ RequestIf(kind = "image" /\ file[name] # "none", DestroyFile, "open")

(* Opens the source and starts the upload: REST creates the LUN that it    *)
(* then writes to, ZAPI writes an image to a file first.                   *)
Open ==
    /\ at = "open"
    /\ Request(
          IF kind = "image" /\ api = "zapi"
          THEN PutFile("part") /\ UNCHANGED <<volume, policy, dir, store>>
          ELSE Put("part") /\ dir' = (dir \/ kind = "template") /\ UNCHANGED <<volume, policy, file>>,
          "write")

(* http.Get takes an error page for the content.                           *)
Source(l) == IF l \in Web THEN {l, "page"} ELSE {l}

Write ==
    /\ at = "write"
    /\ \E c \in Source(new[kind][name]) :
          IF kind = "image" /\ api = "zapi"
          THEN Request(PutFile(c) /\ UNCHANGED <<volume, policy, dir, store>>, "convert")
          ELSE Request(Put(c) /\ UNCHANGED <<volume, policy, dir, file>>, "next")

Convert ==
    /\ at = "convert"
    /\ Request(Put(file[name]) /\ UNCHANGED <<volume, policy, dir, file>>, "next")

-----------------------------------------------------------------------------
(* Terraform: refreshes the resource in its state, then creates, updates   *)
(* or deletes it; a refresh that fails ends the run.                       *)

Start(o, k, l, t, c) ==
    /\ op = "idle" /\ op' = o /\ kind' = k /\ at' = l /\ todo' = t /\ new' = c
    /\ UNCHANGED <<array, present, old, reported, name, listed>>

Apply(c) ==
    \/ ~present /\ Start("create", "image", "list", {}, c)
    \/ /\ present /\ Listable("template") /\ c # old
       /\ Start("update", IF c["image"] # old["image"] THEN "image" ELSE "template", "list", {}, c)

Destroy ==
    /\ present /\ Listable("template")
    /\ Start("delete", "image", "next", {n \in Name : old["image"][n] # Unlisted}, new)

Handle ==
    \/ StartList \/ Drop \/ Relist \/ NextItem
    \/ DeleteLun \/ DeleteFile
    \/ CreatePolicy \/ CreateVolume \/ ClearLun \/ ClearFile \/ Open \/ Write \/ Convert

Next ==
    /\ Handle \/ Destroy \/ \E c \in Configs : Apply(c)
    /\ UNCHANGED api

Spec == Init /\ [][Next]_vars

=============================================================================

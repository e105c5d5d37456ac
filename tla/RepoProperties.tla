--------------------------- MODULE RepoProperties ---------------------------
(***************************************************************************)
(* What a correct repository has to guarantee.                             *)
(***************************************************************************)
EXTENDS Repo

(* The array has what was uploaded from l, or the error page of its server.*)
Has(k, n, l) == store[k][n] \in Source(l)

(* Between two runs of terraform that have reported no error since the     *)
(* resource was created, however many failed before that, every image and  *)
(* template that has a location is on the array, whole and with the        *)
(* contents of this location (createRepo, updateRepo).                     *)
SyncedUnlessReported ==
    op = "idle" /\ present /\ ~reported =>
        \A k \in Kind, n \in Name : old[k][n] \in Location => Has(k, n, old[k][n])

(* In the configuration that is applied or in the state.                   *)
Managed(k, n) == new[k][n] # Unlisted \/ (present /\ old[k][n] # Unlisted)

(* Images and templates that neither the configuration nor the state lists *)
(* keep their contents, and one that is listed without a location is never *)
(* written, only deleted with the resource; an update does not touch what   *)
(* has kept its location (updateRepo, resourceDeleteRepo).                 *)
OthersKept ==
    [][\A k \in Kind, n \in Name :
          store'[k][n] # store[k][n] =>
              /\ Managed(k, n)
              /\ new[k][n] \in Location \/ store'[k][n] = "none"
              /\ new[k][n] = NoLocation => op = "delete"
              /\ op = "update" => old[k][n] # new[k][n]]_vars

(* When the resource leaves the state, everything that was listed is gone  *)
(* from the array, of both kinds; an update that reports no error, after   *)
(* none that did, has deleted what the configuration dropped.              *)
DroppedIsGone ==
    [][\A k \in Kind, n \in Name :
          /\ old[k][n] # Unlisted
          /\ \/ present /\ ~present'
             \/ op = "update" /\ op' = "idle" /\ ~reported' /\ new[k][n] = Unlisted
          => store[k][n] = "none"]_vars

-----------------------------------------------------------------------------
(* Why they hold: the inductive invariant of Repo.                         *)

(* At these points name is the item at work.                               *)
Deleting == {"lun", "file"}
Creating == {"policy", "volume", "clear_lun", "clear_file", "open", "write", "convert"}
Filling  == {"clear_lun", "clear_file", "open", "write", "convert"}

Dropped(k) == {n \in Name : old[k][n] # Unlisted /\ new[k][n] = Unlisted}

(* Between the lists of an update: still deleting what has been dropped.   *)
Dropping ==
    at \in {"list", "drop"} \/ (op = "update" /\ at \in Deleting /\ name \in Dropped(kind))

(* What terraform knows of the resource fits what it is doing.             *)
RunInv ==
    /\ (op = "idle") = (at = "idle")
    /\ op = "create" => ~present
    /\ op \in {"update", "delete"} => present
    /\ op = "delete" => at \in {"next"} \cup Deleting
    /\ at = "drop" => op = "update"
    /\ op \in {"idle", "delete"} /\ present => new = old

(* The loops come to what they are for and nothing else.                   *)
WorkInv ==
    /\ op = "delete" => \A n \in todo : old[kind][n] # Unlisted
    /\ op \in {"create", "update"} /\ Dropping /\ at # "list" => todo \subseteq Dropped(kind)
    /\ op \in {"create", "update"} /\ ~Dropping /\ at # "relist" => todo \subseteq Uploads(kind)
    /\ at \in Deleting /\ op = "delete" => old[kind][name] # Unlisted
    /\ at \in Deleting /\ op # "delete" => Dropping \/ name \in Uploads(kind)
    /\ at \in Creating => name \in Uploads(kind)

(* Nothing is stored outside of a volume.                                  *)
VolumeInv ==
    /\ \A k \in Kind : ~volume[k] => \A n \in Name : store[k][n] = "none"
    /\ at \in Filling => volume[kind]

(* Of the kind k these are the names that the handler has yet to delete or *)
(* to upload.                                                              *)
ToDelete(k) ==
    IF k # kind THEN IF k = "template" THEN Name ELSE {}
    ELSE IF at = "list" THEN Name
    ELSE IF op = "delete" \/ Dropping
         THEN IF at = "lun" THEN todo \cup {name} ELSE todo
         ELSE {}

ToUpload(k) ==
    IF k # kind THEN IF k = "template" THEN Name ELSE {}
    ELSE IF at = "relist" \/ Dropping THEN Name
    ELSE IF at = "next" THEN todo
    ELSE todo \cup {name}

(* What it has done already, of both kinds.                                *)
DoneInv ==
    /\ op = "delete" =>
          \A k \in Kind : \A n \in Name \ ToDelete(k) :
              old[k][n] # Unlisted => store[k][n] = "none"
    /\ op = "update" =>
          \A k \in Kind : \A n \in Dropped(k) \ ToDelete(k) : store[k][n] = "none"
    /\ op \in {"create", "update"} =>
          \A k \in Kind : \A n \in Uploads(k) \ ToUpload(k) : Has(k, n, new[k][n])
    /\ at = "convert" => file[name] \in Source(new[kind][name])

(* ... and what was there before and has kept its location still is.       *)
KeptInv ==
    op \in {"idle", "update"} /\ present /\ ~reported =>
        \A k \in Kind, n \in Name :
            old[k][n] \in Location /\ new[k][n] = old[k][n] => Has(k, n, old[k][n])

RepoInv == TypeOK /\ RunInv /\ WorkInv /\ VolumeInv /\ DoneInv /\ KeptInv

=============================================================================

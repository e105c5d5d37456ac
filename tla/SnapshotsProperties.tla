------------------------ MODULE SnapshotsProperties -------------------------
(***************************************************************************)
(* What an apply may rely on when snapshots have been updated.             *)
(***************************************************************************)
EXTENDS Snapshots

(* A snapshot with fsfreeze is taken while every file system is frozen, as *)
(* long as the array answers within the script's pause ("Ensures fsfreeze  *)
(* for every filesystem", docs/resources/server.md:192): the poll, the     *)
(* pause and the request run against each other (createSnapshot).          *)
TakenWhileFrozen ==
    Latency < Window - 1 => \A n \in Freeze : taken[n] # "plain"

(* When createSnapshot has returned over a connection that held, nothing   *)
(* on the server is frozen any more, whatever failed in between.           *)
ThawedOnReturn == pc \notin Freezing /\ connected => frozen = {}

(* The server never stays frozen unless the connection breaks.             *)
EventuallyThawed == frozen # {} ~> frozen = {} \/ ~connected

(* Every apply ends: the polls are bounded, and the script ends by itself. *)
EveryApplyEnds == pc # "idle" ~> pc = "idle"

ApplySucceeds == pc # "idle" /\ pc' = "idle" /\ result' = "ok"

(* An apply that succeeds has created the snapshots added without fsfreeze *)
(* and has removed those that were dropped, also after earlier applies     *)
(* that failed half-way (resourceUpdateServerSnapshot).                    *)
Reconciled ==
    [][ApplySucceeds =>
          /\ \A n \in (new \ old) \ Freeze : taken[n] # "none"
          /\ \A n \in old \ new : taken[n] = "none"]_vars

(* Only snapshots that the configuration has dropped are destroyed: those  *)
(* of auto_snapshot_on_update, which restore looks for, never are.         *)
OthersKept ==
    [][\A n \in Name :
          taken[n] # "none" /\ taken'[n] = "none" => n \in old \ new]_vars

-----------------------------------------------------------------------------
(* Why: the inductive invariant.                                           *)

(* What is frozen at each step of the script.                              *)
ScriptInv ==
    /\ script \in {"off", "sync"} => frozen = {}
    /\ script = "freeze" =>
          frozen = {k \in FS : k # Root /\ (at = Root \/ k < at)}
    /\ script = "window" => frozen = FS
    /\ script = "thaw" => \A k \in frozen : k >= at
    /\ script = "exited" /\ connected => frozen = {}

(* The handler is in createSnapshot as long as the script runs and the     *)
(* connection holds.                                                       *)
HandlerInv ==
    /\ pc \notin Freezing => ~connected \/ script \in {"off", "exited"}
    /\ pc \in Freezing => script # "off"
    /\ output => script \in {"window", "thaw", "exited"}
    /\ pc \in {"exists", "start"} \cup Freezing => name \in Freeze
    /\ pc = "sleep" => polls < Polls
    /\ pc = "delete" => todo \subseteq old

(* The time that is left of the window when the handler has seen it begin. *)
TimeInv ==
    /\ pc = "sleep" /\ output => script = "window" /\ left = Window
    /\ pc = "poll" /\ output => script = "window" /\ left >= Window - 1
    /\ pc = "request" => script = "window" /\ left >= Window - 1 - waited

SnapshotsInv ==
    TypeOK /\ ScriptInv /\ HandlerInv /\ TakenWhileFrozen
        /\ (Latency < Window - 1 => TimeInv)

(* What the loops of the apply have come to.  What was listed but did not  *)
(* belong to the configuration before is not deleted.                      *)
LoopInv ==
    /\ pc = "delete" =>
          /\ \A n \in Name \ listed : taken[n] = "none"
          /\ \A n \in (old \ new) \ todo : taken[n] = "none"
    /\ pc \in {"create", "exists", "start"} \cup Freezing =>
          /\ todo \subseteq new
          /\ \A n \in old \ new : taken[n] = "none"
          /\ \A n \in ((new \ old) \ Freeze) \ todo : taken[n] # "none"
    /\ pc \notin {"idle", "list"} => \A n \in listed \ old : taken[n] # "none"
    /\ pc \in {"exists", "start"} \cup Freezing => name \in new

-----------------------------------------------------------------------------
(* What the code does not do.                                              *)

(* An apply that succeeds has taken every snapshot that was added.  The    *)
(* code does not keep this for fsfreeze ("fsfreeze did not complete,       *)
(* snapshot is not created", common.go:308, is only reported if the script *)
(* fails too).                                                             *)
AddedIsTaken == [][ApplySucceeds => \A n \in new \ old : taken[n] # "none"]_vars

=============================================================================

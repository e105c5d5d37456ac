--------------------------- MODULE UpdateManager ---------------------------
(***************************************************************************)
(* The UpdateManager of pkg/config/config.go: the mutex and the last error *)
(* that the resource instances of one provider process share.  Terraform   *)
(* runs one goroutine per resource instance, so every operator here is     *)
(* called by many nodes at once.                                           *)
(*                                                                         *)
(* The mutex only exists for its users when the provider was configured    *)
(* with synchronized_updates = true (default: false); otherwise the three  *)
(* calls do nothing.                                                       *)
(***************************************************************************)

CONSTANTS
    Node,           \* the resource instances updated by this process
    NoNode,         \* "the mutex is free"
    Synchronized    \* provider attribute synchronized_updates

ASSUME NoNodeAssumption == NoNode \notin Node
ASSUME SynchronizedAssumption == Synchronized \in BOOLEAN

VARIABLES
    Sync,           \* the node whose goroutine holds the mutex, or NoNode
    LastError       \* TRUE once a non-nil error has been stored

lock == <<Sync, LastError>>

LockTypeOK ==
    /\ Sync \in Node \cup {NoNode}
    /\ LastError \in BOOLEAN

LockInit ==
    /\ Sync = NoNode
    /\ LastError = FALSE

-----------------------------------------------------------------------------
(* UpdateManagerAcquire locks the mutex and returns LastError.  A caller   *)
(* that gets an error returns at once and its deferred Release unlocks, so *)
(* a refused caller leaves the mutex free: the two operators below are the *)
(* two outcomes of one call.                                               *)

CanAcquire == Synchronized => Sync = NoNode

(* An operator named ...Bug is not part of the model: it is the definition *)
(* after it with a plausible fault, which some property has to notice.     *)

(* Does not look at the last error.                                        *)
AcquireGrantedBug(n) ==
    /\ CanAcquire
    /\ Sync' = IF Synchronized THEN n ELSE Sync
    /\ UNCHANGED LastError

AcquireGranted(n) ==
    /\ CanAcquire
    /\ Synchronized => ~LastError
    /\ Sync' = IF Synchronized THEN n ELSE Sync
    /\ UNCHANGED LastError

AcquireRefused ==
    /\ CanAcquire
    /\ Synchronized /\ LastError
    /\ UNCHANGED lock

(* UpdateManagerSetError is a plain store: nothing makes the caller hold   *)
(* the mutex.  Every caller stores a non-nil error and nothing stores nil, *)
(* so whichever of two racing stores survives, the value is an error.      *)

(* Only reports the error to its own caller.                               *)
ErrorAfterSetBug == LastError

ErrorAfterSet == LastError \/ Synchronized

(* UpdateManagerRelease unlocks.  It is deferred only by handlers that     *)
(* have called Acquire, so when it runs the caller is the holder.          *)

(* Forgets to unlock.                                                      *)
HolderAfterReleaseBug(n) == Sync

HolderAfterRelease(n) == IF Sync = n THEN NoNode ELSE Sync

=============================================================================

----------------------------- MODULE Snapshots ------------------------------
(***************************************************************************)
(* The snapshots of one server: resourceUpdateServerSnapshot brings the    *)
(* volume in line with the configuration, one apply after the other, and   *)
(* createSnapshot takes a snapshot while a script on the server keeps the  *)
(* file systems frozen.                                                    *)
(*                                                                         *)
(* Handler, script and array run side by side.  Time passes in ticks, the  *)
(* pauses of the loop that polls for the script's output.                  *)
(***************************************************************************)
EXTENDS Integers

CONSTANTS
    Name,       \* the names a snapshot can have
    Freeze,     \* those configured with fsfreeze = true
    Volumes,    \* the number of file systems that are frozen before "/"
    Polls,      \* how often the output is looked at: 30 in the code
    Window,     \* ticks of the script's "sleep 5": 10 in the code
    Latency     \* ticks the array takes at most to take a snapshot

ASSUME FreezeAssumption == Freeze \subseteq Name
ASSUME VolumesAssumption == Volumes \in Nat
ASSUME PollsAssumption == Polls \in Nat \ {0}
ASSUME WindowAssumption == Window \in Nat \ {0}
ASSUME LatencyAssumption == Latency \in Nat

VARIABLES
    \* the array
    taken,      \* by name: none, plain or frozen (with all file systems)
    \* terraform
    old,        \* the names in its state
    new,        \* the names in the configuration that is applied
    \* the handler
    pc,
    listed,     \* the snapshots that GetSnapshots has returned
    todo,       \* the names the loop has not come to yet
    name,       \* the name createSnapshot is called for
    polls,      \* how often the output has been looked at
    waited,     \* ticks since the request to the array
    result,     \* of the last apply: ok or error
    \* the server
    script,     \* off, sync, freeze, window, thaw or exited
    at,         \* the file system the script freezes or thaws next
    frozen,     \* the file systems that are frozen
    output,     \* the handler has received the word "frozen"
    left,       \* ticks of the window that are left
    status,     \* the status of the script's last command is 0
    connected   \* the SSH connection

terraform == <<old, new>>
handler   == <<pc, listed, todo, name, polls, waited, result>>
server    == <<script, at, frozen, output, left, status, connected>>
vars      == <<taken, terraform, handler, server>>

FS   == 0 .. Volumes        \* 0 is "/", frozen last and thawed first
Root == 0

Freezing == {"poll", "sleep", "request", "wait"}    \* within createSnapshot

TypeOK ==
    /\ taken \in [Name -> {"none", "plain", "frozen"}]
    /\ old \subseteq Name /\ new \subseteq Name
    /\ pc \in {"idle", "list", "delete", "create", "exists", "start"} \cup Freezing
    /\ listed \subseteq Name /\ todo \subseteq Name /\ name \in Name
    /\ polls \in 0 .. Polls /\ waited \in 0 .. Latency
    /\ result \in {"ok", "error"}
    /\ script \in {"off", "sync", "freeze", "window", "thaw", "exited"}
    /\ at \in FS /\ frozen \subseteq FS
    /\ output \in BOOLEAN /\ status \in BOOLEAN /\ connected \in BOOLEAN
    /\ left \in 0 .. Window

(* The volume holds snapshots of the provider's own making, or none.       *)
Init ==
    /\ taken \in [Name -> {"none", "plain"}]
    /\ \A n \in Freeze : taken[n] = "none"
    /\ old = {} /\ new = {}
    /\ pc = "idle" /\ listed = {} /\ todo = {} /\ name \in Name
    /\ polls = 0 /\ waited = 0 /\ result = "ok"
    /\ script = "off" /\ at = Root /\ frozen = {}
    /\ output = FALSE /\ left = 0 /\ status = TRUE /\ connected = TRUE

-----------------------------------------------------------------------------
(* The handler.                                                            *)

Goto(p) == pc' = p

(* An error leaves terraform's state as it was: d.Partial(true).           *)
ReturnError ==
    /\ Goto("idle") /\ result' = "error"
    /\ UNCHANGED <<terraform, listed, todo, name, polls, waited>>

Apply ==
    /\ pc = "idle"
    /\ new' \in (SUBSET Name) \ {old}
    /\ Goto("list")
    /\ UNCHANGED <<taken, old, listed, todo, name, polls, waited, result, server>>

Unchanged == old \cap new       \* snapStateInter

GetSnapshots ==
    /\ pc = "list"
    /\ \/ /\ listed' = {n \in Name : taken[n] # "none"}
          /\ todo' = old
          /\ Goto("delete")
          /\ UNCHANGED <<terraform, name, polls, waited, result>>
       \/ ReturnError
    /\ UNCHANGED <<taken, server>>

(* The loops leave a name out, or do it.                                   *)
Skip(n) ==
    /\ todo' = todo \ {n}
    /\ UNCHANGED <<taken, terraform, pc, listed, name, polls, waited, result>>

(* A request that makes t of snapshot n: if it fails, before or after its  *)
(* effect, the handler returns the error.                                  *)
Request(n, t) ==
    \/ /\ taken' = [taken EXCEPT ![n] = t]
       /\ todo' = todo \ {n}
       /\ UNCHANGED <<terraform, pc, listed, name, polls, waited, result>>
    \/ /\ taken' \in {taken, [taken EXCEPT ![n] = t]}
       /\ ReturnError

(* An operator named ...Bug is not part of the model: it is the definition *)
(* after it with a plausible fault, which some property has to notice.     *)

(* Deletes every snapshot that is on the volume.                           *)
DeleteBug(n) ==
    /\ pc = "delete" /\ n \in todo
    /\ IF n \in listed THEN Request(n, "none") ELSE Skip(n)
    /\ UNCHANGED server

Delete(n) ==
    /\ pc = "delete" /\ n \in todo
    /\ IF n \in listed /\ n \notin Unchanged THEN Request(n, "none") ELSE Skip(n)
    /\ UNCHANGED server

Deleted ==
    /\ pc = "delete" /\ todo = {}
    /\ todo' = new
    /\ Goto("create")
    /\ UNCHANGED <<taken, terraform, listed, name, polls, waited, result, server>>

Wanted(n) == n \notin listed /\ n \notin Unchanged

(* Goes on after an error.                                                 *)
CreateBug(n) ==
    /\ pc = "create" /\ n \in todo \ Freeze
    /\ Skip(n) \/ (Wanted(n) /\ Request(n, "plain"))
    /\ UNCHANGED server

Create(n) ==
    /\ pc = "create" /\ n \in todo \ Freeze
    /\ IF Wanted(n) THEN Request(n, "plain") ELSE Skip(n)
    /\ UNCHANGED server

CreateFrozen(n) ==
    /\ pc = "create" /\ n \in todo \cap Freeze
    /\ IF Wanted(n)
       THEN /\ name' = n /\ todo' = todo \ {n}
            /\ Goto("exists")
            /\ UNCHANGED <<taken, terraform, listed, polls, waited, result>>
       ELSE Skip(n)
    /\ UNCHANGED server

Created ==
    /\ pc = "create" /\ todo = {}
    /\ old' = new /\ result' = "ok"
    /\ Goto("idle")
    /\ UNCHANGED <<taken, new, listed, todo, name, polls, waited, server>>

-----------------------------------------------------------------------------
(* createSnapshot                                                          *)

(* A snapshot of that name is taken for the one that is wanted.            *)
SnapshotExists ==
    /\ pc = "exists"
    /\ \/ /\ Goto(IF taken[name] # "none" THEN "create" ELSE "start")
          /\ UNCHANGED <<terraform, listed, todo, name, polls, waited, result>>
       \/ ReturnError
    /\ UNCHANGED <<taken, server>>

(* Log in, list the mounts, start the script.  A server that an earlier    *)
(* script keeps frozen, or that still runs it, does not get that far.      *)
StartScript ==
    /\ pc = "start"
    /\ \/ /\ script \in {"off", "exited"} /\ frozen = {}
          /\ Goto("poll") /\ polls' = 0
          /\ script' = "sync" /\ output' = FALSE /\ status' = TRUE /\ connected' = TRUE
          /\ UNCHANGED <<terraform, listed, todo, name, waited, result, at, frozen, left>>
       \/ ReturnError /\ UNCHANGED server
    /\ UNCHANGED taken

(* Looks once too often.                                                   *)
PollOnceMoreBug ==
    /\ pc = "poll"
    /\ Goto(IF output THEN "request" ELSE IF polls > Polls THEN "wait" ELSE "sleep")
    /\ waited' = 0
    /\ UNCHANGED <<taken, terraform, listed, todo, name, polls, result, server>>

(* Waits until there is output.                                            *)
PollBug ==
    /\ pc = "poll"
    /\ Goto(IF output THEN "request" ELSE "sleep")
    /\ polls' = polls % Polls
    /\ waited' = 0
    /\ UNCHANGED <<taken, terraform, listed, todo, name, result, server>>

Poll ==
    /\ pc = "poll"
    /\ Goto(IF output THEN "request" ELSE IF polls = Polls THEN "wait" ELSE "sleep")
    /\ waited' = 0
    /\ UNCHANGED <<taken, terraform, listed, todo, name, polls, result, server>>

(* The array takes the snapshot or does not.  Either way the outcome goes  *)
(* into errs, which is only reported if the script fails as well.          *)
CreateSnapshot ==
    /\ pc = "request"
    /\ taken' \in {taken, [taken EXCEPT ![name] = IF frozen = FS THEN "frozen" ELSE "plain"]}
    /\ Goto("wait")
    /\ UNCHANGED <<terraform, listed, todo, name, polls, waited, result, server>>

(* Returns without waiting for the script.                                 *)
WaitBug ==
    /\ pc = "wait"
    /\ Goto("create")
    /\ UNCHANGED <<taken, terraform, listed, todo, name, polls, waited, result, server>>

Wait ==
    /\ pc = "wait"
    /\ \/ /\ connected /\ script = "exited" /\ status
          /\ Goto("create")
          /\ UNCHANGED <<terraform, listed, todo, name, polls, waited, result>>
       \/ /\ ~connected \/ (script = "exited" /\ ~status)
          /\ ReturnError
    /\ UNCHANGED <<taken, server>>

-----------------------------------------------------------------------------
(* The script:                                                             *)
(*   sync && sleep 5 && sync && fsfreeze -f fs && ... && fsfreeze -f / &&  *)
(*   (echo -n frozen && sleep 5); fsfreeze -u /; fsfreeze -u fs; ...       *)

Script(s, a) ==
    /\ script' = s /\ at' = a
    /\ UNCHANGED <<taken, terraform, handler, connected>>

Sync ==
    /\ script = "sync"
    /\ Script("freeze", IF Volumes = 0 THEN Root ELSE 1)
    /\ UNCHANGED <<frozen, output, left, status>>

(* Neither is the script run if sudo refuses, nor are the file systems     *)
(* frozen if a sync fails.                                                 *)
SyncFails ==
    /\ script = "sync"
    /\ \/ Script("exited", at) /\ status' = FALSE
       \/ Script("thaw", Root) /\ UNCHANGED status
    /\ UNCHANGED <<frozen, output, left>>

FreezeNext ==
    /\ script = "freeze" /\ at # Root
    /\ frozen' = frozen \cup {at}
    /\ Script("freeze", IF at = Volumes THEN Root ELSE at + 1)
    /\ UNCHANGED <<output, left, status>>

(* Freezes "/" after it has told the handler to go ahead.                  *)
FreezeRootBug ==
    /\ script = "freeze" /\ at = Root
    /\ output' = connected /\ left' = Window
    /\ UNCHANGED <<frozen, status>>
    /\ Script("window", Root)

(* The output of a server that has lost its connection cannot be written:  *)
(* the shell may die of it, with everything frozen.                        *)
FreezeRoot ==
    /\ script = "freeze" /\ at = Root
    /\ frozen' = frozen \cup {Root}
    /\ output' = connected
    /\ \/ Script("window", Root) /\ left' = Window /\ UNCHANGED status
       \/ ~connected /\ Script("exited", Root) /\ status' = FALSE /\ UNCHANGED left

FreezeFails ==
    /\ script = "freeze"
    /\ Script("thaw", Root)
    /\ UNCHANGED <<frozen, output, left, status>>

WindowEnds ==
    /\ script = "window" /\ left = 0
    /\ Script("thaw", Root)
    /\ UNCHANGED <<frozen, output, left, status>>

(* Does not know of "/".                                                   *)
ThawBug ==
    /\ script = "thaw"
    /\ frozen' = (frozen \ {at}) \cup (frozen \cap {Root})
    /\ status' = (at \in frozen)
    /\ IF at = Volumes THEN Script("exited", at) ELSE Script("thaw", at + 1)
    /\ UNCHANGED <<output, left>>

(* Thawing what is not frozen is an error; the last command's counts.      *)
Thaw ==
    /\ script = "thaw"
    /\ frozen' = frozen \ {at}
    /\ status' = (at \in frozen)
    /\ IF at = Volumes THEN Script("exited", at) ELSE Script("thaw", at + 1)
    /\ UNCHANGED <<output, left>>

ScriptStep ==
    Sync \/ SyncFails \/ FreezeNext \/ FreezeRoot \/ FreezeFails \/ WindowEnds \/ Thaw

ConnectionLost ==
    /\ pc \in Freezing /\ connected
    /\ connected' = FALSE
    /\ UNCHANGED <<taken, terraform, handler, script, at, frozen, output, left, status>>

(* Half a second passes while the handler waits for something.             *)
Tick ==
    /\ \/ /\ pc = "sleep"
          /\ Goto("poll") /\ polls' = polls + 1 /\ UNCHANGED waited
       \/ /\ pc = "request" /\ waited < Latency
          /\ waited' = waited + 1 /\ UNCHANGED <<pc, polls>>
       \/ /\ pc \notin {"sleep", "poll", "request"}
          /\ left > 0
          /\ UNCHANGED <<pc, polls, waited>>
    /\ left' = IF left > 0 THEN left - 1 ELSE 0
    /\ UNCHANGED <<taken, terraform, listed, todo, name, result>>
    /\ UNCHANGED <<script, at, frozen, output, status, connected>>

HandlerStep ==
    \/ GetSnapshots \/ Deleted \/ Created
    \/ \E n \in Name : Delete(n) \/ Create(n) \/ CreateFrozen(n)
    \/ SnapshotExists \/ StartScript \/ Poll \/ CreateSnapshot \/ Wait

Next == Apply \/ HandlerStep \/ ScriptStep \/ ConnectionLost \/ Tick

Spec == Init /\ [][Next]_vars

(* Handler, script and time go on; nobody has to apply, and connections    *)
(* need not be lost.                                                       *)
FairSpec == Spec /\ WF_vars(HandlerStep) /\ WF_vars(ScriptStep) /\ WF_vars(Tick)

=============================================================================

-------------------------- MODULE ServerLifecycle --------------------------
(***************************************************************************)
(* How servers, harvester nodes and ESX hosts come and go: create, read    *)
(* and delete of flexbot/resource_flexbot_server.go, _harvester_node.go    *)
(* and _esx_host.go over what pkg/ucsm, pkg/ipam and pkg/ontap do for      *)
(* them, one terraform run after the other.  "Server" is any of the three. *)
(*                                                                         *)
(* A run refreshes every server in the state, and if no refresh fails, it  *)
(* applies the configuration: all servers at once in both halves, each     *)
(* half in a provider process of its own.  Every remote call may fail,     *)
(* before or after its effect.                                             *)
(***************************************************************************)
EXTENDS Naturals

CONSTANTS
    Server,
    Kinds,              \* of resources: server, harvester, esx
    Blade, NoBlade,
    Tries,              \* assignTryMax: 5 in the code
    Interfaces,         \* interfaces with a host record; 0: ipam provider "Internal"
    Configs, Absent,    \* the configurations of a server; not (to be) there
    NoAddress

ASSUME KindsAssumption == Kinds \subseteq {"server", "harvester", "esx"}
ASSUME NoBladeAssumption == NoBlade \notin Blade
ASSUME TriesAssumption == Tries \in Nat \ {0}
ASSUME InterfacesAssumption == Interfaces \in Nat
ASSUME ConfigsAssumption ==
    /\ Absent \notin Configs
    /\ \A c \in Configs : DOMAIN c = {"template", "subnet", "static", "safe"}
    /\ \A c \in Configs : c.static \in BOOLEAN /\ c.safe \in BOOLEAN /\ c.subnet # NoAddress

Interface == 1 .. Interfaces
Subnet    == {c.subnet : c \in Configs}     \* stands for an address in it
Template  == {c.template : c \in Configs}

VARIABLES
    kind,       \* of every server
    \* UCS
    profile,    \* none, bare (not configured to boot) or ready
    template,   \* the template the profile was made from
    blade,      \* assigned to the profile
    power,
    \* the array: none, whole (the LUNs that the handlers promise at this
    \* stage exist, see BootStorage) or part (anything else)
    storage,
    \* the address manager, by interface: where the host record's address is from
    record,
    \* terraform
    conf,       \* the state: configuration by server
    tainted,    \* servers in the state that have to be replaced
    want,       \* the configuration that is applied
    run,        \* idle, refresh or apply
    todo,       \* the servers whose turn in this half has not come
    stopped,    \* a refresh has failed
    \* the provider process
    cache,      \* FlexbotConfig.NodeConfig, by host name
    ip,         \* the addresses in it
    \* the handlers
    pc,
    next,       \* the interface that is allocated or released next
    pick,       \* the blade AssignBlade has chosen
    tries,      \* how many it has failed to assign
    back,       \* where its caller goes on
    diag,       \* resourceDeleteServer has collected an error
    \* history
    fault,      \* some request has failed in this run
    reported    \* by server: an error has been reported since it was created or deleted

ucs      == <<profile, template, blade, power>>
world    == <<ucs, storage, record>>
state    == <<conf, tainted>>
process  == <<cache, ip>>
assign   == <<pick, tries, back>>
locals   == <<next, assign, diag>>
control  == <<want, run, todo, stopped>>
history  == <<fault, reported>>
vars     == <<kind, world, state, control, process, pc, locals, history>>

Label ==
    { "idle",
      "read_server", "read_storage", "read_records",
      "pick", "bind", "assign_failed",
      "create_discover", "create_exists", "create_preflight", "create_allocate",
      "create_boot", "create_profile", "create_configure", "create_seed",
      "create_undo", "undo_profile", "undo_records",
      "create_id", "create_start", "create_stage", "create_halt",
      "create_remap", "create_restart", "create_rest",
      "delete_check", "delete_node", "delete_stop", "delete_force",
      "delete_profile", "delete_storage", "delete_records" }

Address == Subnet \cup {NoAddress}

TypeOK ==
    /\ kind \in [Server -> Kinds]
    /\ profile \in [Server -> {"none", "bare", "ready"}]
    /\ template \in [Server -> Template \cup {Absent}]
    /\ blade \in [Server -> Blade \cup {NoBlade}]
    /\ power \in [Server -> {"up", "down"}]
    /\ storage \in [Server -> {"none", "part", "whole"}]
    /\ record \in [Server -> [Interface -> Address]]
    /\ conf \in [Server -> Configs \cup {Absent}]
    /\ tainted \subseteq Server
    /\ want \in [Server -> Configs \cup {Absent}]
    /\ run \in {"idle", "refresh", "apply"}
    /\ todo \subseteq Server
    /\ stopped \in BOOLEAN
    /\ cache \in [Server -> Configs \cup {Absent}]
    /\ ip \in [Server -> [Interface -> Address]]
    /\ pc \in [Server -> Label]
    /\ next \in [Server -> 1 .. Interfaces + 1]
    /\ pick \in [Server -> Blade \cup {NoBlade}]
    /\ tries \in [Server -> 0 .. Tries]
    /\ back \in [Server -> {"idle", "read_storage", "create_exists", "create_seed", "create_id"}]
    /\ diag \in [Server -> BOOLEAN]
    /\ fault \in BOOLEAN
    /\ reported \in [Server -> BOOLEAN]

NoAddresses == [i \in Interface |-> NoAddress]

Init ==
    /\ kind \in [Server -> Kinds]
    /\ profile = [s \in Server |-> "none"]
    /\ template = [s \in Server |-> Absent]
    /\ blade = [s \in Server |-> NoBlade]
    /\ power = [s \in Server |-> "down"]
    /\ storage = [s \in Server |-> "none"]
    /\ record = [s \in Server |-> NoAddresses]
    /\ conf = [s \in Server |-> Absent]
    /\ tainted = {}
    /\ want = [s \in Server |-> Absent]
    /\ run = "idle" /\ todo = {} /\ stopped = FALSE
    /\ cache = [s \in Server |-> Absent]
    /\ ip = [s \in Server |-> NoAddresses]
    /\ pc = [s \in Server |-> "idle"]
    /\ next = [s \in Server |-> 1]
    /\ pick = [s \in Server |-> NoBlade]
    /\ tries = [s \in Server |-> 0]
    /\ back = [s \in Server |-> "idle"]
    /\ diag = [s \in Server |-> FALSE]
    /\ fault = FALSE
    /\ reported = [s \in Server |-> FALSE]

-----------------------------------------------------------------------------
InState(s) == conf[s] # Absent

Goto(s, p) == pc' = [pc EXCEPT ![s] = p]

(* The handler goes on with p; its last call has succeeded or has failed.  *)
Continue(s, p) == Goto(s, p) /\ UNCHANGED <<state, stopped, history>>
GoOnFailed(s, p) ==
    Goto(s, p) /\ fault' = TRUE /\ UNCHANGED <<state, stopped, reported>>

(* An error of create taints what is in the state, one of delete does not. *)
ReturnError(s, failed) ==
    /\ Goto(s, "idle")
    /\ fault' = (fault \/ failed)
    /\ reported' = [reported EXCEPT ![s] = TRUE]
    /\ UNCHANGED <<conf, stopped>>

CreateError(s, failed) ==
    /\ ReturnError(s, failed)
    /\ tainted' = IF InState(s) THEN tainted \cup {s} ELSE tainted

DeleteError(s, failed) == ReturnError(s, failed) /\ UNCHANGED tainted

ReadError(s, failed) ==
    /\ Goto(s, "idle")
    /\ fault' = (fault \/ failed)
    /\ stopped' = TRUE
    /\ UNCHANGED <<state, reported>>

(* What a request that fails may have made of f[s]: nothing, or v.         *)
Attempted(f, s, v) == {f, [f EXCEPT ![s] = v]}

(* setFlexbotServerInput, -HarvesterNodeInput and -EsxHostInput: the first *)
(* handler that is called for a server in a provider process decides what  *)
(* its configuration is.                                                   *)
SetServerInput(s, c) ==
    IF cache[s] = Absent
    THEN /\ cache' = [cache EXCEPT ![s] = c]
         /\ ip' = [ip EXCEPT ![s] = [i \in Interface |->
                      IF c.static THEN c.subnet ELSE NoAddress]]
    ELSE UNCHANGED process

NoHandler == \A s \in Server : pc[s] = "idle"

-----------------------------------------------------------------------------
(* AssignBlade: a random one of those that are available, several times.   *)
(* DiscoverServer calls it too if the profile has no blade.                *)

Available == Blade \ {blade[s] : s \in Server}

StartAssign(s, p) == back' = [back EXCEPT ![s] = p] /\ UNCHANGED <<next, pick, tries, diag>>

EndAssign(s) ==
    /\ back' = [back EXCEPT ![s] = "idle"]
    /\ tries' = [tries EXCEPT ![s] = 0]

Pick(s) ==
    /\ pc[s] = "pick"
    /\ \/ /\ \E b \in Available : pick' = [pick EXCEPT ![s] = b]
          /\ Continue(s, "bind")
       \/ Available = {} /\ UNCHANGED pick /\ Continue(s, "assign_failed")
       \/ UNCHANGED pick /\ GoOnFailed(s, "assign_failed")
    /\ UNCHANGED <<world, process, next, tries, back, diag>>

AfterTryEarly(s) == IF tries[s] + 2 >= Tries THEN "assign_failed" ELSE "pick"
AfterTryLate(s) == IF tries[s] = Tries THEN "assign_failed" ELSE "pick"

AfterTry(s) == IF tries[s] + 1 = Tries THEN "assign_failed" ELSE "pick"

Bound(s) ==
    /\ pick[s] \in Available
    /\ blade' = [blade EXCEPT ![s] = pick[s]]
    /\ EndAssign(s)
    /\ Continue(s, back[s])

(* The blade may have been taken since it was picked: UCS then refuses.    *)
BindRefused(s) ==
    /\ pick[s] \notin Available
    /\ tries' = [tries EXCEPT ![s] = @ + 1]
    /\ Continue(s, AfterTry(s))
    /\ UNCHANGED <<blade, back>>

BindFailedBug(s) ==
    /\ blade' \in {blade} \cup {[blade EXCEPT ![s] = b] : b \in {pick[s]} \cap Available}
    /\ UNCHANGED <<tries, back>> /\ GoOnFailed(s, "pick")

(* The request fails, or the association that follows it does; only what   *)
(* is not an error of the wait for it is tried again.                      *)
BindFailed(s) ==
    /\ blade' \in {blade} \cup {[blade EXCEPT ![s] = b] : b \in {pick[s]} \cap Available}
    /\ \/ tries' = [tries EXCEPT ![s] = @ + 1] /\ GoOnFailed(s, AfterTry(s))
       \/ UNCHANGED tries /\ GoOnFailed(s, "assign_failed")
    /\ UNCHANGED back

Bind(s) ==
    /\ pc[s] = "bind"
    /\ Bound(s) \/ BindRefused(s) \/ BindFailed(s)
    /\ pick' = [pick EXCEPT ![s] = NoBlade]
    /\ UNCHANGED <<profile, template, power, storage, record, process, next, diag>>

AssignFailed(s) ==
    /\ pc[s] = "assign_failed"
    /\ \/ back[s] = "read_storage" /\ ReadError(s, FALSE)
       \/ back[s] \in {"create_seed", "create_id"} /\ Continue(s, "create_undo")
       \/ back[s] = "create_exists" /\ CreateError(s, FALSE)
    /\ EndAssign(s)
    /\ UNCHANGED <<world, process, next, pick, diag>>

AssignBlade(s) == Pick(s) \/ Bind(s) \/ AssignFailed(s)

-----------------------------------------------------------------------------
(* resourceReadServer, -HarvesterNode and -EsxHost: a server without its   *)
(* profile or without its storage is dropped from the state.               *)

ReadServer(s) ==
    /\ pc[s] = "read_server"
    /\ SetServerInput(s, conf[s])
    /\ \/ profile[s] = "bare" /\ ReadError(s, FALSE) /\ UNCHANGED locals
       \/ ReadError(s, TRUE) /\ UNCHANGED locals
       \/ /\ profile[s] = "ready" /\ blade[s] = NoBlade
          /\ StartAssign(s, "read_storage") /\ Continue(s, "pick")
       \/ /\ profile[s] = "none" \/ (profile[s] = "ready" /\ blade[s] # NoBlade)
          /\ Continue(s, "read_storage") /\ UNCHANGED locals
    /\ UNCHANGED world

Drop(s) ==
    /\ conf' = [conf EXCEPT ![s] = Absent]
    /\ tainted' = tainted \ {s}
    /\ Goto(s, "idle")
    /\ UNCHANGED <<stopped, history>>

(* Discover asks for boot and seed LUN of a server, for the boot LUN alone *)
(* of the others.                                                          *)
MayBeFound(s) ==
    storage[s] = "whole" \/ (kind[s] # "server" /\ storage[s] = "part")

ReadStorage(s) ==
    /\ pc[s] = "read_storage"
    /\ \/ profile[s] # "none" /\ MayBeFound(s) /\ Continue(s, "read_records")
       \/ (profile[s] = "none" \/ storage[s] # "whole") /\ Drop(s)
       \/ ReadError(s, TRUE)
    /\ UNCHANGED <<world, process, locals>>

(* ipam Discover, and DiscoverNode of the cluster for a server.            *)
ReadRecords(s) ==
    /\ pc[s] = "read_records"
    /\ LET found == \A i \in Interface : record[s][i] # NoAddress
       IN  \/ found /\ Continue(s, "idle") /\ ip' = [ip EXCEPT ![s] = record[s]]
           \/ ~found /\ ReadError(s, FALSE) /\ UNCHANGED ip
           \/ ReadError(s, TRUE) /\ UNCHANGED ip
    /\ UNCHANGED <<world, cache, locals>>

Read(s) == ReadServer(s) \/ ReadStorage(s) \/ ReadRecords(s)

-----------------------------------------------------------------------------
(* resourceCreateServer, -HarvesterNode and -EsxHost                       *)

CreateDiscover(s) ==
    /\ pc[s] = "create_discover"
    /\ SetServerInput(s, want[s])
    /\ \/ /\ profile[s] = "none"
          /\ Continue(s, "create_preflight") /\ UNCHANGED locals
       \/ /\ profile[s] = "ready" /\ blade[s] = NoBlade
          /\ StartAssign(s, "create_exists") /\ Continue(s, "pick")
       \/ /\ profile[s] = "ready" /\ blade[s] # NoBlade
          /\ Continue(s, "create_exists") /\ UNCHANGED locals
       \/ profile[s] = "bare" /\ CreateError(s, FALSE) /\ UNCHANGED locals
       \/ CreateError(s, TRUE) /\ UNCHANGED locals
    /\ UNCHANGED world

CreateExistsBug(s) ==
    /\ pc[s] = "create_exists"
    /\ Continue(s, "create_preflight")
    /\ UNCHANGED <<world, process, locals>>

CreateExists(s) ==
    /\ pc[s] = "create_exists"
    /\ CreateError(s, FALSE)
    /\ UNCHANGED <<world, process, locals>>

(* The preflights, whose errors are collected; they only ask.              *)
CreatePreflight(s) ==
    /\ pc[s] = "create_preflight"
    /\ \/ Available # {} /\ Continue(s, "create_allocate")
       \/ Available = {} /\ CreateError(s, FALSE)
       \/ CreateError(s, TRUE)
    /\ next' = [next EXCEPT ![s] = 1]
    /\ UNCHANGED <<world, process, assign, diag>>

(* Allocate: AssignIp for an address that is known, else AllocateIp.  The  *)
(* address manager refuses a second record of the same name.               *)
AllocateIp(s) ==
    LET i == next[s]
        known == ip[s][i] # NoAddress
        address == IF known THEN ip[s][i] ELSE cache[s].subnet
        registered == [record EXCEPT ![s][i] = address]
    IN  \/ /\ record[s][i] = NoAddress \/ (known /\ record[s][i] = address)
           /\ record' = registered
           /\ ip' = [ip EXCEPT ![s][i] = address]
           /\ next' = [next EXCEPT ![s] = i + 1]
           /\ Continue(s, "create_allocate")
        \/ /\ record[s][i] # NoAddress /\ (known => record[s][i] # address)
           /\ CreateError(s, FALSE)
           /\ UNCHANGED <<record, ip, next>>
        \/ /\ record' \in {record} \cup {r \in {registered} : record[s][i] = NoAddress}
           /\ CreateError(s, TRUE)
           /\ UNCHANGED <<ip, next>>

SetId(s, p) ==
    /\ conf' = [conf EXCEPT ![s] = want[s]]
    /\ Goto(s, p)
    /\ UNCHANGED <<tainted, stopped, history>>

(* Into the state once there is something to keep; an ESX host only when   *)
(* all of it has been created.                                             *)
CreateAllocate(s) ==
    /\ pc[s] = "create_allocate"
    /\ \/ next[s] \in Interface /\ AllocateIp(s)
       \/ /\ next[s] \notin Interface
          /\ IF kind[s] = "esx" THEN Continue(s, "create_boot") ELSE SetId(s, "create_boot")
          /\ UNCHANGED <<record, ip, next>>
    /\ UNCHANGED <<ucs, storage, cache, assign, diag>>

(* The first loop: what exists of the storage is taken as it is, unless    *)
(* the loop has failed before, which deletes what there is.  The storage   *)
(* of an ESX host is complete after it.                                    *)
CreateBoot(s) ==
    /\ pc[s] = "create_boot"
    /\ \/ storage[s] = "whole" /\ UNCHANGED storage /\ Continue(s, "create_profile")
       \/ /\ storage' = [storage EXCEPT ![s] = IF kind[s] = "esx" THEN "whole" ELSE "part"]
          /\ Continue(s, "create_profile")
       \/ /\ storage' \in {storage} \cup Attempted(storage, s, "none")
                            \cup Attempted(storage, s, "part")
                            \cup Attempted(storage, s, "whole")
          /\ (storage'[s] = "whole" /\ storage[s] # "whole") => kind[s] = "esx"
          /\ GoOnFailed(s, "create_undo")
    /\ UNCHANGED <<ucs, record, process, locals>>

(* CreateServer: the profile, its boot order, then AssignBlade.            *)
CreateProfile(s) ==
    LET instance == [profile EXCEPT ![s] = "bare"]
        from == [template EXCEPT ![s] = cache[s].template]
    IN  /\ pc[s] = "create_profile"
        /\ \/ profile' = instance /\ template' = from /\ Continue(s, "create_configure")
           \/ profile' = instance /\ template' = from /\ GoOnFailed(s, "create_undo")
           \/ UNCHANGED <<profile, template>> /\ GoOnFailed(s, "create_undo")
        /\ UNCHANGED <<blade, power, storage, record, process, locals>>

CreateConfigure(s) ==
    LET ready == [profile EXCEPT ![s] = "ready"]
    IN  /\ pc[s] = "create_configure"
        /\ \/ profile' = ready /\ Continue(s, "pick")
             /\ StartAssign(s, IF kind[s] = "esx" THEN "create_id" ELSE "create_seed")
           \/ profile' \in {profile, ready} /\ UNCHANGED locals /\ GoOnFailed(s, "create_undo")
        /\ UNCHANGED <<template, blade, power, storage, record, process>>

CreateSeedBug(s) ==
    LET whole == [storage EXCEPT ![s] = "whole"]
    IN  /\ pc[s] = "create_seed"
        /\ \/ storage' = whole /\ Continue(s, "create_start")
           \/ storage' \in {storage, whole} /\ GoOnFailed(s, "create_start")
        /\ UNCHANGED <<ucs, record, process, locals>>

(* The second loop, for NVMe and seed storage; not for ESX hosts.          *)
CreateSeed(s) ==
    LET whole == [storage EXCEPT ![s] = "whole"]
    IN  /\ pc[s] = "create_seed"
        /\ \/ storage' = whole /\ Continue(s, "create_start")
           \/ storage' \in {storage, whole} /\ GoOnFailed(s, "create_undo")
        /\ UNCHANGED <<ucs, record, process, locals>>

(* DeleteBootStorage, -HarvesterStorage, -EsxStorage.  An error may come   *)
(* before, amid or after it all.                                           *)
StorageDeleted(s) == storage' = [storage EXCEPT ![s] = "none"]
StorageDeleteFailed(s) ==
    storage' \in {storage} \cup {[storage EXCEPT ![s] = left] :
                     left \in {l \in {"part", "none"} : storage[s] # "none"}}

(* The error of the cleanup is dropped.  That of an ESX host goes on to    *)
(* the profile and the records, and leaves nothing in the state.           *)
CreateUndo(s) ==
    /\ pc[s] = "create_undo"
    /\ IF kind[s] = "esx"
       THEN \/ StorageDeleted(s) /\ Continue(s, "undo_profile")
            \/ StorageDeleteFailed(s) /\ GoOnFailed(s, "undo_profile")
       ELSE \/ StorageDeleted(s) /\ CreateError(s, FALSE)
            \/ StorageDeleteFailed(s) /\ CreateError(s, TRUE)
    /\ UNCHANGED <<ucs, record, process, locals>>

ProfileGone(s) ==
    /\ profile' = [profile EXCEPT ![s] = "none"]
    /\ template' = [template EXCEPT ![s] = Absent]
    /\ blade' = [blade EXCEPT ![s] = NoBlade]

UndoProfile(s) ==
    /\ pc[s] = "undo_profile"
    /\ \/ power[s] = "down" /\ ProfileGone(s) /\ Continue(s, "undo_records")
       \/ UNCHANGED <<profile, template, blade>> /\ GoOnFailed(s, "undo_records")
    /\ next' = [next EXCEPT ![s] = 1]
    /\ UNCHANGED <<power, storage, record, process, assign, diag>>

(* Release stops at the first record that it cannot delete.                *)
UndoRecords(s) ==
    LET i == next[s]
    IN  /\ pc[s] = "undo_records"
        /\ \/ /\ i \in Interface
              /\ record' = [record EXCEPT ![s][i] = NoAddress]
              /\ next' = [next EXCEPT ![s] = i + 1]
              /\ Continue(s, "undo_records")
           \/ /\ i \in Interface
              /\ record' \in Attempted(record, s, [record[s] EXCEPT ![i] = NoAddress])
              /\ UNCHANGED next /\ CreateError(s, TRUE)
           \/ i \notin Interface /\ UNCHANGED <<record, next>> /\ CreateError(s, FALSE)
        /\ UNCHANGED <<ucs, storage, process, assign, diag>>

Created(s) ==
    /\ Goto(s, "idle")
    /\ tainted' = tainted \ {s}
    /\ reported' = [reported EXCEPT ![s] = FALSE]
    /\ UNCHANGED <<conf, stopped, fault>>

CreateId(s) ==
    /\ pc[s] = "create_id"
    /\ SetId(s, "create_start")
    /\ UNCHANGED <<world, process, locals>>

(* The error of StartServer for an ESX host is none that resourceCreate-   *)
(* EsxHost returns: it is not among the errors collected.                  *)
CreateStart(s) ==
    LET on == [power EXCEPT ![s] = "up"]
        next_stage == IF kind[s] = "harvester" THEN "create_stage" ELSE "create_rest"
    IN  /\ pc[s] = "create_start"
        /\ \/ power' = on /\ Continue(s, next_stage)
           \/ power' \in {power, on} /\ IF kind[s] = "esx" THEN Created(s) ELSE CreateError(s, TRUE)
        /\ UNCHANGED <<profile, template, blade, storage, record, process, locals>>

(* Harvester installs in two stages: the installer of the bootstrap LUN    *)
(* halts the server, the handler powers it off (an error of StopServer is  *)
(* dropped, the power state awaited), maps the boot LUN in its place and   *)
(* powers it on again.                                                     *)
CreateStage(s) ==
    /\ pc[s] = "create_stage"
    /\ Continue(s, "create_halt") \/ CreateError(s, TRUE)
    /\ UNCHANGED <<world, process, locals>>

CreateHaltBug(s) ==
    LET off == [power EXCEPT ![s] = "down"]
    IN  /\ pc[s] = "create_halt"
        /\ power' \in {power, off} /\ Continue(s, "create_remap")
        /\ UNCHANGED <<profile, template, blade, storage, record, process, locals>>

CreateHalt(s) ==
    LET off == [power EXCEPT ![s] = "down"]
    IN  /\ pc[s] = "create_halt"
        /\ \/ power' = off /\ (Continue(s, "create_remap") \/ GoOnFailed(s, "create_remap"))
           \/ power' \in {power, off} /\ CreateError(s, TRUE)
        /\ UNCHANGED <<profile, template, blade, storage, record, process, locals>>

CreateRemap(s) ==
    /\ pc[s] = "create_remap"
    /\ \/ UNCHANGED storage /\ Continue(s, "create_restart")
       \/ storage' \in Attempted(storage, s, "part") /\ CreateError(s, TRUE)
    /\ UNCHANGED <<ucs, record, process, locals>>

CreateRestart(s) ==
    LET on == [power EXCEPT ![s] = "up"]
    IN  /\ pc[s] = "create_restart"
        /\ \/ power' = on /\ Continue(s, "create_rest")
           \/ power' \in {power, on} /\ CreateError(s, TRUE)
        /\ UNCHANGED <<profile, template, blade, storage, record, process, locals>>

(* waitForSSH, the init commands, snapshots and labels; the cluster of a   *)
(* harvester node, the installer of an ESX host.                           *)
CreateRest(s) ==
    /\ pc[s] = "create_rest"
    /\ Created(s) \/ CreateError(s, TRUE)
    /\ UNCHANGED <<world, process, locals>>

Create(s) ==
    \/ CreateDiscover(s) \/ CreateExists(s) \/ CreatePreflight(s) \/ CreateAllocate(s)
    \/ CreateBoot(s) \/ CreateProfile(s) \/ CreateConfigure(s) \/ CreateSeed(s)
    \/ CreateUndo(s) \/ UndoProfile(s) \/ UndoRecords(s)
    \/ CreateId(s) \/ CreateStart(s) \/ CreateStage(s) \/ CreateHalt(s)
    \/ CreateRemap(s) \/ CreateRestart(s) \/ CreateRest(s)

-----------------------------------------------------------------------------
(* resourceDeleteServer, -HarvesterNode and -EsxHost.  From the profile    *)
(* on, errors are collected.                                               *)

(* A harvester node or an ESX host that is up but not "ok" is not spared.  *)
Spared(s) == power[s] = "up" /\ conf[s].safe

DeleteCheck(s) ==
    /\ pc[s] = "delete_check"
    /\ SetServerInput(s, conf[s])
    /\ \/ Spared(s) /\ DeleteError(s, FALSE)
       \/ (~Spared(s) \/ kind[s] # "server") /\ Continue(s, "delete_node")
       \/ DeleteError(s, TRUE)
    /\ diag' = [diag EXCEPT ![s] = FALSE]
    /\ UNCHANGED <<world, next, assign>>

(* RancherAPINodeForceDelete is only called for servers.                   *)
AfterStop(s) == IF kind[s] = "server" THEN "delete_force" ELSE "delete_profile"

DeleteNodeBug(s) ==
    /\ pc[s] = "delete_node"
    /\ Continue(s, AfterStop(s)) \/ DeleteError(s, TRUE)
    /\ UNCHANGED <<world, process, locals>>

(* The node leaves its cluster, the host shuts down: see RancherNode,      *)
(* HarvesterUpdate and EsxUpdate.                                          *)
DeleteNode(s) ==
    /\ pc[s] = "delete_node"
    /\ \/ Continue(s, IF power[s] = "up" THEN "delete_stop" ELSE AfterStop(s))
       \/ (power[s] = "up" \/ kind[s] # "esx") /\ DeleteError(s, TRUE)
    /\ UNCHANGED <<world, process, locals>>

DeleteStop(s) ==
    LET off == [power EXCEPT ![s] = "down"]
    IN  /\ pc[s] = "delete_stop"
        /\ \/ power' = off /\ Continue(s, AfterStop(s))
           \/ power' \in {power, off} /\ DeleteError(s, TRUE)
        /\ UNCHANGED <<profile, template, blade, storage, record, process, locals>>

CollectBug(s, p) == UNCHANGED diag /\ GoOnFailed(s, p)

(* The error of a call is collected, or the call succeeds.                 *)
Collect(s, p) == diag' = [diag EXCEPT ![s] = TRUE] /\ GoOnFailed(s, p)
Succeed(s, p) == UNCHANGED diag /\ Continue(s, p)

DeleteForce(s) ==
    /\ pc[s] = "delete_force"
    /\ Succeed(s, "delete_profile") \/ Collect(s, "delete_profile")
    /\ UNCHANGED <<world, process, next, assign>>

(* DeleteServer refuses unless the power is down.                          *)
DeleteProfile(s) ==
    /\ pc[s] = "delete_profile"
    /\ \/ power[s] = "down" /\ ProfileGone(s) /\ Succeed(s, "delete_storage")
       \/ power[s] = "down" /\ ProfileGone(s) /\ Collect(s, "delete_storage")
       \/ UNCHANGED <<profile, template, blade>> /\ Collect(s, "delete_storage")
    /\ UNCHANGED <<power, storage, record, process, next, assign>>

DeleteStorage(s) ==
    /\ pc[s] = "delete_storage"
    /\ \/ StorageDeleted(s) /\ Succeed(s, "delete_records")
       \/ StorageDeleteFailed(s) /\ Collect(s, "delete_records")
    /\ next' = [next EXCEPT ![s] = 1]
    /\ UNCHANGED <<ucs, record, process, assign>>

ReleaseIp(s) ==
    LET i == next[s]
        released == [record EXCEPT ![s][i] = NoAddress]
    IN  \/ /\ record' = released
           /\ ip' = [ip EXCEPT ![s][i] = record[s][i]]
           /\ next' = [next EXCEPT ![s] = i + 1]
           /\ Continue(s, "delete_records")
        \/ /\ record' \in {record, released}
           /\ UNCHANGED <<ip, next>>
           /\ DeleteError(s, TRUE)

(* The last step of destroying a server; one that is replaced is created   *)
(* by the same process.                                                    *)
Deleted(s) ==
    /\ conf' = [conf EXCEPT ![s] = Absent]
    /\ tainted' = tainted \ {s}
    /\ reported' = [reported EXCEPT ![s] = FALSE]
    /\ Goto(s, IF want[s] = Absent THEN "idle" ELSE "create_discover")
    /\ UNCHANGED <<stopped, fault>>

DeleteRecords(s) ==
    /\ pc[s] = "delete_records"
    /\ \/ next[s] \in Interface /\ ReleaseIp(s)
       \/ /\ next[s] \notin Interface
          /\ IF diag[s] THEN DeleteError(s, FALSE) ELSE Deleted(s)
          /\ UNCHANGED <<record, ip, next>>
    /\ UNCHANGED <<ucs, storage, cache, assign, diag>>

Delete(s) ==
    \/ DeleteCheck(s) \/ DeleteNode(s) \/ DeleteStop(s) \/ DeleteForce(s)
    \/ DeleteProfile(s) \/ DeleteStorage(s) \/ DeleteRecords(s)

Handler(s) ==
    (AssignBlade(s) \/ Read(s) \/ Create(s) \/ Delete(s)) /\ UNCHANGED <<kind, want, run, todo>>

-----------------------------------------------------------------------------
(* External: terraform.  Every run has a configuration of its own.         *)

NewProcess ==
    /\ cache' = [s \in Server |-> Absent]
    /\ ip' = [s \in Server |-> NoAddresses]

StartRun ==
    /\ run = "idle"
    /\ run' = "refresh"
    /\ want' \in [Server -> Configs \cup {Absent}]
    /\ todo' = {s \in Server : InState(s)}
    /\ stopped' = FALSE /\ fault' = FALSE
    /\ NewProcess
    /\ UNCHANGED <<kind, world, state, pc, locals, reported>>

StartRead(s) ==
    /\ run = "refresh" /\ s \in todo
    /\ todo' = todo \ {s}
    /\ Goto(s, "read_server")
    /\ UNCHANGED <<kind, world, state, want, run, stopped, process, locals, history>>

EndRefresh ==
    /\ run = "refresh" /\ todo = {} /\ NoHandler
    /\ run' = IF stopped THEN "idle" ELSE "apply"
    /\ todo' = IF stopped THEN {} ELSE Server
    /\ NewProcess
    /\ UNCHANGED <<kind, world, state, want, stopped, pc, locals, history>>

(* Only the attributes marked ForceNew make terraform replace a server     *)
(* that is not tainted; they include the network of the other two kinds.   *)
Network(c) == <<c.subnet, c.static>>

Replaced(s) ==
    \/ s \in tainted
    \/ want[s].template # conf[s].template
    \/ kind[s] # "server" /\ Network(want[s]) # Network(conf[s])

StartCreate(s) == ~InState(s) /\ want[s] # Absent /\ Goto(s, "create_discover")

StartDelete(s) ==
    /\ InState(s)
    /\ want[s] # Absent => Replaced(s)
    /\ Goto(s, "delete_check")

(* The update, as far as it matters here: see ServerUpdate, Harvester-     *)
(* Update and EsxUpdate.  It leaves the records alone, and may fail with   *)
(* the server off or its storage incomplete (that of the other two kinds   *)
(* may be gone: they delete the volume, too).                              *)
Update(s) ==
    /\ InState(s) /\ want[s] # Absent /\ ~Replaced(s)
    /\ \/ /\ conf' = [conf EXCEPT ![s] = want[s]]
          /\ UNCHANGED <<power, storage, history>>
       \/ /\ power' \in Attempted(power, s, "down")
          /\ storage' \in {storage} \cup {[storage EXCEPT ![s] = left] :
                              left \in {l \in {"part", "none"} :
                                          /\ power'[s] = "down"
                                          /\ kind[s] = "server" => l = "part"}}
          /\ fault' = TRUE /\ reported' = [reported EXCEPT ![s] = TRUE]
          /\ UNCHANGED conf

Nothing(s) == ~InState(s) /\ want[s] = Absent

Apply(s) ==
    /\ run = "apply" /\ s \in todo
    /\ todo' = todo \ {s}
    /\ \/ StartCreate(s) /\ UNCHANGED <<conf, power, storage, history>>
       \/ StartDelete(s) /\ UNCHANGED <<conf, power, storage, history>>
       \/ Update(s) /\ UNCHANGED pc
       \/ Nothing(s) /\ UNCHANGED <<conf, power, storage, pc, history>>
    /\ UNCHANGED <<kind, profile, template, blade, record, tainted, want, run, stopped>>
    /\ UNCHANGED <<process, locals>>

EndApply ==
    /\ run = "apply" /\ todo = {} /\ NoHandler
    /\ run' = "idle"
    /\ UNCHANGED <<kind, world, state, want, todo, stopped, process, pc, locals, history>>

Proceed ==
    \/ \E s \in Server : Handler(s) \/ StartRead(s) \/ Apply(s)
    \/ EndRefresh
    \/ EndApply

Next == StartRun \/ Proceed

Spec == Init /\ [][Next]_vars

(* Handlers that can go on do; nobody has to start another run.            *)
FairSpec == Spec /\ WF_vars(Proceed)

=============================================================================

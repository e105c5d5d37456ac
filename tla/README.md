# Verification of terraform-provider-flexbot

`terraform-provider-flexbot` builds and updates bare-metal cluster nodes: a
node is a Cisco UCS service profile (a blade), the volume with its LUNs on a
NetApp array it boots from, a set of IP addresses and a member of a Rancher, RKE
or Harvester cluster, or an ESX host of its own. A resource handler has to keep
these systems consistent although each can refuse a request, answer late or not
at all, and although terraform runs the handlers of many nodes at the same time.

This directory holds TLA+ models of that code, the TLC runs that check them and
proofs of the results that matter most. `PROJECT.json` maps every definition to
the lines it was translated from; the lines quoted here are those of the
repository.

## 1. Inventory

| Part | Code | State | Operations | What is hard |
|---|---|---|---|---|
| update manager | `pkg/config/config.go` | mutex, last error | `UpdateManagerAcquire`, `SetError`, `Release` | used by all goroutines; a no-op unless `synchronized_updates` |
| server updates | `resource_flexbot_server.go` 241-1068 | program point, `ChangeStatus`, power state read earlier | snapshot, compute, storage, maintenance, restore, metadata | order of calls to three systems, errors recorded or not, stale reads |
| cluster nodes | `pkg/rancher/{rancher2,rke,rke2,rk-api}*.go` | member, registration, cordoned, labels; a handle with an ID and roles | cordon, drain, uncordon, wait for a state, delete, label | providers behind one interface; an empty handle succeeds |
| hypervisor updates | `resource_flexbot_harvester_node.go`, `resource_flexbot_esx_host.go` | as for servers, with maintenance mode instead of cordons | compute, storage in one or two stages | virtual machines to move first; an installer that shows itself before it is done |
| harvester cluster client | `pkg/rancher/harvester*.go` | maintenance annotations of a node | enable, disable, wait until ready, delete | loops within a time-out; a response that is not there |
| vSphere client | `pkg/vmware` | maintenance mode, connection state of a host | enter, exit, shut down, wait for the host | a host is "connected" before it is installed |
| storage of the three kinds | `pkg/ontap/{boot,seed,nvme,harvester,esx}-storage.go` | volume, igroup, LUNs, mappings and their IDs, file, namespace, subsystem | create, delete, re-image, remap in retry loops | some forty requests, each may stop half-way and leave something |
| snapshots | `resource_flexbot_server.go` 790-846, `common.go`, `pkg/ontap/snapshots.go` | snapshots, terraform's list, frozen file systems | create, delete, create with `fsfreeze` | a script on the server and a request to the array have to meet in time |
| lifecycle of the three kinds | create, read, delete in the three `resource_*.go` | terraform's resource ID | create, read, delete, import | a failure between two systems; what a refresh makes of it |
| UCS compute | `pkg/ucsm/ucsm.go` | service profiles, blades, association, power | preflight, create, assign, start, stop, update, delete | a pool of blades shared by concurrent creates |
| IP addresses | `pkg/ipam/*.go` | host records | preflight, allocate, release, discover | one record per interface, stops at the first error |
| repository | `resource_flexbot_repo.go`, `repo-storage.go` | images and templates on the array | create, update, delete, list | a loop over items, each of which stops half-way |
| ONTAP clients | `pkg/ontap/client` | - | one function per request, REST and ZAPI | errors lost in shadowed variables |
| configuration, encryption, schema, command line | `provider.go`, `schema_*.go`, `crypt.go`, `tools` | - | parse, encrypt | data without control |

How they interact: terraform calls a resource handler per instance, each on a
goroutine of its own; the handlers share the update manager and, outside of the
process, UCS, the array, the address manager and the cluster. Every call is
synchronous; the handlers poll for what happens by itself (a server boots, a
node registers, the script has frozen the file systems) with a time-out on
every wait. There is no persistence but terraform's state: after a failure the
next apply starts from what was left.

What correctness means, per part:

* update manager, server and hypervisor updates: with `synchronized_updates` the
  nodes leave service one at a time and a failure ends the rollout; an update that
  reports success leaves a working, labelled node; a server is drained or
  evacuated before it is powered off, and off before its LUNs are rewritten; a
  node that was registered anew is not mistaken for the old one; every update ends.
* storage: an operation that reports success has left nothing of the old system
  and nothing incomplete, with the right LUN to boot from; what a failed attempt
  leaves never spoils the next; a re-image keeps the volume, which holds the snapshots.
* snapshots: a snapshot with `fsfreeze` is consistent; nothing stays frozen; only
  what the configuration dropped is destroyed.
* lifecycle: nothing is left behind without an error; a race for a blade is won in the
  end; a deletion that reports success has deleted everything; a server that is kept is complete.
* repository: without an error the array has what is configured; nobody else's images are
  touched; what was dropped is gone.

`PROJECT.json` lists the hazards of this code, each at its line with the
properties that watch it, or why none does.

## 2. Modules

| Module | Models | How |
|---|---|---|
| `UpdateManager` | the mutex and last error of `config.go` 500-583 | state and the three calls as operators over one node |
| `RancherNode` | the interface of `rancher.go` for rancher2, rke, rke2, rk-api and no cluster | one operator per call over the node's cluster state |
| `ServerUpdate` | `resourceUpdateServer` with its handlers; extends the two above | one action per remote call, `pc` names handler and call |
| `ServerUpdateProperties` | properties, the inductive invariants, the refinement mapping | |
| `Rollout` | abstract specification: what a sequential rollout is | |
| `MCServerUpdate` | the plans of the runs | |
| `ServerUpdateProofs`, `ServerUpdateServiceProofs`, `ServerUpdateOrderProofs` | proofs | |
| `Hypervisor` | what the two hypervisor updates share: UCS calls, control, common steps | operators over one node; extends `UpdateManager` |
| `HarvesterUpdate`, `EsxUpdate` | `resourceUpdateHarvesterNode`, `resourceUpdateEsxHost` with their clients | one action per remote call |
| `HypervisorUpdate` | one apply over nodes and hosts of both kinds | composes the two over one mutex |
| `HypervisorUpdateProperties`, `HypervisorProofs`, `MCHypervisorUpdate` | properties, refinement of `Rollout`, invariants, proofs, plans and providers | |
| `BootStorage` | storage functions of servers, harvester nodes and ESX hosts and the retry loops around them | one request to the array per action |
| `BootStorageProperties`, `BootStorageProofs`, `MCBootStorage` | properties, invariant, proofs, configurations | |
| `Snapshots` | `resourceUpdateServerSnapshot`, `createSnapshot`, its script | handler, script and time as three kinds of steps |
| `SnapshotsProperties`, `SnapshotsProofs` | properties, invariant, proofs | |
| `ServerLifecycle` | create, read and delete of the three kinds, `pkg/ucsm`, `pkg/ipam`, in terraform runs | one call or loop per action, storage as none, part or whole |
| `ServerLifecycleProperties`, `ServerLifecycleProofs`, `MCServerLifecycle` | properties, invariant, proofs, configurations | |
| `Repo` | the repository of images and templates in terraform runs | one request to the array per action |
| `RepoProperties`, `RepoProofs`, `MCRepo` | properties, invariant, proofs, configurations | |

A definition whose name ends in `Bug` is not part of the model. It stands before
the definition it is a plausible faulty version of, and `PROJECT.json` names the
property that fails when it takes that definition's place.

### Server updates

`plan[n]` is what terraform asks of node `n`: the difference between state and
configuration, the attributes that steer the handlers, and the provider. Each node's goroutine
goes through the handlers in the order of the code; `pc[n]` is the next call, e.g.
`storage_drain` for the cordon and drain at lines 606-614. Every call can fail,
before or after its effect (`ClusterCall`); an error goes through `ReturnError`,
which records it with the update manager exactly in the program points where the
code calls `UpdateManagerSetError` (`Recorded`), and releases the mutex where the
code's `defer` does. The variables `power`, `booted`, `disk`, `member`, `machine`, `cordoned`
and `labelled` are the server and its node as they are; `seen`, `nodeID` and
`roles` are what the handler has read of them, possibly long ago. The actions
`Boot`, `Join` and `MachineLeaves` are the environment: a powered server comes up, a fresh
system registers, the controllers of Rancher remove a machine whose deletion was asked for, at
any time or never.

Under rk-api the node is looked up by `RkAPIInitialize`, which drops the error of the lookup:
the handle may be empty although the cluster has the node. A deleted machine stays until
`MachineLeaves`, and the storage handler waits for that (`OldMachine`); its replacement
registers only afterwards. `NodeStates` is the set of states that one call of
`RancherAPINodeGetState` may read. For rk-api it has three: "active" needs every condition of the machine
to be True, and the controllers set those as they like, so the machine of a node that is up may also be
"inTransition" or "notReady" (`rk-api-client.go:139-150`). Waits pass over these two; the compute
handler, which reads the state once (`ComputeDrain`), does not drain then. For rancher2 and rke2 the state
follows the node: a registered node that is up and not cordoned is "active". That is an assumption on those
APIs, under which "booted" means what they call ready.

### Hypervisor updates

The structure is that of `ServerUpdate`. In place of a cordon there is a maintenance mode,
`maint`: off, running (virtual machines are leaving), completed. The loops that enable and disable it
are steps that come back to the same program point. `disk` follows the Harvester
installation through its two stages: the installer on the bootstrap LUN, the system on the boot
LUN, the boot LUN mapped in its place. For an ESX host, `probe` and `streak` count the probes of
`waitForEsxHost`; that the 60 seconds with the SDK up do not occur while the installer
works (`Connected`) is what the comment in that function claims. A nil pointer is a step, `Panic`,
which ends all updates of the process at once.

The two clients are part of these modules: the calls are the few operators in front of the handlers.

### Storage

One operation follows the other for ever (create, re-image or delete, in any order
terraform can ask for), each from the state its predecessor has left. `fn` and `at` name
the function and the request it makes next; a request takes effect and succeeds,
takes effect and fails, or fails. The kind of the server is fixed; the harvester functions
are those of the server with a further LUN, and `RemapHarvesterStorage` is the end of create and
re-image. The array is assumed to refuse to
destroy a mapped LUN, a mapped namespace or a subsystem with maps, to map a LUN
twice or under an ID that is taken, and to store a file over an existing one; these rules are what makes left-overs
dangerous and `EveryAttemptCounts` meaningful. The configuration that
terraform can change between operations (data LUN, NVMe) is chosen anew; the
wire protocol and the kind of NVMe use stay. An ESX host over ZAPI is excluded: its image is never
uploaded (section 4).

### Snapshots

The handler, the script on the server and the array run side by side. A tick is
the pause of the polling loop (0.5 s); the script's `sleep 5` is `Window` ticks, the
array needs at most `Latency` ticks. Two assumptions: a request that reports
failure takes effect within the same time or never; and a login is refused as long
as an earlier script keeps the server frozen or is still running.

### Lifecycle

Terraform itself is part of the model, because what a failed create means
depends on what the next run does: `StartRun` chooses a configuration, a refresh reads
every server in the state, and unless one of these reads fails the apply half
creates, updates, deletes or replaces. `kind` tells servers, harvester nodes and ESX hosts apart; the
handlers of all three are here, step by step the same but for what the guards say. `conf` and `tainted` are the state
file; `want` is the configuration; `cache` and `ip` are the `NodeConfig` map of the provider
process, which is new in each half. `profile`, `template`, `blade` and `power` are UCS, `storage`
is `BootStorage` seen from outside, `record` the host records. The handlers' program
points are the labels of `pc`; servers run concurrently. An update is one step with
the outcomes that matter here. What is assumed of the outside:

* terraform taints a resource whose create fails after `SetId`, keeps one whose delete
  fails, does not apply when a refresh has failed, and replaces a server only if it is
  tainted or an attribute marked `ForceNew` has changed;
* UCS refuses to assign a blade that is taken; a new profile is powered off; a profile
  whose creation broke off before it had its iSCSI boot targets (`bare`) makes `DiscoverServer` fail;
* Infoblox refuses a second record of a name;
* the `vmware_api` block is present; the crash without it is in `EsxUpdate`.

`reported` remembers whether an error was reported since a server was last created or deleted
successfully: the code leaves things behind after errors, and the properties
say that it never does so silently.

### Repository

A volume of images (LUNs) and one of templates (files), each a function from names to what is
stored: nothing, a part, the contents from one location, an error page. Create, update and delete are loops over kinds
and names; the order of the names is any. `old` is terraform's state, `new` the configuration;
`listed` is what the array had when the handler asked. A failed update leaves `old = new`, because
`updateRepo` never calls `d.Partial(true)`.

## 3. Runs

| Run | States | Question |
|---|---|---|
| `server_update` | 130 877 | three nodes of an rke2 cluster, `synchronized_updates`: one at a time, success, labels, halt after failure, refinement of `Rollout`, termination |
| `server_update_mixed` | 463 044 | two nodes under each of the six values of provider, mutex unused, everything the first run leaves out: off before rewriting, drained before off (the compute handler under rk-api excepted), a new registration is awaited |
| `hypervisor_update` | 144 869 | harvester nodes and ESX hosts in one apply, nine plans, three providers: success, evacuated before off, off before rewriting, refinement of `Rollout` with panics, termination |
| `boot_storage` | 171 849 | creations, re-images, remaps and deletions of storage with faults everywhere |
| `snapshots` | 119 438 | applies with and without `fsfreeze`, faults and lost connections |
| `lifecycle` | 190 413 | terraform runs over one server, harvester node or ESX host with two addresses: what is kept is whole, what left is gone, storage goes only when the server is off, profiles of others are kept, runs end |
| `lifecycle_blades` | 637 125 | two servers compete for two blades |
| `repo` | 2 504 811 | terraform runs over a repository that was empty or filled by hand, both wire protocols |
| `image_not_awaited` | violation | the next node goes before the last is back |
| `host_not_installed` | violation | an update of an ESX host that ends before its installation |
| `snapshot_lost` | violation | an apply that succeeds without its snapshot |
| `stale_config` | violation | a replaced server made from its old template |

### Bounds, and why they suffice

* Nodes: the claims relate two nodes; a third is there to see the mutex handed on
  after a failure. The proofs are for any set.
* Plans: `SerialisedPlans` and `MixedPlans` together contain every value of every
  field that an action looks at. One plan asks for two handlers at least, so that state
  handed from one to the next (`change`, the handle) matters. `MixedPlans` has five plans under every
  provider; all nodes of a run have the same provider (`Init`), as the provider block is one.
  `Mixed` of `MCHypervisorUpdate` does the same for hypervisors, `AllProviders` contains all on, all off,
  and the values that make calls fail or crash.
* `Probes` is 2 instead of 12: a last probe and one before it (3 in `host_not_installed`, so that the count is
  seen to be interrupted).
* `Attempts` is 2 instead of `StorageRetryAttempts` = 5: one attempt that leaves
  something and one that finds it. Operations follow each other without a bound, so
  left-overs of any number of operations do accumulate. `MaxFaults` bounds
  the counter, not the faults.
* `Window`, `Polls` and `Latency` are 4, 3 and 2 instead of 10, 30 and any: with
  `Latency < Window - 1` the request can arrive at the last moment but one; with
  3 polls the handler gives up before, during and after the freeze. The proof is for any values.
* `Volumes` is 1: "/" and one file system, which is what the order of freeze
  and thaw needs.
* `Tries` is 2 instead of 5: with two servers a blade can be lost to the other once.
  `Interfaces` is 2, so that a release or an allocation can stop between them; 0 stands for
  the provider "Internal", which keeps no records. `Changes` has two configurations that differ in the
  template and two that do not, static and allocated addresses, with and without `safe_removal`.
  The number of runs is not bounded.
* The repository has two names per kind: one at work and one that waits, is done or is foreign.
  The template `b` is never listed. The proof is for any names, locations and configurations.

### Fairness

* `ServerUpdate`: weak fairness of each node's `Step`: goroutines are scheduled and
  every wait has a time-out. Nothing is assumed of `Boot`, `Join` and `MachineLeaves`. Weak fairness is
  enough for the mutex although it is not fair: each of finitely many updates takes it a bounded
  number of times.
* `HypervisorUpdate`: the same, and weak fairness of `GiveUp` by itself: the time of `waitForEsxHost` runs
  out however many probes are made. A maintenance loop that keeps requesting comes to an end
  because its request takes effect.
* `BootStorage`: weak fairness of `Call`: a handler goes on. New operations
  need not come.
* `Snapshots`: weak fairness of handler, script and clock. Connections need not
  break, and nobody needs to apply.
* `ServerLifecycle`: weak fairness of `Proceed`, which is everything but the start of a
  run: a handler that can go on does, and terraform goes on when its handlers return.
* `server_update_mixed`, `lifecycle_blades` and `repo` check safety only, without fairness.

`CHECK_DEADLOCK` is on in every run but `repo`. `ServerUpdate` and `HypervisorUpdate` end in `Terminated`, a stutter
in the final state; the other modules never end. `Repo` may really stop: a volume of templates without its
directory (a creation that broke off between the two) makes `GetRepoTemplates` fail, with it every refresh, and
no run of terraform gets any further.

## 4. What was found

Four runs refute what the code says of itself:

* `image_not_awaited`: after a re-image the time-out of `waitForSSH` is dropped
  (`resource_flexbot_server.go:678`); with rancher2 a master that was deleted from the cluster
  has an empty ID, for which every wait returns at once, and the rollout goes on without it.
* `host_not_installed`: in `waitForEsxHost` a failed connection does not break off the 60 seconds
  (`resource_flexbot_esx_host.go:739`), so that a single answer at their end is enough.
* `snapshot_lost`: `createSnapshot` tests `err` where it has collected `errs`: a freeze that did not
  complete passes for a snapshot if the last thaw succeeds.
* `stale_config`: `setFlexbotServerInput` (line 1196) returns the configuration that was cached by the delete
  of the same apply, so a server that is replaced is created from the template it was to get rid of.

What follows is in the models, or read in the code next to them, and has no run of its own.

Updates:

* `synchronized_run` does not synchronise unless the provider sets
  `synchronized_updates` (`config.go:563`), contrary to `docs/resources/server.md:238`.
  `Serialised` requires both.
* Restores never take the mutex, contrary to `docs/index.md:345`. With a plan that restores `OneNodeOut` fails.
* Under rk-api `RkAPIInitialize` drops the error of `GetID` (`rk-api.go:75`). A transient error leaves an empty
  handle: the node is powered off without a drain, or re-imaged without leaving the cluster, its old machine is
  then found in place of the new one, and its labels are not rewritten. `Serialised` excludes rk-api,
  and `DrainedBeforeOff` and `RejoinsAnew` speak of handles that are not empty, for this reason.
* The compute handler drains a worker only if its state reads "active" at that moment
  (`resource_flexbot_server.go:443`); otherwise it powers it off without a drain and without an error. Under rk-api one
  condition of the machine that is not True is enough for "inTransition" (`rk-api-client.go:145`), while the cluster
  goes on scheduling on the node, contrary to the comment above it ("Cordon/drain worker nodes") and to
  `examples/simple/simple.tf:68` ("graceful node blade specs updates (cordon/drain/uncordon)"). Without
  its conjunct on rk-api `DrainedBeforeOff` fails in `server_update_mixed` six steps from the start: snapshot, power state,
  mutex, check, a state other than "active", power-off. The property therefore promises nothing for this handler under rk-api; the storage handler
  (line 607) does not ask for the state, and there it holds.
* `DeleteMachine` drops the error of the API (`rk-api-client.go:175`); the wait for the deletion turns
  it into a time-out, which `RejoinsAnew` shows to be enough.
* The harvester storage handler drops the errors of `GetID` and `WaitUntilReady`
  (`resource_flexbot_harvester_node.go:494-502`): a node that could not be looked up is deleted from the cluster and powered
  off without maintenance. `EvacuatedBeforeOff` leaves this handler out.
* `IsNodeReady` and `DeleteNode` (`harvester-client.go:248`, `:346`) look into a response that is nil when the API
  cannot be reached; `waitForEsxHost` reads a `vmware_api` block that may be absent (`provider.go:307-309`). Both end
  the provider process (`Panic`); the rollout stays sequential even then.
* With `wait_for_node_timeout = 0` maintenance mode can neither be entered nor left: the loops end before the
  first request. The defaults are 1800 and 600 (`provider.go:359-367`) where `docs/index.md:415-416` says 0.
* `safe_removal` of hypervisors only counts when the operational state is "ok" (`docs/resources/esx_host.md:49` makes no exception).
* `resource_flexbot_harvester_node.go:468` sets `BootLun.OsImage`, `CreateHarvesterStorage` reads `BootstrapLun.OsImage`.

Storage and lifecycle:

* The REST client loses the errors of its NVMe calls in shadowed variables (`rest.go:870`, `903`, `999`, `1006`), and
  `CreateNvmeStorage` does not assign that of `NvmeNamespaceCreate` (`nvme-storage.go:45`): a creation can end
  without an error and without its NVMe disk. `CreatedIsComplete` leaves that disk out.
* The errors of `IgroupCreate` and `IgroupAddInitiator` are not assigned (`boot-storage.go:44`); the mapping that
  follows fails in the first case.
* Over ZAPI the boot LUN of an ESX host is created and never written (`LunUpload`, `zapi.go:546`, returns nil), although `docs/index.md:379`
  offers both protocols. `CreateEsxStoragePreflight` overwrites its errors (`esx-storage.go:220-228`).
* The error of `StartServer` for a new ESX host is lost (`resource_flexbot_esx_host.go:104`, unlike the one above it at `:100`), although
  `esx_host.md:45-48` lets the power state be configured. `KeptIsWhole` leaves the power of ESX hosts out.
* A creation that fails after the profile exists deletes its storage, so the next refresh drops the
  server from the state, and every later creation is refused because the profile exists; a
  profile that is left without boot targets makes each refresh of the server fail until
  somebody removes it; addresses of a creation that failed before `SetId` have no owner.
* Conversions: the time in the name of a snapshot is only found if its zone is west of UTC
  (`resource_flexbot_server.go:1009`); the list of file systems to freeze keeps the first component of a path
  (`common.go:268`); the error for an interface the template lacks is overwritten by the next one (`ucsm.go:241`).

Repository:

* Without `d.Partial(true)` a failed update is recorded in the state as done, and never repeated
  (`SyncedUnlessReported` is therefore only claimed until the first error).
* `ExportPolicyCreate` is refused if the policy exists, so a failed `VolumeCreateNAS` blocks every retry.
  `GetRepoTemplates` fails for a volume without its directory: create, update and refresh fail for good.
  `DeleteRepoImage` and `DeleteRepoTemplate` fail when the volume does not exist.
* `http.Get` of a page that is missing is not an error: the error page is uploaded (`Source`).
* REST creates the LUN of an image before it writes to it: a half-written image is in the list.

`Serialised` (in `ServerUpdateProperties`) is the set of configurations for which the promise of a sequential
rollout is kept; the properties of `server_update` are checked and proved for it. It is not a
guess: each of its conjuncts is there because dropping it breaks `OneNodeOut`.

## 5. Proofs

| Theorem | For |
|---|---|
| `ServerUpdateProofs!TypeCorrect` | every set of nodes and plans |
| `ServerUpdateServiceProofs!Invariance`, `OneAtATime`, `SuccessMeansInService`, `FailureHalts`, `ImplementsRollout` | every set of nodes and every `Serialised` configuration |
| `ServerUpdateServiceProofs!LabelInvariance`, `SuccessMeansLabelled` | the same |
| `ServerUpdateOrderProofs!OrderInvariance`, `RewrittenOnlyOff`, `PoweredOffDrained`, `AwaitsNewRegistration` | every set of nodes and plans, every provider (`PoweredOffDrained`: for rk-api only in the storage handler), with and without the mutex |
| `HypervisorProofs!HypervisorTypes`, `HandlerInvariance`, `SuccessMeansInService`, `RewrittenOnlyOff`, `StoppedEvacuated` | every set of nodes, plans and providers, any number of probes, with and without the mutex |
| `HypervisorProofs!HypervisorsImplementRollout` | the same, with `synchronized_updates` |
| `BootStorageProofs!StorageInvariance`, `StorageTypes`, `StorageDeleted`, `AttemptsCount`, `SnapshotsStay` | every set of configurations, any number of attempts |
| `BootStorageProofs!Reimage`, `Creation` | the same, if every ESX host is configured for REST (`EveryHostUploaded`) |
| `SnapshotsProofs!SnapshotsInvariance`, `SnapshotsTypeCorrect`, `FrozenInTime`, `ThawedAfterwards`, `OthersAreKept`, `AppliesReconcile` | every set of names, number of file systems, polls, window and latency |
| `ServerLifecycleProofs!LifeInvariance`, `LifecycleTypes`, `KeptServersAreWhole`, `DroppedServersAreGone`, `ServersAreOffBeforeDelete`, `UnknownServersAreKept` | every set of servers of any kinds, blades and configurations, any number of interfaces and tries |
| `ServerLifecycleProofs!RacesAreAlwaysWon` | the same, finite sets of servers and blades |
| `RepoProofs!RepoInvariance`, `RepoTypes`, `SyncedBetweenRuns`, `OthersAreKept`, `DroppedItemsAreGone` | every set of names, locations and configurations |

The proofs use the named assumptions on the constants. `ServerUpdateServiceProofs`
also assumes `Serialised`, which is a condition on the
configuration that the documentation asks for in other words; `HypervisorsImplementRollout` assumes
`Synchronized`, which is the provider attribute; `Reimage` and `Creation` assume `EveryHostUploaded`, because the ZAPI
client writes nothing to the boot LUN of an ESX host (section 4).

**`UpdateInv`.** `OneNodeOut` is not inductive: a state in which one node is out and another
is about to be powered off under the mutex satisfies it and its successor does not. The
argument of the code is that whoever got the mutex saw no error (`config.go:562`),
and that whoever gave it back either was in service again or left an error. So
the invariant says who may be out: the holder (`OthersInService`), or one that is
`done` with an error recorded (`ServiceInv`). That a node is in
service at the end of a handler depends in turn on what the handle knew
(`KnownHandle`: an empty ID makes every call an empty success), on whether a cordon can
still be undone (`Uncordonable`, `UncordonPending`), and on the images being complete
(`StorageInv`). The proof has one lemma per handler for its own node, one per handler for the
others (the frame), and combines them per step as one of `BeginTurn`, `WorkTurn`,
`EndTurn` or `NoTurn`, which are also what `Rollout` sees.

**`LabelInv`.** A node loses its labels only when it registers anew, and it does so only with a new
image; the storage handler has by then put "image" into `change`, which is never emptied, and the metadata handler rewrites
the labels for that reason. `LabelInv` says so per node, on top of `UpdateInv`, from which
it takes that the handle is known when the labels are written.

**`OrderInv`.** No assumption on the configuration. `PowerInv` keeps the power state that a handler acts on
true between its reading and its use: nobody else powers the node on. `SystemInv`
and `CordonInv` say until when the node is the one of old, and from when on it is cordoned (in the compute
handler for every provider but rk-api, whose machine need not have read "active"; in the storage handler for all);
nothing undoes the cordon, because a new registration needs a new system, which the server does not have before it
is off. `RejoinInv` says that who is a member again after having left has registered anew.

**`HandlerInv` and `TurnInv`.** `PowerInv` and `EvacuationInv` carry what a hypervisor's handler has read or brought about
(server off, maintenance completed) to the step that relies on it. `ServiceInv` says what a
node or host that was up, and whose return the provider can see, looks like at
each program point: at rest it is in service, within the handlers it is at least not still entering maintenance
(`ComputeInv`; the loop that ends maintenance would pass over that), and after the new image it
boots from it (`StorageInv`). Nothing here needs the mutex, because a handler touches
its own node only. `TurnInv` adds, with the mutex, that who is out holds it
or has left an error. Each step is summarised as one of four outcomes (`Outcome`): it goes on, takes the mutex, fails, or
returns; these map to stutter or `Work`, `Begin`, `End` and `End` of `Rollout`. A panic changes
neither the mutex nor any node, so it is a stutter there: the rollout stands still.

**`StorageInv`.** Neither what a deletion nor what a re-image promises is inductive: it is made true request by request. `ControlInv`
says which function makes which request for which kind of machine in which loop; it is proved first, for every effect the
requests may have (`Courses`, `ControlKept`). `ArrayInv` holds of the array at any time (what is mapped exists; without the volume
there is nothing; an ID of 0 belongs to the LUN to boot from), one lemma per kind of effect (`ArrayKept`). Then one invariant and one
"stage" lemma per family of functions: `DeleteInv` (the LUNs before `lunNo` are gone), `RemapInv`, `CreateInv` (what
the function has passed is mapped, whatever it has found) and `ReimageInv`, which knows the array exactly, because a re-image
starts from an array without LUNs. A stage lemma says that each request leaves the invariant of its function true, or that the
function returns with what it promises (`Deleted`, `RemapDone`, `Created`, `Reimaged`). `Handlers` says what follows upon a
return, `EndKept` that what the last function promises is what the handler does, `EntryKept` that it is what the
next function starts from. `FaultInv` counts: an attempt has met at least as many faults as attempts are over, one more in the
clean-up, and as long as it has met none, what the array could refuse is out of the way (`ClearedInv`; an attempt is only spoilt
by a fault, never by the leftovers of another one). The counter stops at `MaxFaults`, which is not below `Attempts`.

**`SnapshotsInv`.** What is frozen follows from where the script is (`ScriptInv`); that the
handler runs alongside the script only within `createSnapshot`, from `HandlerInv`.
`TakenWhileFrozen` needs `TimeInv`: the handler looks at the output at most one tick after
it was written, so that `Window - 1 - waited` ticks remain when the request
has been under way for `waited` ticks. `LoopInv` says what the two loops of the apply have come to, on top
of it: what is not in `todo` any more is gone, or there, and what was listed without having been in the configuration
is not deleted, so that the creation may pass it over. `Reconciled` is what is left of it when `todo` is empty.

**`RepoInv`.** The loops are described by what they have yet to do: `ToDelete` and `ToUpload`, by kind, from the
program point, the remaining names and the item at work. `DoneInv` says that the rest of what was to be
deleted is gone and of what was to be uploaded is there; `KeptInv` that what kept its location is still there;
`WorkInv` that the loops come to no other names, which is why others are never touched. At the end of
a loop both sets are empty, and the three properties follow.

**`LifeInv`.** Per server, the program point says what the calls so far have brought about. `CallInv` ties `AssignBlade`
to its caller and its tries, and gives a create its configuration; `PlaceInv` says who is in the state: everybody
who reads, deletes or has been created, but an ESX host only at the end. `OffInv` says who is off: without a configured
profile nobody is on (`DeleteServer` refuses otherwise), and a delete that has come to the profile has seen the
server off or stopped it. `CreateInv` and `DeleteInv` describe the work done, loops over the interfaces included
(all of those before `next`); a delete that collected an error promises nothing. `RestInv` is `KeptIsWhole` and
`DroppedIsGone` extended to servers that are being read. No step of a handler changes another server (the
frame: `Available` is all they share), so the proof is one lemma per handler and invariant. `OffBeforeDelete` follows from
`OffInv`; `UnknownKept` from `PlaceInv`, since whoever writes is in the state, or is making an ESX host, or found no profile.

**`RaceInv`.** For `RacesAreWon` the servers are no longer independent: a server loses a race because another one
takes its blade. The argument counts. `Owners` are the servers that have come to a blade and are not giving it up;
as long as no request fails, nobody leaves them within a half of a run (only a delete or the undoing of a create gives a
blade up, the former starts with its turn, the latter after a failure), and whoever takes the blade that another has
picked joins them (`HandlerOwners`). So a server has lost at most as many races as there are other owners, the race included that it
does not yet know it has lost (`Lost`); that is fewer than there are servers, hence than there are tries. And as long as one server
has no blade, the others do not hold all of them (`OneIsLeft`, the pigeonhole principle), so the query finds one. `BladeInv` ties the
program point to the blade and to the failure that must have happened; it is kept by each handler on its own.

Every invariant and every action property of the passing runs is a theorem. Only model-checked: liveness
(`EveryUpdateEnds`, `EveryOperationEnds`, `EventuallyThawed`, `EveryApplyEnds`, `EveryRunEnds`). Liveness under fairness and `ENABLED` are beyond the prover.

## 6. Not modelled

* `schema_*.go`, `provider.go`, `crypt.go`, the command line tools: data without
  control. Their values are constants or fields of `plan`.
* The requests as the clients build them; what they do is modelled where they are called.
* Retry loops of the cluster clients: a call is one step that succeeds or fails. (An explicit `retries = 0`
  makes the drain loop of `rke2-client.go:212` do nothing and succeed; the model takes it to be positive.)
* The choice of the snapshot that `restore` takes (times as text), and of an address in a subnet.
* vNIC attributes of a profile; `ResizeBootStorage`, whose only effect is a size.
* Import, which is a read of a resource that has no attributes yet.
* `RepoTemplateExists` and `DownloadRepoTemplate`, which change no state.

## 7. Plan

Done, in this order: `UpdateManager`, `RancherNode`, `ServerUpdate` with `Rollout` and their
proofs; `BootStorage`; `Snapshots` with proofs; `ServerLifecycle`; `Hypervisor` with `HarvesterUpdate`, `EsxUpdate` and
their composition; harvester nodes and ESX hosts in `BootStorage` and `ServerLifecycle`; rk-api in `RancherNode`;
`Repo` with proofs; proofs of the order of steps for every configuration and of the labels; proofs for hypervisors,
for `ServerLifecycle` and for `BootStorage`.

What would come next:

1. The retry loops of the cluster clients as a module of their own.

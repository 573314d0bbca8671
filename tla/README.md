# A verification project for slingshot-operator

TLA+ models of the Slingshot operator, checked with TLC on small instances, and
theorems about them proved with TLAPS for every value of the constants. Lines
are those of the repository at the commit this directory stands beside. The
modules are translated from the Go code; the docs are only where some of the
checked statements come from. `PROJECT.json` maps every definition to the lines
it stands for.

## 1. The system

The operator turns one `CXIDriver` object into up to four DaemonSets and a
webhook configuration; the pods of the DaemonSets work on the nodes.

| Part | State it keeps | Operations |
| --- | --- | --- |
| CXIDriver controller (`internal/controller`) | API server: CXIDrivers with finalizer and status, the ConfigMap with the active driver's name, DaemonSets, MutatingWebhookConfiguration. In the process: informer caches, a work queue, the pass under way | `Reconcile`, the `reconcile*` functions, `updateStatus`, `cleanupResources`, `getActiveCXIDriver`, `isActiveCXIDriver`, `setActiveCXIDriver` |
| DaemonSet templates (same file) and the four `cmd/*/main.go` | what is in a template; flags of a process | `build*DaemonSet`, `main` |
| Driver agent (`pkg/driveragent`) | modules on the node and in the kernel, readiness; the node's CXIDevice objects and labels | `ensureDriver` and its four sources; `updateDevices`, `updateCXIDeviceStatus`, `updateNodeLabels` |
| Device plugin (`pkg/deviceplugin`) | the devices it discovered, its socket, its registration | `Start`, `Stop`, `ListAndWatch`, `Allocate`, `GetPreferredAllocation` |
| Retry handler (`pkg/retryhandler`) | a goroutine and a `cxi_rh` process for each device, restart counts | `Start`, `Stop`, `runHandler`, `runCXIRH`, `GetStatus` |
| Metrics exporter (`pkg/metrics`) | counters and gauges, the last counts it saw | `scrapeRetryHandlerStatus` and other scrapes |
| Webhooks (`pkg/webhook`) | none, but for a decoder that is given to the injector or is not | `SidecarInjector.Handle` for each new pod of a labelled namespace, `CXIDriverValidator.Handle` for each creation and update of a CXIDriver, the operator's own included |

How they interact: users write CXIDrivers; the operator reads them from caches
that lag behind the API server, and writes to the API server, which refuses a
write made from an outdated copy. The DaemonSet controller replaces pods of an
older template. The driver agent puts the driver into the kernel and writes
CXIDevices and Node labels. The device plugin and the kubelet talk over two
sockets. The exporter asks the retry handler of its node over HTTP. The
validator judges whatever is written to a CXIDriver; the injector changes pods
before they are stored, and may be asked about one pod several times.

What is hard in it, part by part, and what makes it correct:

- *Controller.* Every decision is made on stale reads; a pass may crash or lose
  an answer at each call; two operators may run at once, since leader election
  is off by default; a name may be used again by a new object while the old
  one's DaemonSets are still being collected. Correct when DaemonSets belong
  only to drivers that will be cleaned up, a deletion ends, the ConfigMap comes
  to name a live driver, and the operator at rest has deployed what the spec
  asks for and reported what is there.
- *Webhooks.* Two configurations may select the same pod, one of them with
  reinvocation, and pods are copied from injected ones; the operator writes the
  whole driver back, in the form in which its types marshal, and is judged for
  it. Correct when no pod gets two sidecars or is refused for one, and what was
  admitted can be served and deleted.
- *Driver agent.* Installation has many steps and is not repeated; the container
  may be killed in any of them, and a download may end early. The Node is written whole beside other writers.
  Correct when ready means loaded, DKMS builds whole sources, an interrupted installation completes, nobody's
  label is lost and the reports come to describe the hardware.
- *Device plugin.* The plugins of two CXIDrivers share a socket path, a plugin
  registers once, and kubelet and plugin restart or go while pods hold devices.
  Correct when sharing never exceeds what the mode says and a plugin that starts
  gets its devices offered.
- *Retry handler.* `Stop` against goroutines that start processes. Correct when
  Stop leaves nothing behind and returns, and failed processes are restarted.
- *Metrics.* Counts of a process that restarts are added up by one that restarts.
  Correct when the counter grows only, and never beyond what happened.

## 2. The modules

| Module | Models | Variables and the code's state |
| --- | --- | --- |
| `CXIDriverSingleton` | how one of several CXIDrivers becomes the active one, and how it goes (`Reconcile` 91-168, `get/set/isActiveCXIDriver`) | `drv`, `cm`, `ds`, `report` at the API server; `cache`, `ccm`, `cds` the informer caches of each operator; `queue`, `work` its work queue and pass |
| `SingleHolder` | what a singleton promises: the abstract specification of `CXIDriverSingleton` | `holders`, the drivers with the finalizer |
| `CXIDriverReconcile` | the pass over the components of the active driver (161-344, 909-1116) | `obj`, `ds`, `wh` and their caches; `queued`, `work`; `asked` is what the user wrote |
| `DriverValidator` | `CXIDriverValidator.Handle` as an operator on specs, and what a spec becomes when the operator writes it back (`Stored`) | |
| `SidecarInjector` | `SidecarInjector.Handle` as an operator on pods, and whether the container it adds can run (`runSingleMode`) | |
| `ComponentConfig` | extends both: a spec's way through admission, the finalizer's update and the templates to the flags of the processes, and to its deletion; a pod's way past the injector | `spec`, `life` and `deployed` (`status.driverVersion`) of the driver, `checked` whether its last write was judged; `template` and `process` of each component; `webhook` the driver's configuration; `decoder` the injector's; `pod` a pod in admission |
| `SourceArchive` | `extractTar`, `extractZip`, `prepareDKMSSource` as operators on archives, and the tree the archive's author packed | |
| `DriverInstall` | extends it: `ensureDriver` and the four sources, on a node that outlives the container | `template` and `agent`: the flags, step and readiness of the container; `srcdir` its source directory; `file` and `loaded`: modules on the node and in its kernel |
| `DriverAgent` | `updateDevices` and what it calls, of one or two agents on a node | `hw` the hardware; `dev` the CXIDevices, `node` the labels; `agent` the tick under way; `taken`, a history variable, the inventories that ticks began with |
| `DevicePlugin` | plugins, kubelet and pods; a plugin is the place of one CXIDriver's DaemonSet on the node | `plugin` the process that is there, until the DaemonSet goes; `sock` whose socket is at the path; `kubelet` its connection and ids; `pods` what each pod was given |
| `PreferredAllocation` | `selectPreferredDevices` as operators, over every small request | `numa`, `asked`, `answer` |
| `RetrySupervisor` | goroutines, processes and `Stop` | `pc` of each goroutine, `proc` and `cancelled` of its run, `running` and `restarts` of its `handlerProcess`; `stop`, `todo` of `Stop`; `late` counts launches after it began |
| `ProcessSupervisor` | what a supervisor promises, without its goroutines: the abstract specification of `RetrySupervisor` | `process`, `reported`, `phase`; `spare`, the devices that may be started once more |
| `RetryMetrics` | extends `RetrySupervisor`'s counting with the exporter's scrape | `asking`, `up`, `count`: the answer of a scrape; `seen` is `lastRestartCounts`; `metric`, `gauge`; `failures` what really happened |
| `CXIDriverSingletonProofs`, `CXIDriverReconcileProofs`, `ComponentConfigProofs`, `DriverInstallProofs`, `DriverAgentProofs`, `DevicePluginProofs`, `PreferredAllocationProofs`, `RetryHandlerProofs` | theorems | |
| `MC*` | constants, symmetry sets and views for TLC | |

`CXIDriverReconcile` takes up where `CXIDriverSingleton` ends: what that module
calls deploying and reporting in one step each is there one step per component.
`ComponentConfig` looks into the templates that both of them only date.

`RetrySupervisor` implements `ProcessSupervisor` (`KeepsPromise`). The mapping
reads off a goroutine's process whether the device has one, whether it is alive
or has ended without the goroutine's notice, and takes `running` as it is; the
supervisor is closing from the moment `Stop` closes `stopCh`, and closed when it
returns. A late launch, which `late` counts, uses up the device's `spare`.

`CXIDriverSingleton` implements `SingleHolder` (`KeepsSingleton`) only in the
behaviours in which each reconcile reads the ConfigMap entry as it is stored
(`ReadsAreFresh`), which the informer cache does not grant.

Conventions. One action stands for the code between two calls that others can
see (API calls, system calls, locks), with every change it makes. A failed call
is a disjunct of the action and consumes a fault of `MaxFaults`; it either had
no effect or had it and lost its answer. Definitions below a comment `Slip:` are
variations of the next definition with a plausible mistake in it; no
specification uses them. `PROJECT.json` lists which property tells each of them
from the real one.

What is external is modelled from how the code uses it: the API server
(optimistic concurrency, finalizers, garbage collection by owner), informer
caches, kubelet, DaemonSet controller, `/sys/class/cxi`, `cxi_rh`.

## 3. The checks

All runs are `tlc -config <run>.cfg MC<module>.tla`; `PROJECT.json` names the
module, the properties of each run, and for each property a definition
that breaks it (`mutants`).

### What holds

| Run | Question | Bounds |
| --- | --- | --- |
| `SingletonSafety` | Do DaemonSets belong only to drivers with the finalizer, and is an entry that was judged free of no managed driver up to the write? | 2 drivers, one created twice, 1 operator, 1 fault |
| `SingletonLive` | Does the entry come to name a live driver that is deployed, and is the other one told that it is ignored? | 2 drivers created once, periodic resync, no fault |
| `ReconcileSafety` | Does a pass work only on a driver that exists? Is all that the spec asks for deployed, and the status true, when the operator is at rest? | 2 components, 2 incarnations, 2 generations, 1 fault |
| `ReconcileLive` | Does a deletion end? Does the operator settle on one status but for its times, and come to rest unless these change for ever? | agent and retry handler, daemonset and sidecar mode, 2 pod reports, 2 seconds, 1 fault; a second generation by the finalizer's write alone |
| `ConfigLive` | Does a driver that was admitted come to be managed or gone? Do the DKMS release and the retry handler's address arrive? Has an admitted pod one sidecar at most? | agent and exporter; manifests: complete, sidecar mode with the handler switched off, version only; validator registered at any moment or never; 2 edits or deletions; a pod that asks and one with a copied sidecar; both installations |
| `Install` | Does ready mean loaded? Are DKMS's sources whole? Does an interrupted installation complete? | 2 releases, 4 sources, a nested zip and a flat tgz cut at any entry, 1 edit, 2 crashes or reboots, 1 failing step |
| `Agent` | Is no label of others lost, do labels never mix two inventories, do labels and CXIDevices come to describe the hardware? | 2 agents, 2 devices that have a NID or none, 2 changes, 1 fault |
| `Plugin` | Is sharing bounded across restarts? Are the devices of a plugin that starts after the last restart and removal offered in the end? | both modes, 2 plugins, 2 devices, 1 slot, 2 pods, 1 change, 2 faults, 1 DaemonSet that goes, 1 kubelet restart |
| `PreferExclusive` | Has the answer the size asked for, the required devices, and near ones first? | all requests over 3 devices, 2 NUMA nodes and an unknown node |
| `Supervisor` | Do the goroutines implement the abstract supervisor? At most one late process, nothing left after Stop; are processes restarted, and does Stop return unless one started late? | 2 devices, 2 exits each |
| `Metrics` | Is the counter behind and growing, and does the exporter come to know the count? | 1 device, 2 exits, 1 restart of each side, 1 lost answer |

Why the bounds are enough. The hazards of the controller need at most two
drivers (one that holds the entry and one that takes it), one operator more than
allowed, and one reuse of a name; devices and handlers do not interact with each
other except in `Stop`, in the labels of one Node and in the allocation of one
resource, for which two of them make every order of events. A second
fault repeats what the first can do, since an action fails alike whenever it is
taken. Where theorems exist they remove the bounds altogether. `SingletonLive`
has no faults because a fault is a requeue, which the conflicts with users' writes
and stale caches make too; `ReconcileLive` has one.

A condition's `LastTransitionTime` has whole seconds, and a status write changes the
object if one of them is another than before. Only the worker writes the status, once
in a pass, from a copy that has the times of the last write or of one before; `Stamped`
gives what changes in a pass the time `Now`, and `Written` makes a second of it. Two
`Seconds` are enough to say whether a write falls into that of the last one. They are
told apart in `ReconcileLive`, where a write that changes nothing else wakes another
pass; the properties of `ReconcileSafety` are not about times, and one is enough.

`Agent` has one link state, `up`, since labels do not depend on it; `AgentVanished`
has all three. Three pods and two slots show nothing in `Plugin` that two pods and one
slot do not: a pod that waits for the capacity another one has used up.

`SYMMETRY` is used only in configurations without liveness, over sets of model
values that no definition distinguishes. The `SafetyView`s leave out one variable
that no action reads and the run's properties do not mention (`report` in
`CXIDriverSingleton`, `asked` in `CXIDriverReconcile`), so states that agree on
the view have the same successors in it. Deadlock is checked for `DriverAgent`,
whose agents tick for ever; the other models stop when their bounds are used up
or the program has ended, and say `CHECK_DEADLOCK FALSE`.

Three more configurations hold and stand beside the runs:
`SingletonFresh` (`SingleManager` and `KeepsSingleton` where the constraint
`ReadsAreFresh` holds, as the theorems say for any number of drivers),
`SingletonOneDriver` (with one driver and two faults, deletions end and the
holder of the entry is deployed, also over DaemonSets of an earlier driver of its
name, on watch events and retries alone) and `SingletonTwoOperators`
(`DeployedHasFinalizer` with two operators, which the theorem covers for any
number).

### What the code does otherwise than it says

`SingletonManagers` is the run of `PROJECT.json` that ends with a counterexample:
`isActiveCXIDriver` finds the entry empty in a stale cache;
`setActiveCXIDriver` reads it again, now with the other driver's name, and
overwrites it. Both drivers are deployed, against README.md:514, "Only one
CXIDriver can be active". `FreshReadsKeepOneManager` (section 4) proves that nothing
else is needed to keep them apart. Both reads have to be fresh: with that of
`isActiveCXIDriver` alone, and a driver that is created three times, the pass of
a driver that is gone clears another's entry.

The configurations below end with one as well. Each checks one sentence of the
repository; `ReconcileClaims`, `ConfigClaims` and `InstallClaims` list several properties, to be
checked one at a time (lines of `internal/controller/cxidriver_controller.go` are given
without the path).

| Configuration | Sentence | What TLC shows |
| --- | --- | --- |
| `ReconcileWebhook` | 1100: "Clean up webhook if sidecar mode was used" | From sidecar to another mode, then deletion: the webhook configuration stays (1101). |
| `ReconcileClaims`: `SpecIsAsked` | api/v1/cxidriver_types.go:183: "Enabled specifies whether the device plugin is enabled" | Adding the finalizer (164) writes `enabled: false` back as absent, and the default makes it true. |
| `ReconcileClaims`: `NothingLeftOver` | README.md:310: "`none` \| Disable retry handling" | A disabled component keeps its DaemonSet (189). |
| `ReconcileClaims`: `ComesToRest` | 940: "All components deployed" | Each pass takes `Progressing` to true (171) and back (937); if its status write falls into another second than the last, `For` without a predicate (1119) wakes another pass, and so for ever. `Converges` says that nothing but the times changes then. |
| `ConfigClaims`: `SourceArrives` | api/v1/cxidriver_types.go:118: "Type specifies how the driver is installed" | `DRIVER_SOURCE_TYPE` is read by no flag (cmd/driver-agent/main.go:45). |
| `ConfigClaims`: `SharingArrives` | api/v1/cxidriver_types.go:195: "SharingMode defines how devices are shared among pods" | `SHARING_MODE` is read by no flag (cmd/device-plugin/main.go:36). |
| `ConfigClaims`: `HandlerRuns` | README.md:307: "One retry handler pod per node" | The retry handler is started with `--discover` (688), which it does not define, and exits. |
| `ConfigClaims`: `VersionIsDeployed` | api/v1/cxidriver_types.go:290: "DriverVersion is the currently deployed driver version" | The status names the version asked for (925). |
| `ConfigClaims`: `AdmittedIsServedAlways` | api/v1/cxidriver_types.go:250: "Source defines where to get the driver from", "+optional" | A driver without a source section is admitted. The operator's write of it has an empty section, which the schema fills with `type: dkms`, and is denied for the lack of a repository (pkg/webhook/cxidriver_validator.go:69), again and again; if the section is removed from a driver that is managed, the removal of the finalizer is denied and the deletion hangs. |
| `ConfigClaims`: `PodsAreAdmitted` | README.md:308: "Inject retry handler into application pods" | Nothing calls `InjectDecoder`: the handler panics on its nil decoder (pkg/webhook/sidecar_injector.go:74), the panic is answered as an error, and the API server refuses the pod; `failurePolicy: Ignore` is about calls without an answer. |
| `ConfigClaims`: `SidecarServes` | README.md:308, the same | A pod that asks by annotation, or whose init containers alone ask for devices, gets a sidecar without `--device` (pkg/webhook/sidecar_injector.go:230), which exits. |
| `InstallClaims`: `DriverComesUp` | README.md:11: "automates the deployment and management of CXI network drivers" | A download that fails once leaves the node without a driver (pkg/driveragent/agent.go:147). |
| `InstallClaims`: `ReadyIsConfigured` | api/v1/cxidriver_types.go:246: "Version is the driver version to install" | `modprobe` does nothing while the old module is loaded, and the agent is ready (pkg/driveragent/agent.go:230). |
| `InstallClaims`: `AddedSourceIsWhole` | pkg/driveragent/agent.go:253: "Download and extract the source archive (supports .tar.gz, .tgz, .zip)" | With every archive `downloadAndExtract` takes: a zip's symbolic links become files that hold their targets (pkg/driveragent/download.go:184), and a plain tar, which comes without a checksum, is taken for whole if its connection ends between two entries and the server gave no length (116). |
| `AgentVanished` | api/v1/cxidevice_types.go:171: "It represents a discovered CXI device on a node and is auto-managed by the operator." | The CXIDevice of a device that is gone keeps a healthy status (pkg/driveragent/agent.go:383). |
| `PluginKubelet` | README.md:14: "Expose CXI devices as Kubernetes extended resources" | The plugin registers once, when it starts (pkg/deviceplugin/plugin.go:146): not after a kubelet restart, and not when the plugin of another CXIDriver, which the kubelet was connected to, goes. |
| `PluginNewDevice` | pkg/deviceplugin/plugin.go:506: "In shared mode, all pods get access to all devices" | Devices found after `Start` are not given to shared pods (102). |
| `PreferShared` | pkg/deviceplugin/plugin.go:381: "It ensures mustInclude devices are always in the result" | Shared mode ignores what must be included (389). |
| `PreferOneNode` | pkg/deviceplugin/plugin.go:358: "It tries to allocate devices from the same NUMA node when possible." | The preferred node may be too small when another is not (425). |
| `SupervisorStop` | pkg/retryhandler/supervisor_test.go:443 fails with "Stop timed out" | `Stop` cancels before the next cancel function is stored, and waits for ever (pkg/retryhandler/supervisor.go:155). |
| `MetricsTotal` | pkg/metrics/exporter.go:79: "Total number of retry handler restarts" | The first count seen is not added (283). |
| `MetricsGauge` | pkg/metrics/exporter.go:70: "Whether retry handler is running for device (1=running, 0=stopped)" | A handler that does not answer stays at 1 (266). |

### Fairness

- Controller: weak fairness of the steps of a pass and of the watches, and strong
  fairness of taking each key from the queue, which is first-in first-out:
  controller-runtime's worker and informers run. Faults have none, and are
  bounded. Users have none. `ResyncSpec` adds the periodic resync of the
  informers (ten hours by default), which requeues every driver; the properties
  of `SingletonLive` do not hold without it, because an ignored driver is not
  requeued and nothing watches the ConfigMap.
- Supervisor: goroutines go on, timers fire, a cancelled process is killed.
  Nothing makes a process exit by itself or the signal arrive.
- Metrics: the ticker fires, and requests are answered but for `MaxLost` times.
- Agent: ticks and calls go on. Plugin: while there is the DaemonSet, the kubelet
  starts ended containers again and the DaemonSet controller replaces the pod that
  `Stop` ended; so `Discover` is taken again in the place of the plugin, by another
  process. What is gone does not come back, and nothing makes a plugin register
  again. The kubelet calls back a plugin that registered. Installation: steps end and the
  DaemonSet controller replaces pods.
- Configuration: a pass follows every edit and a denied write is tried again (a
  requeue in 5 seconds), roll-outs complete, what has no owner is collected. Users,
  administrators and pods have no fairness.

## 4. The proofs

Run `tlapm` on the eight `*Proofs` modules. The constants are arbitrary sets and
natural numbers, as the named assumptions of the modules say; the assumptions are
evaluated by TLC in every run of the module.

- `CXIDriverSingletonProofs`. `DeployedHasFinalizer` is not inductive: a pass
  deploys from its copy of the driver, which may be outdated. The strengthening
  says that copies are of the past: uids only grow, a copy with the
  finalizer is of an incarnation that still has it or is over, and so are
  cached copies, and owners of DaemonSets are never of the future. It holds for
  any number of operators. `JudgedEntryIsFree` needs in addition that there is
  one operator: then only the pass that judged an entry can admit a driver, and
  an entry from an old cache names a driver that was absent from the cache too.
  `FreshReadsKeepOneManager` and the refinement `FreshReadsKeepTheSingleton` go on
  from there, with `ReadsAreFresh` as hypothesis. `FreshInv` adds that a managed
  driver has the entry (`EntryNamesManaged`), and that a pass that has judged the
  entry goes on with what is stored, as nobody else writes it (`WorkHoldsEntry`).
  So nobody is managed when the entry is written (`WriterIsAlone`).
- `RetryHandlerProofs`. The supervisor's strengthening ties each goroutine's position to
  its process and flags, and the count of late launches to the positions
  from which another is still possible. `SupervisorKeepsPromise` uses it for the
  refinement: the initial states map to initial states, and under the invariant
  each step is one of the abstract supervisor or changes nothing it sees. The
  invariant is needed for the launch (at most one is late), for the report (only
  of a process) and for the return of `Stop` (nothing is left).
  For the exporter, which the second half of the module is about, it keeps the sum in
  view: what the counter has and what is still to be gained from the supervisor's
  count or from an answer under way is at most what happened. `MetricOnlyGrows`
  follows from the type of the gain.
- `ComponentConfigProofs`. `OneSidecar` speaks of admitted pods; the
  strengthening says it of a pod at every stage of its admission. Two
  containers of a pod never have the same name (`PodSpecsAssumption`), so a pod
  comes with one at most; the injector's answer keeps that.
- `DriverInstallProofs`. Only `LoadModule` makes an agent ready, and only a reboot,
  which takes the agent along, unloads a module. The strengthening is `TypeOK`,
  with what `modprobe` looks at (so that what it loads is a release) and with
  the agent's step, which is never past the last of its source (`LoadIsLast`:
  each source ends with the load).

  `WholeSourcesAreAdded` is about what the agent does with archives, and about what
  archives become. No failure, restart or reboot lets DKMS have anything but what
  extraction and preparation made of one archive. And that is what its author
  packed (`PreparedIsPacked`), for archives of any length: after n entries the tree
  has the paths of these entries and their directories, each of the kind it was
  packed with (`ExtractedIsPacked`), and its one directory at the top, if it has
  only one, is the one all paths begin with (`CommonIsNested`). That is an induction
  over the entries of the recursive function `Extract`, which the prover has no
  rule for. `AllNumbers` stands in for it: a set of numbers that has 0 and with n
  also n + 1 has all, since a proper part of an initial segment of them could be
  mapped one to one into itself without 0 (`FS_Injection`). `ExtractTurns` uses it to
  show that the recursion defines a function at all. The hypothesis,
  `ArchivesAreSound`, names what is left to the archive: it is a file tree (one kind
  per path, and only directories have paths below them), a download of it that stops
  short is noticed, and it is no zip with links. The archives of `Install` are such;
  those of `InstallClaims` are all file trees, and the two sentences about
  `AddedSourceIsWhole` above are the other two conditions.
- `CXIDriverReconcileProofs`, for any components, specs, incarnations and
  generations. `PassIsOnLiveDriver` says of a pass that deploys that its driver
  exists and has the finalizer; the pass took it from the cache, which may be
  older than anything. `PassInv` is inductive: copies are of the past
  (`CopiesAreOld`); what was seen deleting is deleting until it is gone
  (`DeletionIsFinal`); and what the cache shows with the finalizer and not
  deleting exists and has it still, since only the worker removes it
  (`FinalizerHolds`). `RestIsDeployed` and `RestIsReported` speak of an operator at
  rest. `RestInv` says how it comes to rest: as long as nothing has come from the
  watches since the pass began, all components the pass is past are applied, for
  the generation in its hands, and counted in the status it is about to write
  (`UndisturbedPass`); when it ends without being queued again, all of them are
  and the status is written (`AtRest`), with `Progressing`, which the pass set, as
  `updateStatus` left it. `SidecarAssumption` ties sidecar mode to
  the retry handler being one of the components that are modelled; a spec with
  that mode and no such component would have a webhook nobody deploys.
- `DriverAgentProofs`, for any number of agents. `updateNodeLabels` writes the
  whole Node from a copy. The API server takes it only while the copy is what
  the Node is, so a write from an older one is lost, never the label. The main
  lemma, `NodeSteps`, says who writes the Node and how: a user the one label, an
  agent the labels of one inventory. `LabelsOfOneInventory` says that nothing
  else is on the Node: the labels are `Relabelled` for one inventory out of `taken`.
  It needs that an agent works with an inventory it took (`WorksWithTaken`), and that
  a write from a copy that is still the Node leaves nothing of the inventory before.
- `DevicePluginProofs`. `SharingIsBounded` counts the pods a device is mounted in.
  `SharingInv` says where the mounts come from: the ids of two pods are disjoint
  whatever plugin or kubelet was restarted meanwhile, the ids of a pod are those
  of the mode, and in exclusive mode a pod has mounted only its ids. Then the
  pods with a device are mapped one to one to slots (`FS_Injection`), or
  there is one of them. `Slots` is finite: its number is an `int32`.

  `SteadyDevicesReachPods` is the other side of `PluginNewDevice`: with the hypothesis
  that no device comes or goes (`SteadyDevices`) and any number of plugins, crashes and
  restarts, `SharedPodsGetAllDevices` holds, and `Allocate` passes over no id of an
  exclusive pod. `SteadyInv` says that every running plugin has the devices of the
  node, and that ids which were offered or given in exclusive mode are among them.
  The hypothesis is needed for both: TLC refutes each after one change.
- `PreferredAllocationProofs`. The answer is the beginning of one sequence that has
  every available device once (`OrderedHasAll`): the required ones, then the others of
  the preferred node, then the rest. What a loop over the available devices
  keeps (`Kept`) is given by rank, the k-th kept device being the one with
  k - 1 kept ones before it, and `PlaceOfRank` says by counting that there is exactly
  one. `RequestIsAnswered` holds in both modes. `RequiredAreIncluded` and
  `NearComesFirst` have the hypothesis that the mode is exclusive, as the run has:
  in shared mode the code ignores what must be included (`PreferShared`).

The invariants `PassInv`, `FreshInv`, `RestInv` and `SharingInv` were checked with TLC on the
constants of the runs of their modules before they were proved, `SteadyInv` on those of
`Plugin` with two pods and no change of the devices.

Only model-checked: all liveness (`SingletonIsServed`, `OthersAreReported`,
`DeletionCompletes`, `Converges`, `KeepsTrying`, `StopCompletesUnlessLate`,
`ScrapesCatchUp`, `LabelsSettle`, `DevicesAreReported`, `OfferedAfterStart`,
`DriverComesUpUnlessAStepFails`, `AdmittedIsServed`, `ReleaseArrives`,
`ExporterAsksItsHandler`): the prover has neither fairness nor `ENABLED`. Every
safety property of the runs is proved.

## 5. What is not modelled

- `WatchDevices` and `pollDevices`: they have no caller in the repository.
- Device and driver gauges of the exporter: copied from sysfs at every tick,
  nothing is kept. The health endpoint of the driver agent: it reads two fields.
- Images, resources, mounts, probes, tolerations; the package name and version
  that are put into dkms.conf, symvers and the compilers' environment, what a
  build computes, and the copy of the Cassini headers; parsing of flags and
  environment.
- Warnings of the validator, the semver pattern, changes of the image and the
  resources of the sidecar.
- A build of the agent's sources whose contents are damaged inside an entry:
  what gzip, zip and tar check of it is taken as it is.
- Manifests and Helm chart, except for the defaults the controller depends on and
  the webhook configurations and services they install.
- Generated deep copies, API registration.
- Time: intervals and backoffs are "at some moment". That the status of a condition is
  stamped in whole seconds is modelled (`Stamped`, `Written`).
- The health server of the device plugin.
- `DiscoverDevices` reads sysfs file by file; a tick takes the inventory in one step.

One thing about the code that is modelled and not a property: without a retry
handler in the spec the exporter is not given `--retry-handler-url`, and its
default asks `localhost:8080`, where no handler was asked for
(internal/controller/cxidriver_controller.go:791, cmd/metrics-exporter/main.go:43).

## 6. Plan

Done: controller (singleton, then the pass), supervisor with its abstract
specification, metrics, agent, installation with its archives, plugin, preferred
allocation, configuration with both webhooks; proofs of every safety property the
runs check, and of the refinement of both abstract specifications.

1. An abstract specification of the kubelet's allocation of a resource, which
   `SharingInv` is most of.
2. `DeviceWatcher`: `WatchDevices` with debounce and polling, once something
   calls it.

---------------------------- MODULE DevicePlugin ----------------------------
(***************************************************************************)
(* The device plugin (pkg/deviceplugin/plugin.go) and the kubelet it       *)
(* registers with.  A plugin discovers the devices once, listens on a      *)
(* socket whose path is fixed, and registers; the kubelet then calls it    *)
(* back over that socket: ListAndWatch for the list of devices, Allocate   *)
(* for each container that was given some of them.                         *)
(*                                                                         *)
(* Devices appear and vanish (the driver agent loads the driver), plugins  *)
(* are stopped and crash, the kubelet restarts, pods come and go.          *)
(*                                                                         *)
(* A plugin is here the place that the DaemonSet of one CXIDriver has on   *)
(* the node: a pod that is replaced, by a roll-out say, ends before its    *)
(* successor starts, and so there are two plugins at a time only where two *)
(* CXIDrivers are deployed at once.  With its CXIDriver a DaemonSet goes,  *)
(* and the plugin is gone for good.                                        *)
(*                                                                         *)
(* Nothing is ever sent to the plugin's channel "health": the first answer *)
(* of ListAndWatch is the only one.                                        *)
(***************************************************************************)
EXTENDS Naturals, FiniteSets

CONSTANTS
    Plugins,           \* plugins of the node, by the DaemonSet they belong to
    NoPlugin,          \* no process answers
    Devices,           \* names of physical devices
    Slots,             \* ids of the virtual devices: SharedCapacity many
    Modes,             \* values of the flag --sharing-mode
    Pods,              \* pods that ask for the resource
    MaxUnits,          \* bound: ids one pod asks for
    MaxChanges,        \* bound: devices that appear or vanish
    MaxFaults,         \* bound: crashes, stops and failed registrations
    MaxKubeletRestarts,\* bound: restarts of the kubelet
    MaxRemovals        \* bound: DaemonSets that go

ASSUME ModesAssumption == Modes \subseteq {"shared", "exclusive"} /\ Modes # {}
ASSUME NoPluginAssumption == NoPlugin \notin Plugins
ASSUME IdsAssumption == IsFiniteSet(Slots) /\ Slots \cap Devices = {}
ASSUME PluginBoundsAssumption ==
    {MaxUnits, MaxChanges, MaxFaults, MaxKubeletRestarts, MaxRemovals} \subseteq Nat

VARIABLES
    mode,     \* the flag --sharing-mode of the DaemonSet's template
    hw,       \* the devices in /sys/class/cxi
    plugin,   \* what each plugin does, and the devices it discovered
    sock,     \* whose socket is at the plugins' path; it may no longer be served
    kubelet,  \* whom the kubelet is connected to, and the ids it has to give
    pods,     \* what the kubelet gave each pod and the plugin mounted
    bounds    \* changes, failures, restarts and removals still to come

vars == <<mode, hw, plugin, sock, kubelet, pods, bounds>>

-----------------------------------------------------------------------------
Ids == Slots \cup Devices

Down == [pc |-> "down", devices |-> {}]
Gone == [pc |-> "gone", devices |-> {}]
Disconnected == [conn |-> NoPlugin, streaming |-> FALSE, offered |-> {}]
NoPod == [phase |-> "none", ids |-> {}, mounts |-> {}]

Plugin == [pc : {"gone", "down", "discovered", "listening", "ready"}, devices : SUBSET Devices]
Kubelet == [conn : Plugins \cup {NoPlugin}, streaming : BOOLEAN, offered : SUBSET Ids]
Pod == [phase : {"none", "asked", "running"}, ids : SUBSET Ids, mounts : SUBSET Devices]
Bounds == [changes : Nat, faults : Nat, kubelet : Nat, removals : Nat]

\* A plugin whose process is up answers at the socket that is its own.
Serves(p) == p # NoPlugin /\ plugin[p].pc \in {"listening", "ready"}

TypeOK ==
    /\ mode \in Modes
    /\ hw \subseteq Devices
    /\ plugin \in [Plugins -> Plugin]
    /\ sock \in Plugins \cup {NoPlugin}
    /\ kubelet \in Kubelet
    /\ kubelet.conn # NoPlugin => Serves(kubelet.conn)
    /\ pods \in [Pods -> Pod]
    /\ bounds \in Bounds

Init ==
    /\ mode \in Modes
    /\ hw \in SUBSET Devices
    /\ plugin = [p \in Plugins |-> Down]
    /\ sock = NoPlugin
    /\ kubelet = Disconnected
    /\ pods = [q \in Pods |-> NoPod]
    /\ bounds = [changes |-> MaxChanges, faults |-> MaxFaults,
                 kubelet |-> MaxKubeletRestarts, removals |-> MaxRemovals]

Spend(bound) == bounds[bound] > 0 /\ bounds' = [bounds EXCEPT ![bound] = @ - 1]

-----------------------------------------------------------------------------
(***************************************************************************)
(* The plugin: Start, Stop, and the end of its process.                    *)
(***************************************************************************)

\* The end of p's process ends the stream and whatever the kubelet was asking: to it
\* the devices are no longer healthy.  p is down until it is started again, or gone.
Ends(p, as) ==
    /\ plugin' = [plugin EXCEPT ![p] = as]
    /\ kubelet' = IF kubelet.conn = p THEN Disconnected ELSE kubelet

Discover(p) ==
    /\ plugin[p].pc = "down"
    /\ plugin' = [plugin EXCEPT ![p] = [pc |-> "discovered", devices |-> hw]]
    /\ UNCHANGED <<mode, hw, sock, kubelet, pods, bounds>>

\* Whatever socket is at the path is removed.
Listen(p) ==
    /\ plugin[p].pc = "discovered"
    /\ plugin' = [plugin EXCEPT ![p].pc = "listening"]
    /\ sock' = p
    /\ UNCHANGED <<mode, hw, kubelet, pods, bounds>>

\* Slip: the plugin is ready before it has registered, and stays so without.
RegisterOrNot(p) ==
    /\ plugin[p].pc = "listening"
    /\ plugin' = [plugin EXCEPT ![p].pc = "ready"]
    /\ \/ /\ Serves(sock)
          /\ kubelet' = [kubelet EXCEPT !.conn = sock, !.streaming = FALSE]
          /\ UNCHANGED bounds
       \/ Spend("faults") /\ UNCHANGED kubelet
    /\ UNCHANGED <<mode, hw, sock, pods>>

\* The kubelet answers once it has dialled the socket, whoever serves it by then.
Register(p) ==
    /\ plugin[p].pc = "listening"
    /\ \/ /\ Serves(sock)
          /\ plugin' = [plugin EXCEPT ![p].pc = "ready"]
          /\ kubelet' = [kubelet EXCEPT !.conn = sock, !.streaming = FALSE]
          /\ UNCHANGED bounds
       \/ ~Serves(sock) /\ Ends(p, Down) /\ UNCHANGED bounds
       \/ Ends(p, Down) /\ Spend("faults")
    /\ UNCHANGED <<mode, hw, sock, pods>>

Crash(p) ==
    /\ plugin[p].pc \notin {"down", "gone"}
    /\ Ends(p, Down)
    /\ Spend("faults")
    /\ UNCHANGED <<mode, hw, sock, pods>>

\* Slip: the socket alone is removed and the calls under way are not ended.
StopAtOnce(p) ==
    /\ plugin[p].pc = "ready"
    /\ plugin' = [plugin EXCEPT ![p] = Down]
    /\ sock' = NoPlugin
    /\ Spend("faults")
    /\ UNCHANGED <<mode, hw, kubelet, pods>>

\* SIGTERM: the pod is replaced.  Stop removes the socket at the path, be it its own
\* or not.
Stop(p) ==
    /\ plugin[p].pc = "ready"
    /\ Ends(p, Down)
    /\ sock' = NoPlugin
    /\ Spend("faults")
    /\ UNCHANGED <<mode, hw, pods>>

\* The DaemonSet is deleted, and the pod with it: SIGTERM, for which main waits once
\* Start has returned, and no successor.
Remove(p) ==
    /\ plugin[p].pc # "gone"
    /\ Ends(p, Gone)
    /\ sock' = IF plugin[p].pc = "ready" THEN NoPlugin ELSE sock
    /\ Spend("removals")
    /\ UNCHANGED <<mode, hw, pods>>

-----------------------------------------------------------------------------
(***************************************************************************)
(* The calls of the kubelet.                                               *)
(***************************************************************************)

DeviceList(p) == IF mode = "shared" THEN Slots ELSE plugin[p].devices

ListAndWatch ==
    /\ kubelet.conn # NoPlugin
    /\ ~kubelet.streaming
    /\ kubelet' = [kubelet EXCEPT !.streaming = TRUE, !.offered = DeviceList(kubelet.conn)]
    /\ UNCHANGED <<mode, hw, plugin, sock, pods, bounds>>

Taken == UNION {pods[q].ids : q \in Pods}

\* The kubelet admits a pod with ids of its choice among those no other pod has.
Admit(q, ids) ==
    /\ pods[q].phase = "none"
    /\ ids \subseteq kubelet.offered \ Taken
    /\ Cardinality(ids) \in 1..MaxUnits
    /\ pods' = [pods EXCEPT ![q] = [phase |-> "asked", ids |-> ids, mounts |-> {}]]
    /\ UNCHANGED <<mode, hw, plugin, sock, kubelet, bounds>>

\* Slip: every pod gets every device, whatever the mode.
MountsAll(p, ids) == plugin[p].devices

\* An id that is not the name of a device of this plugin is passed over.
Mounts(p, ids) ==
    IF mode = "shared" THEN plugin[p].devices ELSE ids \cap plugin[p].devices

\* The pod is refused when there is no plugin to ask.
Allocate(q) ==
    /\ pods[q].phase = "asked"
    /\ pods' = [pods EXCEPT
                  ![q] = IF kubelet.conn = NoPlugin THEN NoPod
                         ELSE [@ EXCEPT !.phase = "running",
                                        !.mounts = Mounts(kubelet.conn, pods[q].ids)]]
    /\ UNCHANGED <<mode, hw, plugin, sock, kubelet, bounds>>

PodEnds(q) ==
    /\ pods[q].phase = "running"
    /\ pods' = [pods EXCEPT ![q] = NoPod]
    /\ UNCHANGED <<mode, hw, plugin, sock, kubelet, bounds>>

\* The kubelet empties the directory of the sockets when it starts, and remembers the
\* pods that run.
RestartKubelet ==
    /\ sock' = NoPlugin
    /\ kubelet' = Disconnected
    /\ pods' = [q \in Pods |-> IF pods[q].phase = "asked" THEN NoPod ELSE pods[q]]
    /\ Spend("kubelet")
    /\ UNCHANGED <<mode, hw, plugin>>

HardwareChanges(d) ==
    /\ hw' = IF d \in hw THEN hw \ {d} ELSE hw \cup {d}
    /\ Spend("changes")
    /\ UNCHANGED <<mode, plugin, sock, kubelet, pods>>

PluginStarts(p) == Discover(p) \/ Listen(p) \/ Register(p)
PluginEnds(p) == Crash(p) \/ Stop(p) \/ Remove(p)

Next ==
    \/ \E p \in Plugins : PluginStarts(p) \/ PluginEnds(p)
    \/ ListAndWatch \/ RestartKubelet
    \/ \E q \in Pods : Allocate(q) \/ PodEnds(q) \/ \E ids \in SUBSET Ids : Admit(q, ids)
    \/ \E d \in Devices : HardwareChanges(d)

Spec == Init /\ [][Next]_vars

\* The kubelet restarts a container that ended and the DaemonSet, while there is one,
\* replaces its pod; the process runs on, and the kubelet calls back whoever it is
\* connected to.
FairSpec == Spec /\ WF_vars(ListAndWatch) /\ \A p \in Plugins : WF_vars(PluginStarts(p))

-----------------------------------------------------------------------------
(***************************************************************************)
(* Properties.                                                             *)
(***************************************************************************)

Users(d) == {q \in Pods : d \in pods[q].mounts}

\* Sharing is what the mode says, across every restart: an exclusive device is in one
\* pod, a shared one in no more pods than the capacity.
SharingIsBounded ==
    \A d \in Devices :
        Cardinality(Users(d)) <= IF mode = "shared" THEN Cardinality(Slots) ELSE 1

\* The kubelet offers what a plugin has.
Offered ==
    \E p \in Plugins : /\ kubelet.conn = p /\ kubelet.streaming
                       /\ kubelet.offered = DeviceList(p)

\* A plugin that starts after the kubelet's last restart and after the last removal gets
\* the devices offered, through failed registrations, crashes and another plugin that
\* takes the socket away.
OfferedAfterStart ==
    \A n \in 0..(MaxKubeletRestarts + MaxRemovals) :
        <>(/\ \E p \in Plugins : plugin[p].pc = "discovered"
           /\ [](bounds.kubelet + bounds.removals = n))
            => <>[]Offered

\* "Expose CXI devices as Kubernetes extended resources": where a plugin stays, the
\* devices come to be offered.  A plugin registers once, when it starts.
DevicesAreOffered ==
    (\E p \in Plugins : [](plugin[p].pc # "gone")) => <>[]Offered

\* "In shared mode, all pods get access to all devices" there are on the node.
SharedPodsGetAllDevices ==
    [][mode = "shared" =>
         \A q \in Pods : (pods[q].phase = "asked" /\ pods'[q].phase = "running")
                            => pods'[q].mounts = hw]_vars
=============================================================================

-------------------------- MODULE DevicePluginProofs --------------------------
(***************************************************************************)
(* What holds of DevicePlugin for any plugins, devices, pods and capacity, *)
(* and for every bound.                                                    *)
(***************************************************************************)
EXTENDS DevicePlugin, FiniteSetTheorems, TLAPS

(***************************************************************************)
(* Type correctness.                                                       *)
(***************************************************************************)
ConnectedIsUp == kubelet.conn # NoPlugin => Serves(kubelet.conn)

LEMMA InitialType ==
    /\ Down \in Plugin /\ Gone \in Plugin /\ Disconnected \in Kubelet /\ NoPod \in Pod
    /\ Disconnected.conn = NoPlugin /\ Disconnected.offered = {}
BY DEF Down, Gone, Plugin, Disconnected, Kubelet, NoPod, Pod

LEMMA InitType == Init => TypeOK
<1> SUFFICES ASSUME Init PROVE TypeOK
  OBVIOUS
<1>1. bounds \in Bounds
  BY PluginBoundsAssumption DEF Init, Bounds
<1>2. ConnectedIsUp
  BY InitialType DEF Init, ConnectedIsUp, Serves
<1> QED
  BY <1>1, <1>2, InitialType DEF Init, TypeOK, ConnectedIsUp, Serves

LEMMA SpendType ==
    ASSUME bounds \in Bounds, NEW b \in {"changes", "faults", "kubelet", "removals"},
           Spend(b) \/ UNCHANGED bounds
    PROVE  bounds' \in Bounds
<1>1. /\ bounds.changes \in Nat /\ bounds.faults \in Nat
      /\ bounds.kubelet \in Nat /\ bounds.removals \in Nat
  BY DEF Bounds
<1>2. bounds[b] > 0 => bounds[b] - 1 \in Nat
  BY <1>1
<1> QED
  BY <1>2 DEF Spend, Bounds

\* The end of a process takes the connection with it, and no other.
LEMMA EndsType ==
    ASSUME TypeOK, NEW p \in Plugins, NEW as \in {Down, Gone}, Ends(p, as)
    PROVE  /\ plugin' \in [Plugins -> Plugin]
           /\ kubelet' \in Kubelet
           /\ ConnectedIsUp'
<1> USE InitialType DEF TypeOK
<1>1. plugin' \in [Plugins -> Plugin] /\ kubelet' \in Kubelet
  BY DEF Ends
<1>2. CASE kubelet.conn = p
  BY <1>2 DEF Ends, ConnectedIsUp, Serves
<1>3. CASE kubelet.conn # p
  <2>1. kubelet' = kubelet /\ kubelet.conn \in Plugins \cup {NoPlugin}
    BY <1>3 DEF Ends, Kubelet
  <2>2. kubelet.conn # NoPlugin => plugin'[kubelet.conn] = plugin[kubelet.conn]
    BY <1>3, <2>1 DEF Ends
  <2>3. kubelet.conn # NoPlugin => plugin[kubelet.conn].pc \in {"listening", "ready"}
    BY DEF Serves
  <2>4. kubelet'.conn # NoPlugin => plugin'[kubelet'.conn].pc \in {"listening", "ready"}
    BY <2>1, <2>2, <2>3
  <2> QED
    BY <1>1, <2>4 DEF ConnectedIsUp, Serves
<1> QED
  BY <1>1, <1>2, <1>3

LEMMA PluginType ==
    ASSUME TypeOK, NEW p \in Plugins, PluginStarts(p) \/ PluginEnds(p) PROVE TypeOK'
<1>a. /\ mode \in Modes /\ hw \subseteq Devices /\ plugin \in [Plugins -> Plugin]
      /\ sock \in Plugins \cup {NoPlugin} /\ kubelet \in Kubelet /\ ConnectedIsUp
      /\ pods \in [Pods -> Pod] /\ bounds \in Bounds
  BY DEF TypeOK, ConnectedIsUp, Serves
<1>b. kubelet.conn \in Plugins \cup {NoPlugin}
  BY <1>a DEF Kubelet
<1>1. CASE Discover(p)
  <2>1. [pc |-> "discovered", devices |-> hw] \in Plugin
    BY <1>a DEF Plugin
  <2>2. plugin' \in [Plugins -> Plugin]
    BY <1>1, <1>a, <2>1 DEF Discover
  <2>3. ConnectedIsUp'
    BY <1>1, <1>a, <1>b DEF Discover, ConnectedIsUp, Serves
  <2> QED
    BY <1>1, <1>a, <2>2, <2>3 DEF Discover, TypeOK, ConnectedIsUp, Serves
<1>2. CASE Listen(p)
  <2>1. [plugin[p] EXCEPT !.pc = "listening"] \in Plugin
    BY <1>a DEF Plugin
  <2>2. plugin' = [plugin EXCEPT ![p] = [plugin[p] EXCEPT !.pc = "listening"]]
    BY <1>2, <1>a DEF Listen
  <2>3. plugin' \in [Plugins -> Plugin]
    BY <1>a, <2>1, <2>2
  <2>4. ConnectedIsUp'
    <3>1. p # kubelet.conn
      <4>1. plugin[p].pc = "discovered" /\ "discovered" \notin {"listening", "ready"}
        BY <1>2 DEF Listen
      <4>2. kubelet.conn = p => plugin[p].pc \in {"listening", "ready"}
        BY <1>a, NoPluginAssumption DEF ConnectedIsUp, Serves
      <4> QED
        BY <4>1, <4>2
    <3> QED
      BY <1>2, <1>a, <1>b, <2>2, <3>1 DEF Listen, ConnectedIsUp, Serves
  <2> QED
    BY <1>2, <1>a, <2>3, <2>4 DEF Listen, TypeOK, ConnectedIsUp, Serves
<1>3. CASE Register(p)
  <2>1. bounds' \in Bounds
    BY <1>3, <1>a, SpendType DEF Register
  <2>2. CASE Ends(p, Down)
    BY <1>3, <1>a, <2>1, <2>2, EndsType DEF Register, TypeOK, ConnectedIsUp, Serves
  <2>3. CASE /\ Serves(sock)
             /\ plugin' = [plugin EXCEPT ![p].pc = "ready"]
             /\ kubelet' = [kubelet EXCEPT !.conn = sock, !.streaming = FALSE]
    <3>1. [plugin[p] EXCEPT !.pc = "ready"] \in Plugin
      BY <1>a DEF Plugin
    <3>2. plugin' = [plugin EXCEPT ![p] = [plugin[p] EXCEPT !.pc = "ready"]]
      BY <1>a, <2>3
    <3>3. plugin' \in [Plugins -> Plugin]
      BY <1>a, <3>1, <3>2
    <3>4. kubelet' \in Kubelet /\ kubelet'.conn = sock
      BY <1>a, <2>3 DEF Kubelet
    <3>5. plugin'[sock].pc \in {"listening", "ready"}
      <4>1. sock \in Plugins /\ plugin[sock].pc \in {"listening", "ready"}
        BY <1>a, <2>3 DEF Serves
      <4>2. [plugin[p] EXCEPT !.pc = "ready"].pc = "ready"
        BY <1>a DEF Plugin
      <4> QED
        BY <1>a, <3>2, <4>1, <4>2
    <3> QED
      BY <1>3, <1>a, <2>1, <3>3, <3>4, <3>5 DEF Register, ConnectedIsUp, TypeOK, Serves
  <2> QED
    BY <1>3, <2>2, <2>3 DEF Register
<1>4. CASE Crash(p)
  <2>1. bounds' \in Bounds
    BY <1>4, <1>a, SpendType DEF Crash
  <2> QED
    BY <1>4, <1>a, <2>1, EndsType DEF Crash, TypeOK, ConnectedIsUp, Serves
<1>5. CASE Stop(p)
  <2>1. bounds' \in Bounds
    BY <1>5, <1>a, SpendType DEF Stop
  <2> QED
    BY <1>5, <1>a, <2>1, EndsType DEF Stop, TypeOK, ConnectedIsUp, Serves
<1>6. CASE Remove(p)
  <2>1. bounds' \in Bounds
    BY <1>6, <1>a, SpendType DEF Remove
  <2> QED
    BY <1>6, <1>a, <2>1, EndsType DEF Remove, TypeOK, ConnectedIsUp, Serves
<1> QED
  BY <1>1, <1>2, <1>3, <1>4, <1>5, <1>6 DEF PluginStarts, PluginEnds

LEMMA KubeletType ==
    ASSUME TypeOK, ListAndWatch \/ RestartKubelet PROVE TypeOK'
<1>a. /\ mode \in Modes /\ hw \subseteq Devices /\ plugin \in [Plugins -> Plugin]
      /\ sock \in Plugins \cup {NoPlugin} /\ kubelet \in Kubelet /\ ConnectedIsUp
      /\ pods \in [Pods -> Pod] /\ bounds \in Bounds
  BY DEF TypeOK, ConnectedIsUp, Serves
<1>1. CASE ListAndWatch
  <2>1. kubelet.conn \in Plugins
    BY <1>1, <1>a DEF ListAndWatch, Kubelet
  <2>2. DeviceList(kubelet.conn) \in SUBSET Ids
    BY <1>a, <2>1 DEF DeviceList, Ids, Plugin
  <2>3. kubelet' \in Kubelet /\ kubelet'.conn = kubelet.conn
    BY <1>1, <1>a, <2>2 DEF ListAndWatch, Kubelet
  <2> QED
    BY <1>1, <1>a, <2>3 DEF ListAndWatch, ConnectedIsUp, TypeOK, Serves
<1>2. CASE RestartKubelet
  <2>1. bounds' \in Bounds
    BY <1>2, <1>a, SpendType DEF RestartKubelet
  <2>2. pods' \in [Pods -> Pod]
    BY <1>2, <1>a, InitialType DEF RestartKubelet
  <2> QED
    BY <1>2, <1>a, <2>1, <2>2, InitialType DEF RestartKubelet, ConnectedIsUp, TypeOK, Serves
<1> QED
  BY <1>1, <1>2

\* What Allocate gives a pod.
Allocated(q) ==
    IF kubelet.conn = NoPlugin THEN NoPod
    ELSE [pods[q] EXCEPT !.phase = "running", !.mounts = Mounts(kubelet.conn, pods[q].ids)]

LEMMA AllocateSteps ==
    ASSUME TypeOK, NEW q \in Pods, Allocate(q)
    PROVE  /\ pods' = [pods EXCEPT ![q] = Allocated(q)]
           /\ Allocated(q) \in Pod
<1>1. pods[q] \in Pod /\ kubelet.conn \in Plugins \cup {NoPlugin}
  BY DEF Kubelet, TypeOK, ConnectedIsUp, Serves
<1>2. CASE kubelet.conn = NoPlugin
  BY <1>2, InitialType DEF Allocate, Allocated
<1>3. CASE kubelet.conn # NoPlugin
  <2>1. Mounts(kubelet.conn, pods[q].ids) \in SUBSET Devices
    BY <1>1, <1>3 DEF Mounts, Plugin, TypeOK, ConnectedIsUp, Serves
  <2>2. pods' = [pods EXCEPT ![q] = Allocated(q)]
    BY <1>3 DEF Allocate, Allocated, TypeOK, ConnectedIsUp, Serves
  <2> QED
    BY <1>1, <1>3, <2>1, <2>2 DEF Pod, Allocated
<1> QED
  BY <1>2, <1>3

LEMMA PodType ==
    ASSUME TypeOK, NEW q \in Pods,
           Allocate(q) \/ PodEnds(q) \/ \E ids \in SUBSET Ids : Admit(q, ids)
    PROVE  TypeOK'
<1>a. /\ mode \in Modes /\ hw \subseteq Devices /\ plugin \in [Plugins -> Plugin]
      /\ sock \in Plugins \cup {NoPlugin} /\ kubelet \in Kubelet /\ ConnectedIsUp
      /\ pods \in [Pods -> Pod] /\ bounds \in Bounds
  BY DEF TypeOK, ConnectedIsUp, Serves
<1>1. CASE Allocate(q)
  <2>1. pods' \in [Pods -> Pod]
    BY <1>1, <1>a, AllocateSteps
  <2> QED
    BY <1>1, <1>a, <2>1 DEF Allocate, ConnectedIsUp, TypeOK, Serves
<1>2. CASE PodEnds(q)
  BY <1>2, <1>a, InitialType DEF PodEnds, ConnectedIsUp, TypeOK, Serves
<1>3. ASSUME NEW ids \in SUBSET Ids, Admit(q, ids) PROVE TypeOK'
  <2>1. [phase |-> "asked", ids |-> ids, mounts |-> {}] \in Pod
    BY DEF Pod
  <2> QED
    BY <1>3, <1>a, <2>1 DEF Admit, ConnectedIsUp, TypeOK, Serves
<1> QED
  BY <1>1, <1>2, <1>3

\* Every variable of plugins and kubelet keeps its type; the kubelet is never connected
\* to a plugin whose server is down.
THEOREM PluginTypeCorrect == Spec => []TypeOK
<1>1. ASSUME TypeOK, NEW d \in Devices, HardwareChanges(d) PROVE TypeOK'
  <2>1. bounds' \in Bounds
    BY <1>1, SpendType DEF HardwareChanges, TypeOK, ConnectedIsUp, Serves
  <2> QED
    BY <1>1, <2>1 DEF HardwareChanges, ConnectedIsUp, TypeOK, Serves
<1>2. TypeOK /\ UNCHANGED vars => TypeOK'
  BY DEF TypeOK, vars, Serves
<1>3. TypeOK /\ [Next]_vars => TypeOK'
  BY <1>1, <1>2, PluginType, KubeletType, PodType DEF Next
<1> QED
  BY <1>3, InitType, PTL DEF Spec

(***************************************************************************)
(* Sharing.                                                                *)
(***************************************************************************)
\* A pod has ids from when it is admitted, of which no other pod has any; it has mounts
\* only of them in exclusive mode.  In shared mode the ids are the slots.
PodsAreApart ==
    /\ \A q \in Pods : pods[q].phase = "none" <=> pods[q].ids = {}
    /\ \A q \in Pods : pods[q].phase # "running" => pods[q].mounts = {}
    /\ \A q, r \in Pods : q # r => pods[q].ids \cap pods[r].ids = {}

IdsAreOfMode ==
    IF mode = "shared"
    THEN kubelet.offered \subseteq Slots /\ \A q \in Pods : pods[q].ids \subseteq Slots
    ELSE \A q \in Pods : pods[q].mounts \subseteq pods[q].ids

SharingInv == PodsAreApart /\ IdsAreOfMode

LEMMA InitialPods ==
    NoPod.phase = "none" /\ NoPod.ids = {} /\ NoPod.mounts = {}
BY DEF NoPod

LEMMA InitSharing == Init => SharingInv
BY InitialPods, InitialType DEF Init, SharingInv, PodsAreApart, IdsAreOfMode

\* One pod changes: the others, and the ids they have, are as they were.
LEMMA OnePodChanges ==
    ASSUME TypeOK, SharingInv, NEW q \in Pods, NEW pod \in Pod,
           pods' = [pods EXCEPT ![q] = pod], UNCHANGED <<mode, kubelet>>,
           pod.phase = "none" <=> pod.ids = {},
           pod.phase # "running" => pod.mounts = {},
           \A r \in Pods \ {q} : pod.ids \cap pods[r].ids = {},
           IF mode = "shared" THEN pod.ids \subseteq Slots ELSE pod.mounts \subseteq pod.ids
    PROVE  SharingInv'
<1>1. \A r \in Pods : pods'[r] = IF r = q THEN pod ELSE pods[r]
  BY DEF TypeOK
<1>2. PodsAreApart'
  BY <1>1 DEF SharingInv, PodsAreApart
<1>3. IdsAreOfMode'
  BY <1>1 DEF SharingInv, IdsAreOfMode
<1> QED
  BY <1>2, <1>3 DEF SharingInv

LEMMA NoPodSharing ==
    ASSUME TypeOK, SharingInv, NEW q \in Pods,
           pods' = [pods EXCEPT ![q] = NoPod], UNCHANGED <<mode, kubelet>>
    PROVE  SharingInv'
BY InitialType, InitialPods, OnePodChanges

LEMMA AllocateSharing ==
    ASSUME TypeOK, SharingInv, NEW q \in Pods, Allocate(q) PROVE SharingInv'
<1>1. /\ pods' = [pods EXCEPT ![q] = Allocated(q)] /\ Allocated(q) \in Pod
      /\ UNCHANGED <<mode, kubelet>> /\ pods[q].phase = "asked"
  BY AllocateSteps DEF Allocate
<1>2. CASE kubelet.conn = NoPlugin
  BY <1>1, <1>2, NoPodSharing DEF Allocated
<1>3. CASE kubelet.conn # NoPlugin
  <2>1. /\ Allocated(q).phase = "running" /\ Allocated(q).ids = pods[q].ids
        /\ Allocated(q).mounts = Mounts(kubelet.conn, pods[q].ids)
    BY <1>3 DEF Allocated, TypeOK, Pod
  <2>2. pods[q].ids # {} /\ \A r \in Pods \ {q} : pods[q].ids \cap pods[r].ids = {}
    BY <1>1 DEF SharingInv, PodsAreApart
  <2>3. IF mode = "shared" THEN Allocated(q).ids \subseteq Slots
        ELSE Allocated(q).mounts \subseteq Allocated(q).ids
    BY <2>1 DEF SharingInv, IdsAreOfMode, Mounts
  <2> QED
    BY <1>1, <2>1, <2>2, <2>3, OnePodChanges
<1> QED
  BY <1>2, <1>3

LEMMA AdmitSharing ==
    ASSUME TypeOK, SharingInv, NEW q \in Pods, NEW ids \in SUBSET Ids, Admit(q, ids)
    PROVE  SharingInv'
<1> DEFINE pod == [phase |-> "asked", ids |-> ids, mounts |-> {}]
<1>1. pod \in Pod /\ pod.phase = "asked" /\ pod.ids = ids /\ pod.mounts = {}
  BY DEF Pod
<1>2. ids # {}
  <2>1. Cardinality(ids) # 0
    BY PluginBoundsAssumption DEF Admit
  <2> QED
    BY <2>1, FS_EmptySet
<1>3. \A r \in Pods \ {q} : ids \cap pods[r].ids = {}
  BY DEF Admit, Taken
<1>4. mode = "shared" => ids \subseteq Slots
  BY DEF Admit, SharingInv, IdsAreOfMode
<1>5. pods' = [pods EXCEPT ![q] = pod] /\ UNCHANGED <<mode, kubelet>>
  BY DEF Admit
<1> HIDE DEF pod
<1> QED
  BY <1>1, <1>2, <1>3, <1>4, <1>5, OnePodChanges

\* The kubelet alone changes: what it offers in shared mode are the slots.
LEMMA KubeletSharing ==
    ASSUME TypeOK, SharingInv, UNCHANGED <<mode, pods>>,
           mode = "shared" => kubelet'.offered \subseteq Slots
    PROVE  SharingInv'
BY DEF SharingInv, PodsAreApart, IdsAreOfMode

LEMMA PluginSharing ==
    ASSUME TypeOK, SharingInv, NEW p \in Plugins, PluginStarts(p) \/ PluginEnds(p)
    PROVE  SharingInv'
<1>1. UNCHANGED <<mode, pods>>
  BY DEF PluginStarts, Discover, Listen, Register, PluginEnds, Crash, Stop, Remove
<1>2. kubelet'.offered = kubelet.offered \/ kubelet'.offered = {}
  <2>1. ASSUME NEW as, Ends(p, as) PROVE kubelet'.offered = kubelet.offered \/ kubelet'.offered = {}
    BY <2>1, InitialType DEF Ends
  <2>2. CASE kubelet' = [kubelet EXCEPT !.conn = sock, !.streaming = FALSE]
    BY <2>2 DEF TypeOK, Kubelet
  <2> QED
    BY <2>1, <2>2 DEF PluginStarts, Discover, Listen, Register, PluginEnds, Crash, Stop, Remove
<1> QED
  BY <1>1, <1>2, KubeletSharing DEF SharingInv, IdsAreOfMode

LEMMA SharingStep == TypeOK /\ SharingInv /\ [Next]_vars => SharingInv'
<1> SUFFICES ASSUME TypeOK, SharingInv, [Next]_vars PROVE SharingInv'
  OBVIOUS
<1>1. CASE ListAndWatch
  <2>1. kubelet'.offered = DeviceList(kubelet.conn)
    BY <1>1 DEF ListAndWatch, TypeOK, Kubelet
  <2> QED
    BY <1>1, <2>1, KubeletSharing DEF ListAndWatch, DeviceList
<1>2. CASE RestartKubelet
  <2>1. /\ \A q \in Pods : pods'[q] = IF pods[q].phase = "asked" THEN NoPod ELSE pods[q]
        /\ UNCHANGED mode /\ kubelet'.offered = {}
    BY <1>2, InitialType DEF RestartKubelet
  <2>2. PodsAreApart'
    BY <2>1, InitialPods DEF SharingInv, PodsAreApart
  <2>3. IdsAreOfMode'
    BY <2>1, InitialPods DEF SharingInv, IdsAreOfMode
  <2> QED
    BY <2>2, <2>3 DEF SharingInv
<1>3. ASSUME NEW q \in Pods, PodEnds(q) PROVE SharingInv'
  BY <1>3, NoPodSharing DEF PodEnds
<1>4. CASE UNCHANGED <<mode, pods, kubelet>>
  BY <1>4 DEF SharingInv, PodsAreApart, IdsAreOfMode
<1> QED
  BY <1>1, <1>2, <1>3, <1>4, PluginSharing, AllocateSharing, AdmitSharing
     DEF Next, HardwareChanges, vars

\* In shared mode every pod that has a device mounted holds a slot of its own.
LEMMA SharedUsers ==
    ASSUME SharingInv, NEW d \in Devices, mode = "shared"
    PROVE  Cardinality(Users(d)) <= Cardinality(Slots)
<1> DEFINE f == [q \in Users(d) |-> CHOOSE i \in pods[q].ids : TRUE]
<1>1. \A q \in Users(d) : q \in Pods /\ pods[q].ids # {} /\ pods[q].ids \subseteq Slots
  BY DEF Users, SharingInv, PodsAreApart, IdsAreOfMode
<1>2. \A q \in Users(d) : f[q] \in pods[q].ids
  BY <1>1
<1>3. f \in [Users(d) -> Slots]
  BY <1>1, <1>2
<1>4. \A q, r \in Users(d) : f[q] = f[r] => q = r
  BY <1>1, <1>2 DEF SharingInv, PodsAreApart
<1>5. f \in Injection(Users(d), Slots)
  BY <1>3, <1>4 DEF Injection, IsInjective
<1> QED
  BY <1>5, IdsAssumption, FS_Injection

\* In exclusive mode a device that is mounted is itself one of the pod's ids.
LEMMA ExclusiveUsers ==
    ASSUME SharingInv, NEW d \in Devices, mode # "shared"
    PROVE  Cardinality(Users(d)) <= 1
<1>1. \A q, r \in Users(d) : q = r
  BY DEF Users, SharingInv, PodsAreApart, IdsAreOfMode
<1>2. Users(d) = {} \/ \E q : Users(d) = {q}
  BY <1>1
<1>3. Cardinality(Users(d)) \in {0, 1}
  BY <1>2, FS_EmptySet, FS_Singleton
<1> QED
  BY <1>3

\* However plugins crash, register anew and are superseded, and however the kubelet
\* restarts: Allocate gives a device to no more pods than the sharing mode allows.
THEOREM DevicesAreSharedByMode == Spec => []SharingIsBounded
<1>1. Spec => []SharingInv
  BY InitSharing, SharingStep, PluginTypeCorrect, PTL DEF Spec
<1>2. SharingInv => SharingIsBounded
  BY SharedUsers, ExclusiveUsers DEF SharingIsBounded
<1> QED
  BY <1>1, <1>2, PTL

(***************************************************************************)
(* A node whose devices stay as they are.                                  *)
(***************************************************************************)
SteadyDevices == [][UNCHANGED hw]_vars

\* Every plugin that runs has found the devices there are; an exclusive pod has ids of
\* no other devices, whichever plugin they were offered by.
DevicesAreCurrent ==
    \A p \in Plugins : plugin[p].pc \notin {"down", "gone"} => plugin[p].devices = hw

IdsAreDevices ==
    mode # "shared" => /\ kubelet.offered \subseteq hw
                       /\ \A q \in Pods : pods[q].ids \subseteq hw

SteadyInv == DevicesAreCurrent /\ IdsAreDevices

LEMMA InitSteady == Init => SteadyInv
BY InitialType, InitialPods DEF Init, Down, SteadyInv, DevicesAreCurrent, IdsAreDevices

\* A plugin keeps its devices for as long as it runs.
LEMMA PluginSteady ==
    ASSUME TypeOK, SteadyInv, UNCHANGED hw,
           NEW p \in Plugins, PluginStarts(p) \/ PluginEnds(p)
    PROVE  SteadyInv'
<1>a. plugin \in [Plugins -> Plugin]
  BY DEF TypeOK
<1>1. \A r \in Plugins \ {p} : plugin'[r] = plugin[r]
  BY <1>a DEF PluginStarts, Discover, Listen, Register, PluginEnds, Crash, Stop, Remove, Ends
<1>2. plugin'[p].pc \notin {"down", "gone"} => plugin'[p].devices = hw
  <2>1. ASSUME NEW as \in {Down, Gone}, Ends(p, as)
        PROVE  plugin'[p].pc \in {"down", "gone"}
    <3>1. plugin'[p] = as
      BY <1>a, <2>1 DEF Ends
    <3>2. Down.pc = "down" /\ Gone.pc = "gone"
      BY DEF Down, Gone
    <3> QED
      BY <2>1, <3>1, <3>2
  <2>2. CASE Discover(p)
    BY <1>a, <2>2 DEF Discover
  <2>3. ASSUME NEW pc \in {"listening", "ready"}, plugin[p].pc \notin {"down", "gone"},
               plugin' = [plugin EXCEPT ![p].pc = pc]
        PROVE  plugin'[p].devices = hw
    BY <1>a, <2>3 DEF Plugin, SteadyInv, DevicesAreCurrent
  <2> QED
    BY <2>1, <2>2, <2>3
       DEF PluginStarts, Listen, Register, PluginEnds, Crash, Stop, Remove
<1>3. DevicesAreCurrent'
  BY <1>1, <1>2 DEF SteadyInv, DevicesAreCurrent
<1>4. UNCHANGED <<mode, pods>>
  BY DEF PluginStarts, Discover, Listen, Register, PluginEnds, Crash, Stop, Remove
<1>5. kubelet'.offered = kubelet.offered \/ kubelet'.offered = {}
  <2>1. ASSUME NEW as, Ends(p, as) PROVE kubelet'.offered = kubelet.offered \/ kubelet'.offered = {}
    BY <2>1, InitialType DEF Ends
  <2>2. CASE kubelet' = [kubelet EXCEPT !.conn = sock, !.streaming = FALSE]
    BY <2>2 DEF TypeOK, Kubelet
  <2> QED
    BY <2>1, <2>2 DEF PluginStarts, Discover, Listen, Register, PluginEnds, Crash, Stop, Remove
<1> QED
  BY <1>3, <1>4, <1>5 DEF SteadyInv, IdsAreDevices

LEMMA KubeletSteady ==
    ASSUME TypeOK, SteadyInv, ListAndWatch \/ RestartKubelet
    PROVE  SteadyInv'
<1>1. CASE ListAndWatch
  <2>1. kubelet'.offered = DeviceList(kubelet.conn)
    BY <1>1 DEF ListAndWatch, TypeOK, Kubelet
  <2>2. kubelet.conn \in Plugins /\ plugin[kubelet.conn].devices = hw
    BY <1>1 DEF ListAndWatch, TypeOK, Kubelet, Serves, SteadyInv, DevicesAreCurrent
  <2> QED
    BY <1>1, <2>1, <2>2
       DEF ListAndWatch, DeviceList, SteadyInv, DevicesAreCurrent, IdsAreDevices
<1>2. CASE RestartKubelet
  <2>1. /\ \A q \in Pods : pods'[q] = IF pods[q].phase = "asked" THEN NoPod ELSE pods[q]
        /\ UNCHANGED <<mode, hw, plugin>> /\ kubelet'.offered = {}
    BY <1>2, InitialType DEF RestartKubelet
  <2> QED
    BY <2>1, InitialPods DEF SteadyInv, DevicesAreCurrent, IdsAreDevices
<1> QED
  BY <1>1, <1>2

LEMMA PodSteady ==
    ASSUME TypeOK, SteadyInv, NEW q \in Pods,
           Allocate(q) \/ PodEnds(q) \/ \E ids \in SUBSET Ids : Admit(q, ids)
    PROVE  SteadyInv'
<1>1. UNCHANGED <<mode, hw, plugin, kubelet>>
  BY DEF Allocate, PodEnds, Admit
<1>2. \A r \in Pods \ {q} : pods'[r] = pods[r]
  BY DEF Allocate, PodEnds, Admit, TypeOK
<1>3. pods'[q].ids \subseteq pods[q].ids \/ pods'[q].ids \subseteq kubelet.offered
  <2>1. CASE Allocate(q)
    <3>1. pods'[q] = Allocated(q) /\ pods[q] \in Pod
      BY <2>1, AllocateSteps DEF TypeOK
    <3> QED
      BY <3>1, InitialPods DEF Allocated, Pod
  <2>2. CASE PodEnds(q)
    BY <2>2, InitialPods DEF PodEnds, TypeOK
  <2>3. ASSUME NEW ids \in SUBSET Ids, Admit(q, ids) PROVE pods'[q].ids \subseteq kubelet.offered
    BY <2>3 DEF Admit, TypeOK
  <2> QED
    BY <2>1, <2>2, <2>3
<1> QED
  BY <1>1, <1>2, <1>3 DEF SteadyInv, DevicesAreCurrent, IdsAreDevices

LEMMA SteadyStep ==
    TypeOK /\ SteadyInv /\ [Next]_vars /\ [UNCHANGED hw]_vars => SteadyInv'
<1> SUFFICES ASSUME TypeOK, SteadyInv, [Next]_vars, [UNCHANGED hw]_vars PROVE SteadyInv'
  OBVIOUS
<1>1. UNCHANGED hw
  BY DEF vars
<1>2. CASE UNCHANGED <<mode, hw, plugin, kubelet, pods>>
  BY <1>2 DEF SteadyInv, DevicesAreCurrent, IdsAreDevices
<1> QED
  BY <1>1, <1>2, PluginSteady, KubeletSteady, PodSteady DEF Next, HardwareChanges, vars

\* No id is passed over: an exclusive pod has each of the devices it was given the id of.
ExclusivePodsGetTheirDevices ==
    [][mode # "shared" =>
         \A q \in Pods : (pods[q].phase = "asked" /\ pods'[q].phase = "running")
                            => pods'[q].mounts = pods[q].ids]_vars

LEMMA AllocateIsFull ==
    ASSUME TypeOK, SteadyInv, [Next]_vars,
           NEW q \in Pods, pods[q].phase = "asked", pods'[q].phase = "running"
    PROVE  pods'[q].mounts = IF mode = "shared" THEN hw ELSE pods[q].ids
<1>1. Allocate(q)
  <2>1. ASSUME NEW r \in Pods, r # q,
               Allocate(r) \/ PodEnds(r) \/ \E ids \in SUBSET Ids : Admit(r, ids)
        PROVE  pods'[q] = pods[q]
    BY <2>1 DEF Allocate, PodEnds, Admit, TypeOK
  <2>2. ~PodEnds(q) /\ ~\E ids \in SUBSET Ids : Admit(q, ids)
    BY DEF PodEnds, Admit
  <2>3. ~RestartKubelet
    BY InitialPods DEF RestartKubelet
  <2>4. ~UNCHANGED pods
    OBVIOUS
  <2> QED
    BY <2>1, <2>2, <2>3, <2>4
       DEF Next, vars, PluginStarts, Discover, Listen, Register, PluginEnds, Crash, Stop, Remove,
           ListAndWatch, HardwareChanges
<1>2. pods'[q] = Allocated(q) /\ pods[q] \in Pod
  BY <1>1, AllocateSteps DEF TypeOK
<1>3. kubelet.conn \in Plugins
  BY <1>2, InitialPods DEF Allocated, TypeOK, Kubelet
<1>4. pods'[q].mounts = Mounts(kubelet.conn, pods[q].ids)
  BY <1>2, <1>3, NoPluginAssumption DEF Allocated, Pod
<1>5. plugin[kubelet.conn].devices = hw
  BY <1>3, NoPluginAssumption DEF TypeOK, Serves, SteadyInv, DevicesAreCurrent
<1>6. mode # "shared" => pods[q].ids \subseteq hw
  BY DEF SteadyInv, IdsAreDevices
<1> QED
  BY <1>4, <1>5, <1>6 DEF Mounts

\* What the devices of the moment of Start cost, and all that they cost: while no device
\* comes or goes, Allocate keeps the promise of shared mode, and in exclusive mode passes
\* over no id, however plugins crash and supersede each other and the kubelet restarts.
THEOREM SteadyDevicesReachPods ==
    Spec /\ SteadyDevices => SharedPodsGetAllDevices /\ ExclusivePodsGetTheirDevices
<1>1. Spec /\ SteadyDevices => []SteadyInv
  BY InitSteady, SteadyStep, PluginTypeCorrect, PTL DEF Spec, SteadyDevices
<1>2. TypeOK /\ SteadyInv /\ [Next]_vars
        => /\ [mode = "shared" =>
                 \A q \in Pods : (pods[q].phase = "asked" /\ pods'[q].phase = "running")
                                    => pods'[q].mounts = hw]_vars
           /\ [mode # "shared" =>
                 \A q \in Pods : (pods[q].phase = "asked" /\ pods'[q].phase = "running")
                                    => pods'[q].mounts = pods[q].ids]_vars
  BY AllocateIsFull
<1> QED
  BY <1>1, <1>2, PluginTypeCorrect, PTL
     DEF Spec, SharedPodsGetAllDevices, ExclusivePodsGetTheirDevices
=============================================================================

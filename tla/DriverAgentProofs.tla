-------------------------- MODULE DriverAgentProofs --------------------------
(***************************************************************************)
(* What holds of DriverAgent for every set of agents, devices and labels   *)
(* and for every bound.                                                    *)
(***************************************************************************)
EXTENDS DriverAgent, FiniteSetTheorems, TLAPS

(***************************************************************************)
(* The data: devices, inventories and labels.                              *)
(***************************************************************************)
Inventory == [Devices -> Hardware]

LEMMA AbsentType == Absent \in Hardware /\ Absent.switch = NoSwitch /\ NoSwitch \in Ids
BY DEF Absent, Hardware, Ids

LEMMA NothingType == Nothing \in Inventory
BY AbsentType DEF Nothing, Inventory

LEMMA HardwareSwitch == \A h \in Hardware : h.switch \in Ids
BY AbsentType DEF Hardware

LEMMA PresentCount ==
    ASSUME NEW found
    PROVE  /\ Present(found) \in SUBSET Devices
           /\ IsFiniteSet(Present(found))
           /\ Cardinality(Present(found)) \in Nat
           /\ Present(found) # {} <=> Cardinality(Present(found)) > 0
<1>1. Present(found) \in SUBSET Devices
  BY DEF Present
<1>2. IsFiniteSet(Present(found))
  BY <1>1, DevicesAssumption, FS_Subset
<1>3. Cardinality(Present(found)) \in Nat
  BY <1>2, FS_CardinalityType
<1>4. Cardinality(Present(found)) = 0 <=> Present(found) = {}
  BY <1>2, FS_EmptySet
<1> QED
  BY <1>1, <1>2, <1>3, <1>4

LEMMA CXIDeviceType ==
    /\ NoCXIDevice \in CXIDevice /\ NewCXIDevice \in CXIDevice
    /\ NewCXIDevice.live = TRUE /\ NoCXIDevice.live = FALSE
    /\ \A c \in CXIDevice, h \in Hardware : [c EXCEPT !.status = h] \in CXIDevice
BY AbsentType DEF NoCXIDevice, NewCXIDevice, CXIDevice

LEMMA NoLabelsType ==
    NoLabels \in Labels /\ \A l \in Admins : [NoLabels EXCEPT !.admin = l] \in Labels
<1>1. (CHOOSE l \in Admins : TRUE) \in Admins
  BY AdminsAssumption
<1>2. [d \in Devices |-> NoSwitch] \in [Devices -> Ids]
  BY AbsentType
<1>3. 0 \in Nat
  OBVIOUS
<1>4. NoLabels \in Labels
  BY <1>1, <1>2, <1>3 DEF NoLabels, Labels
<1> QED
  BY <1>4 DEF Labels

\* The labels of an inventory are labels, those of others among them.
LEMMA RelabelledType ==
    ASSUME NEW labels \in Labels, NEW found \in Inventory
    PROVE  /\ Relabelled(labels, found) \in Labels
           /\ Relabelled(labels, found).admin = labels.admin
           /\ Relabelled(labels, found).present = (Present(found) # {})
           /\ Relabelled(labels, found).count = Cardinality(Present(found))
           /\ Relabelled(labels, found).switch = [d \in Devices |-> found[d].switch]
<1>1. (Present(found) # {}) \in BOOLEAN
  OBVIOUS
<1>2. Cardinality(Present(found)) \in Nat
  BY PresentCount
<1>3. [d \in Devices |-> found[d].switch] \in [Devices -> Ids]
  BY HardwareSwitch DEF Inventory
<1> QED
  BY <1>1, <1>2, <1>3 DEF Relabelled, Labels

(***************************************************************************)
(* Type correctness.                                                       *)
(***************************************************************************)
LEMMA WaitingType == Waiting \in Agent /\ Waiting.pc = "wait"
<1>1. (CHOOSE d \in Devices : TRUE) \in Devices
  BY DevicesAssumption
<1> QED
  BY <1>1, NoLabelsType, NothingType, CXIDeviceType DEF Waiting, Agent, Inventory

\* The pc of an agent with a device in hand agrees with the copy it has.
Agrees(w) ==
    w.pc \in {"create", "status"} => w.d \in w.todo /\ (w.copy.live <=> w.pc = "status")

LEMMA InitType == Init => TypeOK
<1> SUFFICES ASSUME Init PROVE TypeOK
  OBVIOUS
<1>1. hw \in [Devices -> Hardware]
  BY NothingType DEF Init, Inventory
<1>2. dev \in [Devices -> CXIDevice]
  BY CXIDeviceType DEF Init
<1>3. node \in Labels /\ admin \in Admins
  BY NoLabelsType DEF Init
<1>4. agent \in [Agents -> Agent] /\ \A a \in Agents : agent[a].pc = "wait"
  BY WaitingType DEF Init
<1>5. changes \in Nat /\ faults \in Nat /\ taken \subseteq [Devices -> Hardware]
  BY NothingType, AgentBoundsAssumption DEF Init, Inventory
<1> QED
  BY <1>1, <1>2, <1>3, <1>4, <1>5 DEF TypeOK

LEMMA FaultType == ASSUME TypeOK, Fault \/ UNCHANGED faults PROVE faults' \in Nat
BY DEF TypeOK, Fault

LEMMA EnvironmentType == ASSUME TypeOK, Environment PROVE TypeOK'
<1> USE DEF TypeOK
<1>1. ASSUME NEW d \in Devices, DeleteCXIDevice(d) PROVE TypeOK'
  BY <1>1, CXIDeviceType DEF DeleteCXIDevice, Change
<1>2. ASSUME NEW d \in Devices, NEW h \in Hardware, HardwareChanges(d, h) PROVE TypeOK'
  BY <1>2 DEF HardwareChanges, Change
<1>3. ASSUME NEW l \in Admins, LabelByAdmin(l) PROVE TypeOK'
  <2>1. node' \in Labels
    BY <1>3 DEF LabelByAdmin, Labels
  <2> QED
    BY <1>3, <2>1 DEF LabelByAdmin, Change
<1>4. ASSUME NEW a \in Agents, Restart(a) PROVE TypeOK'
  <2>1. faults' \in Nat
    BY <1>4, FaultType DEF Restart
  <2> QED
    BY <1>4, <2>1, WaitingType DEF Restart
<1> QED
  BY <1>1, <1>2, <1>3, <1>4 DEF Environment

\* What a step of an agent gives the agent itself is all that its type depends on.
LEMMA AgentStepType ==
    ASSUME TypeOK, NEW a \in Agents, NEW w \in Agent, Agrees(w),
           agent' = [agent EXCEPT ![a] = w], UNCHANGED <<hw, admin, changes>>,
           taken' \in SUBSET Inventory,
           dev' \in [Devices -> CXIDevice], node' \in Labels,
           Fault \/ UNCHANGED faults
    PROVE  TypeOK'
<1>1. faults' \in Nat
  BY FaultType
<1>2. agent' \in [Agents -> Agent]
  BY DEF TypeOK
<1>3. \A b \in Agents : Agrees(agent'[b])
  BY DEF TypeOK, Agrees
<1> QED
  BY <1>1, <1>2, <1>3 DEF TypeOK, Agrees, Inventory

\* The next device leaves the agent with a record of its type.
LEMMA NextDeviceType ==
    ASSUME TypeOK, NEW a \in Agents, NextDevice(a)
    PROVE  \E w \in Agent : Agrees(w) /\ agent' = [agent EXCEPT ![a] = w]
<1> DEFINE w == [Waiting EXCEPT !.pc = "devices", !.found = agent[a].found,
                                !.todo = agent[a].todo \ {agent[a].d}]
<1>1. agent[a].found \in Inventory /\ agent[a].todo \ {agent[a].d} \in SUBSET Devices
  BY DEF TypeOK, Agent, Inventory
<1>2. w \in Agent /\ w.pc = "devices"
  BY <1>1, WaitingType DEF Agent, Inventory
<1>3. agent' = [agent EXCEPT ![a] = w]
  BY DEF NextDevice
<1> HIDE DEF w
<1> QED
  BY <1>2, <1>3 DEF Agrees

LEMMA UpdateDevicesType ==
    ASSUME TypeOK, NEW a \in Agents, UpdateDevices(a) PROVE TypeOK'
<1>a. /\ agent[a] \in Agent /\ agent \in [Agents -> Agent] /\ Agrees(agent[a])
      /\ node \in Labels /\ dev \in [Devices -> CXIDevice] /\ hw \in Inventory
      /\ taken' \in SUBSET Inventory
  BY DEF TypeOK, Agrees, Inventory, UpdateDevices, Discover, GetDevice, CreateDevice,
     UpdateStatus, GetNode, LabelNode
<1>w. Agrees(Waiting)
  BY WaitingType DEF Agrees
<1>1. CASE Discover(a)
  <2> DEFINE w == [agent[a] EXCEPT !.pc = "devices", !.found = hw, !.todo = Present(hw)]
  <2>1. Present(hw) \in SUBSET Devices
    BY PresentCount
  <2>2. w \in Agent /\ w.pc = "devices"
    BY <1>a, <2>1 DEF Agent, Inventory
  <2>3. agent' = [agent EXCEPT ![a] = w]
    BY <1>1, <1>a DEF Discover
  <2> HIDE DEF w
  <2>4. Agrees(w)
    BY <2>2 DEF Agrees
  <2> QED
    BY <1>1, <1>a, <2>2, <2>3, <2>4, AgentStepType DEF Discover
<1>2. ASSUME NEW d \in Devices, GetDevice(a, d) PROVE TypeOK'
  <2> DEFINE pc == IF dev[d].live THEN "status" ELSE "create"
             w == [agent[a] EXCEPT !.pc = pc, !.d = d, !.copy = dev[d]]
             v == [agent[a] EXCEPT !.todo = agent[a].todo \ {d}]
  <2>1. dev[d] \in CXIDevice /\ dev[d].live \in BOOLEAN
    BY <1>a DEF CXIDevice
  <2>2. w \in Agent /\ w.pc = pc /\ w.d = d /\ w.copy = dev[d] /\ w.todo = agent[a].todo
    BY <1>a, <2>1 DEF Agent
  <2>3. v \in Agent /\ v.pc = "devices"
    BY <1>2, <1>a DEF Agent, GetDevice
  <2>4. Agrees(w)
    BY <1>2, <2>1, <2>2 DEF Agrees, GetDevice
  <2>5. Agrees(v)
    BY <2>3 DEF Agrees
  <2>6. agent' = [agent EXCEPT ![a] = w] \/ agent' = [agent EXCEPT ![a] = v]
    BY <1>2, <1>a DEF GetDevice
  <2>7. UNCHANGED <<hw, dev, node, admin, changes>> /\ (Fault \/ UNCHANGED faults)
    BY <1>2 DEF GetDevice
  <2> HIDE DEF w, v
  <2> QED
    BY <1>a, <2>2, <2>3, <2>4, <2>5, <2>6, <2>7, AgentStepType
<1>3. CASE CreateDevice(a)
  <2>1. dev' \in [Devices -> CXIDevice]
    BY <1>3, <1>a, CXIDeviceType DEF CreateDevice
  <2>2. UNCHANGED <<hw, node, admin, changes>> /\ (Fault \/ UNCHANGED faults)
    BY <1>3 DEF CreateDevice
  <2>3. CASE NextDevice(a)
    BY <1>a, <2>1, <2>2, <2>3, NextDeviceType, AgentStepType
  <2>4. CASE agent' = [agent EXCEPT ![a].pc = "status", ![a].copy = NewCXIDevice]
    <3> DEFINE w == [agent[a] EXCEPT !.pc = "status", !.copy = NewCXIDevice]
    <3>1. w \in Agent /\ w.pc = "status" /\ w.copy = NewCXIDevice
          /\ w.d = agent[a].d /\ w.todo = agent[a].todo
      BY <1>a, CXIDeviceType DEF Agent
    <3>2. agent' = [agent EXCEPT ![a] = w]
      BY <1>a, <2>4
    <3>3. agent[a].pc = "create"
      BY <1>3 DEF CreateDevice
    <3> HIDE DEF w
    <3>4. Agrees(w)
      BY <1>a, <3>1, <3>3, CXIDeviceType DEF Agrees
    <3> QED
      BY <1>a, <2>1, <2>2, <3>1, <3>2, <3>4, AgentStepType
  <2> QED
    BY <1>3, <2>3, <2>4 DEF CreateDevice
<1>4. CASE UpdateStatus(a)
  <2>1. agent[a].found[agent[a].d] \in Hardware
    BY <1>a DEF Agent
  <2>2. dev' \in [Devices -> CXIDevice]
    <3>1. agent[a].d \in Devices
      BY <1>a DEF Agent
    <3>2. [dev[agent[a].d] EXCEPT !.status = agent[a].found[agent[a].d]] \in CXIDevice
      BY <1>a, <2>1, <3>1, CXIDeviceType
    <3> QED
      BY <1>4, <1>a, <3>1, <3>2 DEF UpdateStatus
  <2>3. UNCHANGED <<hw, node, admin, changes>> /\ (Fault \/ UNCHANGED faults) /\ NextDevice(a)
    BY <1>4 DEF UpdateStatus
  <2> QED
    BY <1>a, <2>2, <2>3, NextDeviceType, AgentStepType
<1>5. CASE GetNode(a)
  <2> DEFINE w == [agent[a] EXCEPT !.pc = "label", !.labels = node]
  <2>1. w \in Agent /\ w.pc = "label"
    BY <1>a DEF Agent
  <2>2. agent' = [agent EXCEPT ![a] = w] \/ agent' = [agent EXCEPT ![a] = Waiting]
    BY <1>5, <1>a DEF GetNode
  <2> HIDE DEF w
  <2>3. Agrees(w)
    BY <2>1 DEF Agrees
  <2>4. UNCHANGED <<hw, dev, node, admin, changes>> /\ (Fault \/ UNCHANGED faults)
    BY <1>5 DEF GetNode
  <2> QED
    BY <1>a, <1>w, <2>1, <2>2, <2>3, <2>4, WaitingType, AgentStepType
<1>6. CASE LabelNode(a)
  <2>1. node' \in Labels
    <3>1. agent[a].found \in Inventory
      BY <1>a DEF Agent, Inventory
    <3> QED
      BY <1>6, <1>a, <3>1, RelabelledType DEF LabelNode
  <2>2. UNCHANGED <<hw, dev, admin, changes>> /\ (Fault \/ UNCHANGED faults)
    BY <1>6 DEF LabelNode
  <2>3. agent' = [agent EXCEPT ![a] = Waiting]
    BY <1>6 DEF LabelNode
  <2> QED
    BY <1>a, <1>w, <2>1, <2>2, <2>3, WaitingType, AgentStepType
<1> QED
  BY <1>1, <1>2, <1>3, <1>4, <1>5, <1>6 DEF UpdateDevices

\* Every variable of the driver agent keeps its type: updateDevices has a device in hand
\* when it reports one, and writes back only a copy that it read.
THEOREM AgentTypeCorrect == Spec => []TypeOK
<1>1. TypeOK /\ [Next]_vars => TypeOK'
  <2>1. TypeOK /\ UNCHANGED vars => TypeOK'
    BY DEF TypeOK, vars
  <2> QED
    BY <2>1, EnvironmentType, UpdateDevicesType DEF Next
<1> QED
  BY <1>1, InitType, PTL DEF Spec

(***************************************************************************)
(* What a step does to the labels.                                         *)
(***************************************************************************)
\* What an agent works with it has taken; nothing is forgotten.
WorksWithTaken == \A a \in Agents : agent[a].found \in taken
LabelsInv == Nothing \in taken /\ WorksWithTaken

LEMMA LabelsInvariant ==
    /\ Init => LabelsInv
    /\ TypeOK /\ LabelsInv /\ [Next]_vars => LabelsInv' /\ taken \subseteq taken'
<1>1. Init => LabelsInv
  BY DEF Init, Waiting, LabelsInv, WorksWithTaken
<1>2. ASSUME TypeOK, LabelsInv, [Next]_vars
      PROVE  LabelsInv' /\ taken \subseteq taken'
  <2>1. \A a \in Agents : Waiting.found \in taken
    BY <1>2 DEF Waiting, LabelsInv
  <2>2. agent \in [Agents -> Agent]
    BY <1>2 DEF TypeOK
  <2>3. ASSUME NEW a \in Agents, Discover(a) PROVE LabelsInv' /\ taken \subseteq taken'
    <3>1. taken' = taken \cup {hw} /\ \A b \in Agents : agent'[b].found \in {hw, agent[b].found}
      BY <2>2, <2>3 DEF Discover, Agent
    <3> QED
      BY <1>2, <3>1 DEF LabelsInv, WorksWithTaken
  <2>4. ASSUME UNCHANGED taken, UNCHANGED agent PROVE LabelsInv' /\ taken \subseteq taken'
    BY <1>2, <2>4 DEF LabelsInv, WorksWithTaken
  <2>5. ASSUME NEW a \in Agents, UpdateDevices(a), ~Discover(a)
        PROVE  LabelsInv' /\ taken \subseteq taken'
    <3>1. UNCHANGED taken
      BY <2>5 DEF UpdateDevices, GetDevice, CreateDevice, UpdateStatus, GetNode, LabelNode
    <3>2. \A b \in Agents : agent'[b].found \in {agent[b].found, Waiting.found}
      <4>1. ASSUME NEW d \in Devices, GetDevice(a, d)
            PROVE  \A b \in Agents : agent'[b].found = agent[b].found
        <5> DEFINE pc == IF dev[d].live THEN "status" ELSE "create"
                   w == [agent[a] EXCEPT !.pc = pc, !.d = d, !.copy = dev[d]]
                   v == [agent[a] EXCEPT !.todo = agent[a].todo \ {d}]
        <5>1. agent' = [agent EXCEPT ![a] = w] \/ agent' = [agent EXCEPT ![a] = v]
          BY <2>2, <4>1 DEF GetDevice
        <5>2. w.found = agent[a].found /\ v.found = agent[a].found
          BY <2>2 DEF Agent
        <5> HIDE DEF w, v
        <5> QED
          BY <2>2, <5>1, <5>2
      <4>2. ASSUME NextDevice(a)
            PROVE  \A b \in Agents : agent'[b].found = agent[b].found
        BY <2>2, <4>2 DEF NextDevice, Waiting
      <4>3. ASSUME agent' = [agent EXCEPT ![a].pc = "status", ![a].copy = NewCXIDevice]
            PROVE  \A b \in Agents : agent'[b].found = agent[b].found
        BY <2>2, <4>3 DEF Agent
      <4>4. ASSUME GetNode(a)
            PROVE  \A b \in Agents : agent'[b].found \in {agent[b].found, Waiting.found}
        <5> DEFINE w == [agent[a] EXCEPT !.pc = "label", !.labels = node]
        <5>1. agent' = [agent EXCEPT ![a] = Waiting] \/ agent' = [agent EXCEPT ![a] = w]
          BY <2>2, <4>4 DEF GetNode
        <5>2. w.found = agent[a].found
          BY <2>2 DEF Agent
        <5> HIDE DEF w
        <5> QED
          BY <2>2, <5>1, <5>2
      <4>5. ASSUME LabelNode(a)
            PROVE  \A b \in Agents : agent'[b].found \in {agent[b].found, Waiting.found}
        BY <2>2, <4>5 DEF LabelNode
      <4> QED
        BY <2>5, <4>1, <4>2, <4>3, <4>4, <4>5 DEF UpdateDevices, CreateDevice, UpdateStatus
    <3> QED
      BY <1>2, <2>1, <3>1, <3>2 DEF LabelsInv, WorksWithTaken
  <2>6. ASSUME NEW a \in Agents, Restart(a) PROVE LabelsInv' /\ taken \subseteq taken'
    <3>1. UNCHANGED taken /\ \A b \in Agents : agent'[b].found \in {agent[b].found, Waiting.found}
      BY <2>2, <2>6 DEF Restart
    <3> QED
      BY <1>2, <2>1, <3>1 DEF LabelsInv, WorksWithTaken
  <2>7. ASSUME Environment, ~\E a \in Agents : Restart(a) PROVE UNCHANGED <<taken, agent>>
    BY <2>7 DEF Environment, DeleteCXIDevice, HardwareChanges, LabelByAdmin
  <2> QED
    BY <1>2, <2>3, <2>4, <2>5, <2>6, <2>7 DEF Next, vars
<1> QED
  BY <1>1, <1>2

\* The Node is written by the admins, their own label only, and by an agent, from
\* one inventory and with the label of others as it is.
LEMMA NodeSteps ==
    ASSUME TypeOK, LabelsInv, [Next]_vars
    PROVE  \/ UNCHANGED <<node, admin>>
           \/ node' = [node EXCEPT !.admin = admin'] /\ admin' \in Admins
           \/ /\ UNCHANGED admin
              /\ \E found \in taken : node' = Relabelled(node, found)
<1>1. ASSUME NEW l \in Admins, LabelByAdmin(l)
      PROVE  node' = [node EXCEPT !.admin = admin'] /\ admin' \in Admins
  BY <1>1 DEF LabelByAdmin
<1>2. ASSUME NEW a \in Agents, LabelNode(a)
      PROVE  /\ UNCHANGED admin
             /\ UNCHANGED node \/ \E found \in taken : node' = Relabelled(node, found)
  BY <1>2 DEF LabelNode, LabelsInv, WorksWithTaken
<1>3. CASE UNCHANGED vars
  BY <1>3 DEF vars
<1>4. ASSUME NEW a \in Agents, UpdateDevices(a), ~LabelNode(a)
      PROVE  UNCHANGED <<node, admin>>
  BY <1>4 DEF UpdateDevices, Discover, GetDevice, CreateDevice, UpdateStatus, GetNode
<1>5. ASSUME Environment, ~\E l \in Admins : LabelByAdmin(l)
      PROVE  UNCHANGED <<node, admin>>
  BY <1>5 DEF Environment, DeleteCXIDevice, HardwareChanges, Restart
<1> QED
  BY <1>1, <1>2, <1>3, <1>4, <1>5 DEF Next

\* updateNodeLabels writes the whole Node, from a copy that may be old, in the place of
\* whatever others write meanwhile: no agent ever undoes a label that is not its own.
THEOREM LabelsOfOthersAreKept == Spec => []AdminLabelKept
<1>1. Init => AdminLabelKept
  BY DEF Init, NoLabels, AdminLabelKept
<1>2. TypeOK /\ LabelsInv /\ AdminLabelKept /\ [Next]_vars => AdminLabelKept'
  <2> SUFFICES ASSUME TypeOK, LabelsInv, AdminLabelKept, [Next]_vars PROVE AdminLabelKept'
    OBVIOUS
  <2>1. node \in Labels /\ taken \subseteq Inventory
    BY DEF TypeOK, Inventory
  <2>2. CASE UNCHANGED <<node, admin>>
    BY <2>2 DEF AdminLabelKept
  <2>3. CASE node' = [node EXCEPT !.admin = admin'] /\ admin' \in Admins
    BY <2>1, <2>3 DEF AdminLabelKept, Labels
  <2>4. CASE UNCHANGED admin /\ \E found \in taken : node' = Relabelled(node, found)
    BY <2>1, <2>4, RelabelledType DEF AdminLabelKept
  <2> QED
    BY <2>2, <2>3, <2>4, NodeSteps
<1> QED
  BY <1>1, <1>2, LabelsInvariant, AgentTypeCorrect, PTL DEF Spec

\* The labels of an inventory are its own, whoever's labels they were made of.
LEMMA RelabelledAgain ==
    ASSUME NEW labels \in Labels, NEW l \in Admins, NEW found
    PROVE  /\ Relabelled(Relabelled(labels, found), found) = Relabelled(labels, found)
           /\ Relabelled([labels EXCEPT !.admin = l], found)
                 = [Relabelled(labels, found) EXCEPT !.admin = l]
BY DEF Relabelled, Labels

\* However ticks, changes of the hardware and the writes of other agents interleave: the
\* labels of the Node are exactly those of one inventory that an agent took.
THEOREM LabelsOfOneInventory == Spec => []LabelsAreOneInventory
<1>1. Init => LabelsAreOneInventory
  <2> SUFFICES ASSUME Init PROVE LabelsAreOneInventory
    OBVIOUS
  <2>1. Nothing \in taken /\ node = [NoLabels EXCEPT !.admin = admin]
    BY DEF Init
  <2>2. Present(Nothing) = {}
        /\ [d \in Devices |-> Nothing[d].switch] = [d \in Devices |-> NoSwitch]
    BY AbsentType DEF Present, Nothing
  <2>3. Cardinality(Present(Nothing)) = 0
    BY <2>2, FS_EmptySet
  <2>4. node = Relabelled(node, Nothing)
    <3>1. /\ node.present = (Present(Nothing) # {}) /\ node.count = Cardinality(Present(Nothing))
          /\ node.switch = [d \in Devices |-> Nothing[d].switch]
      BY <2>1, <2>2, <2>3 DEF NoLabels
    <3>2. node \in Labels
      BY <2>1, InitType DEF TypeOK
    <3> QED
      BY <3>1, <3>2 DEF Relabelled, Labels
  <2> QED
    BY <2>1, <2>4 DEF LabelsAreOneInventory
<1>2. TypeOK /\ LabelsInv /\ LabelsAreOneInventory /\ [Next]_vars => LabelsAreOneInventory'
  <2> SUFFICES ASSUME TypeOK, LabelsInv, LabelsAreOneInventory, [Next]_vars
               PROVE  LabelsAreOneInventory'
    OBVIOUS
  <2>1. node \in Labels /\ taken \subseteq taken' /\ node.admin \in Admins
    BY LabelsInvariant DEF TypeOK, Labels
  <2>2. PICK found \in taken : node = Relabelled(node, found)
    BY DEF LabelsAreOneInventory
  <2>3. CASE UNCHANGED <<node, admin>>
    BY <2>1, <2>2, <2>3 DEF LabelsAreOneInventory
  <2>4. CASE node' = [node EXCEPT !.admin = admin'] /\ admin' \in Admins
    <3>1. Relabelled(node', found) = [Relabelled(node, found) EXCEPT !.admin = admin']
      BY <2>1, <2>4, RelabelledAgain
    <3>2. Relabelled(node', found) = node'
      BY <2>2, <2>4, <3>1
    <3> QED
      BY <2>1, <3>2 DEF LabelsAreOneInventory
  <2>5. ASSUME NEW other \in taken, node' = Relabelled(node, other)
        PROVE  LabelsAreOneInventory'
    <3>1. node' = Relabelled(node', other)
      BY <2>1, <2>5, RelabelledAgain
    <3> QED
      BY <2>1, <3>1 DEF LabelsAreOneInventory
  <2> QED
    BY <2>3, <2>4, <2>5, NodeSteps
<1> QED
  BY <1>1, <1>2, LabelsInvariant, AgentTypeCorrect, PTL DEF Spec
=============================================================================

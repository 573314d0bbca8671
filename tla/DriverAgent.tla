---------------------------- MODULE DriverAgent ----------------------------
(***************************************************************************)
(* The device watcher of the driver agent (pkg/driveragent): at every tick *)
(* it takes stock of the node's CXI devices, writes what it found to one   *)
(* CXIDevice resource per device and then to the labels of the Node.  The  *)
(* agent reads and writes the API server directly, each object in a Get    *)
(* and an Update that the API server refuses when the object changed in    *)
(* between; an error is logged and left to the next tick.                  *)
(*                                                                         *)
(* Devices appear, vanish and change while a tick is under way; users      *)
(* delete CXIDevices and label the Node; the agent's container restarts.   *)
(* There is one agent per node and CXIDriver, and so there are two where   *)
(* two CXIDrivers are deployed at once (CXIDriverSingleton: SingleManager).*)
(*                                                                         *)
(* An object is what its writers put in it, not its resourceVersion: an    *)
(* Update from a copy equal to the stored object is one the agent could    *)
(* have read just before.  A Node whose status alone changed refuses an    *)
(* Update too; that is a failed call.                                      *)
(***************************************************************************)
EXTENDS Naturals, FiniteSets

CONSTANTS
    Agents,      \* driver agents on the node
    Devices,     \* names a device can have
    Links,       \* link states of the devices, or some of them
    Switches,    \* switch ids the NIDs of the devices yield
    NoSwitch,    \* the NID is not available
    Admins,      \* values of a Node label that others set
    MaxChanges,  \* bound: changes of the hardware and writes of the users
    MaxFaults    \* bound: failed calls and restarts of an agent

ASSUME LinksAssumption == Links \subseteq {"up", "down", "unknown"}
ASSUME NoSwitchAssumption == NoSwitch \notin Switches
ASSUME AdminsAssumption == Admins # {}
ASSUME DevicesAssumption == IsFiniteSet(Devices) /\ Devices # {}
ASSUME AgentBoundsAssumption == MaxChanges \in Nat /\ MaxFaults \in Nat

VARIABLES
    hw,       \* the devices in /sys/class/cxi
    dev,      \* API server: the CXIDevices
    node,     \* API server: the Node's labels
    admin,    \* the value last given to the label of others
    agent,    \* what each agent is doing
    taken,    \* history: the inventories the agents have taken
    changes,  \* changes made so far
    faults    \* failures still to come

vars == <<hw, dev, node, admin, agent, taken, changes, faults>>

-----------------------------------------------------------------------------
Ids == Switches \cup {NoSwitch}

\* A device as it is discovered and reported: the link, which decides the
\* health as well and is unknown where it cannot be read, and the switch id.
Absent == [link |-> "none", switch |-> NoSwitch]
Hardware == {Absent} \cup [link : Links, switch : Ids]

\* A created CXIDevice has an empty status at first.
CXIDevice == [live : BOOLEAN, status : Hardware]
NoCXIDevice == [live |-> FALSE, status |-> Absent]
NewCXIDevice == [live |-> TRUE, status |-> Absent]

Labels == [present : BOOLEAN, count : Nat, switch : [Devices -> Ids], admin : Admins]

Present(found) == {d \in Devices : found[d] # Absent}

\* The labels updateNodeLabels makes of the ones it read: those of devices
\* that are gone, or have lost their NID, are removed.
Relabelled(labels, found) ==
    [labels EXCEPT !.present = (Present(found) # {}),
                   !.count = Cardinality(Present(found)),
                   !.switch = [d \in Devices |-> found[d].switch]]

Nothing == [d \in Devices |-> Absent]

\* found is what a tick discovered and todo what it has yet to report, d is the device
\* whose turn it is, copy its CXIDevice as it was read, labels those of the Node.
Agent == [pc : {"wait", "devices", "create", "status", "node", "label"},
          found : [Devices -> Hardware], todo : SUBSET Devices,
          d : Devices, copy : CXIDevice, labels : Labels]

NoLabels == [present |-> FALSE, count |-> 0, switch |-> [d \in Devices |-> NoSwitch],
             admin |-> CHOOSE l \in Admins : TRUE]

\* Between two ticks.
Waiting == [pc |-> "wait", found |-> Nothing, todo |-> {},
            d |-> CHOOSE d \in Devices : TRUE, copy |-> NoCXIDevice, labels |-> NoLabels]

TypeOK ==
    /\ hw \in [Devices -> Hardware]
    /\ dev \in [Devices -> CXIDevice]
    /\ node \in Labels
    /\ admin \in Admins
    /\ agent \in [Agents -> Agent]
    /\ \A a \in Agents : agent[a].pc \in {"create", "status"} =>
          agent[a].d \in agent[a].todo /\ (agent[a].copy.live <=> agent[a].pc = "status")
    /\ taken \subseteq [Devices -> Hardware]
    /\ changes \in Nat
    /\ faults \in Nat

\* Nothing discovered, nothing reported; the Node's labels are the admins' own.
Init ==
    /\ hw = Nothing
    /\ dev = [d \in Devices |-> NoCXIDevice]
    /\ admin \in Admins
    /\ node = [NoLabels EXCEPT !.admin = admin]
    /\ agent = [a \in Agents |-> Waiting]
    /\ taken = {Nothing}
    /\ changes = 0
    /\ faults = MaxFaults

-----------------------------------------------------------------------------
(***************************************************************************)
(* Hardware, users, and the container.                                     *)
(***************************************************************************)

Change == changes < MaxChanges /\ changes' = changes + 1

HardwareChanges(d, h) ==
    /\ h # hw[d]
    /\ hw' = [hw EXCEPT ![d] = h]
    /\ Change
    /\ UNCHANGED <<dev, node, admin, agent, taken, faults>>

DeleteCXIDevice(d) ==
    /\ dev[d].live
    /\ dev' = [dev EXCEPT ![d] = NoCXIDevice]
    /\ Change
    /\ UNCHANGED <<hw, node, admin, agent, taken, faults>>

LabelByAdmin(l) ==
    /\ l # admin
    /\ admin' = l
    /\ node' = [node EXCEPT !.admin = l]
    /\ Change
    /\ UNCHANGED <<hw, dev, agent, taken, faults>>

Fault == faults > 0 /\ faults' = faults - 1

Restart(a) ==
    /\ agent[a].pc # "wait"
    /\ Fault
    /\ agent' = [agent EXCEPT ![a] = Waiting]
    /\ UNCHANGED <<hw, dev, node, admin, taken, changes>>

-----------------------------------------------------------------------------
(***************************************************************************)
(* updateDevices.                                                          *)
(***************************************************************************)

\* A tick, also the one at the start.  Without /sys/class/cxi there are no
\* devices; when it cannot be read the tick is over.
Discover(a) ==
    /\ agent[a].pc = "wait"
    /\ agent' = [agent EXCEPT ![a].pc = "devices", ![a].found = hw,
                              ![a].todo = Present(hw)]
    /\ taken' = taken \cup {hw}
    /\ UNCHANGED <<hw, dev, node, admin, changes, faults>>

\* Whatever becomes of a device, the next one is taken up.
NextDevice(a) ==
    agent' = [agent EXCEPT ![a] =
                [Waiting EXCEPT !.pc = "devices", !.found = agent[a].found,
                                !.todo = agent[a].todo \ {agent[a].d}]]

\* Slip: every device is taken to have its CXIDevice.
GetDeviceUnchecked(a, d) ==
    /\ agent[a].pc = "devices"
    /\ d \in agent[a].todo
    /\ agent' = [agent EXCEPT ![a].pc = "status", ![a].d = d, ![a].copy = dev[d]]
    /\ UNCHANGED <<hw, dev, node, admin, taken, changes, faults>>

GetDevice(a, d) ==
    /\ agent[a].pc = "devices"
    /\ d \in agent[a].todo
    /\ \/ /\ agent' = [agent EXCEPT ![a].pc = IF dev[d].live THEN "status" ELSE "create",
                                    ![a].d = d, ![a].copy = dev[d]]
          /\ UNCHANGED faults
       \/ agent' = [agent EXCEPT ![a].todo = @ \ {d}] /\ Fault
    /\ UNCHANGED <<hw, dev, node, admin, taken, changes>>

\* A CXIDevice that another agent created meanwhile is an error.
CreateDevice(a) ==
    LET d == agent[a].d IN
    /\ agent[a].pc = "create"
    /\ \/ /\ ~dev[d].live
          /\ dev' = [dev EXCEPT ![d] = NewCXIDevice]
          /\ \/ agent' = [agent EXCEPT ![a].pc = "status", ![a].copy = NewCXIDevice]
                /\ UNCHANGED faults
             \/ NextDevice(a) /\ Fault
       \/ dev[d].live /\ NextDevice(a) /\ UNCHANGED <<dev, faults>>
       \/ NextDevice(a) /\ Fault /\ UNCHANGED dev
    /\ UNCHANGED <<hw, node, admin, taken, changes>>

\* Slip: the copy's status is completed, where it should be replaced.
UpdateStatusOnce(a) ==
    LET d == agent[a].d IN
    /\ agent[a].pc = "status"
    /\ \/ /\ dev[d] = agent[a].copy
          /\ dev' = [dev EXCEPT ![d].status = IF @ = Absent THEN agent[a].found[d] ELSE @]
       \/ dev[d] # agent[a].copy /\ UNCHANGED dev
    /\ NextDevice(a)
    /\ UNCHANGED <<hw, node, admin, taken, changes, faults>>

UpdateStatus(a) ==
    LET d == agent[a].d IN
    /\ agent[a].pc = "status"
    /\ \/ /\ dev[d] = agent[a].copy
          /\ dev' = [dev EXCEPT ![d].status = agent[a].found[d]]
          /\ UNCHANGED faults \/ Fault
       \/ dev[d] # agent[a].copy /\ UNCHANGED <<dev, faults>>
       \/ Fault /\ UNCHANGED dev
    /\ NextDevice(a)
    /\ UNCHANGED <<hw, node, admin, taken, changes>>

\* Slip: there is nothing to label on a node without devices.
GetNodeWithDevices(a) ==
    /\ agent[a].pc = "devices"
    /\ agent[a].todo = {}
    /\ agent' = [agent EXCEPT
                   ![a] = IF Present(@.found) = {} THEN Waiting
                          ELSE [@ EXCEPT !.pc = "label", !.labels = node]]
    /\ UNCHANGED <<hw, dev, node, admin, taken, changes, faults>>

\* With its devices done the agent reads the Node, and writes it if a label differs.
GetNode(a) ==
    /\ agent[a].pc = "devices"
    /\ agent[a].todo = {}
    /\ \/ /\ agent' = [agent EXCEPT
                         ![a] = IF Relabelled(node, @.found) = node THEN Waiting
                                ELSE [@ EXCEPT !.pc = "label", !.labels = node]]
          /\ UNCHANGED faults
       \/ agent' = [agent EXCEPT ![a] = Waiting] /\ Fault
    /\ UNCHANGED <<hw, dev, node, admin, taken, changes>>

\* Slip: the labels are applied as they are, whatever the Node has by now.
LabelNodeForced(a) ==
    /\ agent[a].pc = "label"
    /\ node' = Relabelled(agent[a].labels, agent[a].found)
    /\ agent' = [agent EXCEPT ![a] = Waiting]
    /\ UNCHANGED <<hw, dev, admin, taken, changes, faults>>

\* Slip: a merge patch of the labels that differ from the copy, where a Node that
\* changed meanwhile should refuse the Update.
LabelNodePatched(a) ==
    LET old == agent[a].labels
        new == Relabelled(old, agent[a].found)
        Patched(mine, now, its) == IF mine = now THEN its ELSE now
    IN
    /\ agent[a].pc = "label"
    /\ node' = [present |-> Patched(old.present, new.present, node.present),
                count   |-> Patched(old.count, new.count, node.count),
                switch  |-> [d \in Devices |->
                                Patched(old.switch[d], new.switch[d], node.switch[d])],
                admin   |-> node.admin]
    /\ agent' = [agent EXCEPT ![a] = Waiting]
    /\ UNCHANGED <<hw, dev, admin, taken, changes, faults>>

LabelNode(a) ==
    /\ agent[a].pc = "label"
    /\ \/ /\ node = agent[a].labels
          /\ node' = Relabelled(node, agent[a].found)
          /\ UNCHANGED faults \/ Fault
       \/ node # agent[a].labels /\ UNCHANGED <<node, faults>>
       \/ Fault /\ UNCHANGED node
    /\ agent' = [agent EXCEPT ![a] = Waiting]
    /\ UNCHANGED <<hw, dev, admin, taken, changes>>

UpdateDevices(a) ==
    \/ Discover(a)
    \/ \E d \in Devices : GetDevice(a, d)
    \/ CreateDevice(a) \/ UpdateStatus(a)
    \/ GetNode(a) \/ LabelNode(a)

Environment ==
    \/ \E d \in Devices : DeleteCXIDevice(d) \/ \E h \in Hardware : HardwareChanges(d, h)
    \/ \E l \in Admins : LabelByAdmin(l)
    \/ \E a \in Agents : Restart(a)

Next == Environment \/ \E a \in Agents : UpdateDevices(a)

Spec == Init /\ [][Next]_vars

\* The ticker fires, and the goroutine goes on.
FairSpec == Spec /\ \A a \in Agents : WF_vars(UpdateDevices(a))

-----------------------------------------------------------------------------
(***************************************************************************)
(* Properties.                                                             *)
(***************************************************************************)

\* The agent writes the whole Node from a copy, and yet undoes nobody's label.
AdminLabelKept == node.admin = admin

\* The labels are always those of one inventory that an agent took, never a mixture of
\* two: presence, count and the switch id of every device are of the same moment.
LabelsAreOneInventory == \E found \in taken : node = Relabelled(node, found)

\* Once the hardware stays as it is, the labels come to describe it.
LabelsSettle ==
    \A h \in [Devices -> Hardware] :
        <>[](hw = h) => <>[](Relabelled(node, h) = node)

\* ... and every device comes to have a CXIDevice that says how it is, whoever deletes
\* it and whichever calls fail.
DevicesAreReported ==
    \A d \in Devices, h \in Hardware \ {Absent} :
        <>[](hw[d] = h) => <>[](dev[d] = [live |-> TRUE, status |-> h])

\* A CXIDevice "represents a discovered CXI device on a node": one whose device is gone
\* does not stay there as if its link were up.
VanishedIsNoticed ==
    \A d \in Devices : <>[](hw[d] = Absent) => <>[](dev[d].status.link # "up")
=============================================================================

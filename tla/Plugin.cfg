SPECIFICATION FairSpec
CONSTANTS
    cxi0 = cxi0
    cxi1 = cxi1
    slot0 = slot0
    slot1 = slot1
    p1 = p1
    p2 = p2
    pod1 = pod1
    pod2 = pod2
    pod3 = pod3
    Plugins = {p1, p2}
    NoPlugin = NoPlugin
    Devices = {cxi0, cxi1}
    Slots = {slot0}
    Modes = {"shared", "exclusive"}
    Pods = {pod1, pod2}
    MaxUnits = 2
    MaxChanges = 1
    MaxFaults = 2
    MaxRemovals = 1
    MaxKubeletRestarts = 1
INVARIANTS
    TypeOK
    SharingIsBounded
PROPERTY OfferedAfterStart
CHECK_DEADLOCK FALSE

SPECIFICATION Spec
CONSTANTS
    cxi0 = cxi0
    cxi1 = cxi1
    slot0 = slot0
    slot1 = slot1
    p1 = p1
    p2 = p2
    pod1 = pod1
    pod2 = pod2
    pod3 = pod3
    Plugins = {p1}
    NoPlugin = NoPlugin
    Devices = {cxi0, cxi1}
    Slots = {slot0, slot1}
    Modes = {"shared"}
    Pods = {pod1}
    MaxUnits = 2
    MaxChanges = 1
    MaxFaults = 0
    MaxRemovals = 0
    MaxKubeletRestarts = 0
PROPERTY SharedPodsGetAllDevices
CHECK_DEADLOCK FALSE

\* With MaxKubeletRestarts = 0, MaxRemovals = 1 and Plugins = {p1, p2} the same claim
\* fails for another reason: the plugin the kubelet is connected to is removed.
SPECIFICATION FairSpec
CONSTANTS
    cxi0 = cxi0
    cxi1 = cxi1
    slot0 = slot0
    slot1 = slot1
    p1 = p1
    p2 = p2
    pod1 = pod1
    pod2 = pod2
    pod3 = pod3
    Plugins = {p1}
    NoPlugin = NoPlugin
    Devices = {cxi0, cxi1}
    Slots = {slot0, slot1}
    Modes = {"exclusive"}
    Pods = {pod1}
    MaxUnits = 2
    MaxChanges = 0
    MaxFaults = 0
    MaxRemovals = 0
    MaxKubeletRestarts = 1
PROPERTY DevicesAreOffered
CHECK_DEADLOCK FALSE

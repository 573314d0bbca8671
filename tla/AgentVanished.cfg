SPECIFICATION FairSpec
CONSTANTS
    cxi0 = cxi0
    cxi1 = cxi1
    s1 = s1
    s2 = s2
    a1 = a1
    a2 = a2
    Agents = {a1}
    Devices = {cxi0}
    Links = {"up", "down", "unknown"}
    Switches = {s1}
    NoSwitch = "none"
    Admins = {"x"}
    MaxChanges = 2
    MaxFaults = 0
PROPERTY VanishedIsNoticed

SPECIFICATION FairSpec
CONSTANTS
    cxi0 = cxi0
    cxi1 = cxi1
    s1 = s1
    s2 = s2
    a1 = a1
    a2 = a2
    Agents = {a1, a2}
    Devices = {cxi0, cxi1}
    Links = {"up"}
    Switches = {s1}
    NoSwitch = "none"
    Admins = {"x", "y"}
    MaxChanges = 2
    MaxFaults = 1
INVARIANTS
    TypeOK
    AdminLabelKept
    LabelsAreOneInventory
PROPERTIES
    LabelsSettle
    DevicesAreReported

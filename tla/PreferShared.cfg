SPECIFICATION Spec
CONSTANTS
    cxi0 = cxi0
    cxi1 = cxi1
    cxi2 = cxi2
    cxi3 = cxi3
    Devices = {cxi0, cxi1}
    Mode = "shared"
    MaxNode = 1
SYMMETRY Symmetry
INVARIANT MustIncludeIsKept
CHECK_DEADLOCK FALSE

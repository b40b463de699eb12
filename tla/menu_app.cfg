SPECIFICATION FairSpec
CONSTANTS
    Limits = {60, 100}
    Machines <- Macs
    MaxChanges = 5
    MaxGlitches = 1
INVARIANTS
    OfferedIsAccepted
    ControlsAgree
PROPERTIES
    MenuCatchesUp

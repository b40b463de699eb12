SPECIFICATION Spec
CONSTANTS
    Limits = {60, 100}
    Machines <- Macs
    MaxChanges = 4
    MaxGlitches = 1
PROPERTIES
    FailedReadDisables

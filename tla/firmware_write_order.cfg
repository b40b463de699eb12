SPECIFICATION Spec
CONSTANTS
    Limits <- MCLimits
    Deltas <- MCDeltas
    MaxEvents = 5
INVARIANTS WriteOrderKept

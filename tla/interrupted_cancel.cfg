SPECIFICATION Spec
CONSTANTS
    Limits <- MCLimits
    Deltas <- MCDeltas
    MaxEvents = 4
INVARIANTS ChargePhaseAlwaysUncapped

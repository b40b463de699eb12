SPECIFICATION FairSpec
CONSTANTS
    Limits <- MCLimits
    Deltas <- MCDeltas
    MaxEvents = 5
INVARIANTS SequenceSetsOnePair
PROPERTIES ChargePhaseStaysUncapped LimitIsRestored

CONSTANTS
    Width = 8
    PKTS_TO_CONSIDER_FOR_PKT_LOSS = 4
    MaxPkts = 3
    Elapsed <- MCElapsed
    Mults <- MCMultsOne
    TrackSla <- MCTrackOn
SPECIFICATION Spec
INVARIANT NoDivByZero

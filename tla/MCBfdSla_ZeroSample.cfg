CONSTANTS
    Width = 8
    PKTS_TO_CONSIDER_FOR_PKT_LOSS = 4
    MaxPkts = 3
    Elapsed <- MCElapsedWithZero
    Mults <- MCSteadyMults
    TrackSla <- MCTrackOn
SPECIFICATION Spec
INVARIANT SteadyReportIsAverage

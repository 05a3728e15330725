CONSTANTS
    DefDesiredMinTx = 1000
    DefRequiredMinRx = 1000
    DefReqMinEcho = 1000
    DefDetectMult = 3
    NoVal = NoVal
    MyDiscr = 1
    PeerDiscrs <- MCPeerDiscrs
    PeerIntervals <- MCPeerIntervals
    PeerEchoIntervals <- MCPeerEchoIntervals
    PeerMults <- MCPeerMults
    CfgTx <- MCCfgTx
    CfgRx <- MCCfgRx
    CfgEcho <- MCCfgEcho
    CfgMults <- MCCfgMults
    CfgTrackSla <- MCCfgTrackSla
SPECIFICATION Spec
INVARIANT
    EchoDetectOnlyWithEcho

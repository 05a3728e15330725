CONSTANTS
    DefDesiredMinTx = 1000
    DefRequiredMinRx = 1000
    DefReqMinEcho = 1000
    DefDetectMult = 3
    NoVal = NoVal
    a = a  b = b
    EndA = a
    EndB = b
    Discr <- MCDiscr
    CfgTx <- MCCfgTx
    CfgMults <- MCCfgMults
    InitBpcs <- MCInitBpcs
    UpdBpcs <- MCUpdBpcs
    Cap = 1
    MaxFaults = 1
    MaxUpdates = 1
SPECIFICATION Spec
PROPERTIES
    BringUp

CONSTANTS
    ActiveModules <- TwoModules
    Packets = {1, 2, 3}
    TimeOf <- OneEachTime
    SrcOf <- FromA
    DstOf <- FirstTwoToB
    Hits <- FirstTwoHit
    DosNumber = 2
    DosWindow = 1
    Runs = {r1}
    Limit = 2
    MaxTime = 3
    MaxInterruptions = 1
    MaxLapses = 1
SPECIFICATION FairSpec
INVARIANTS
    HitsAlerted
    AlertedOncePerInterruption
    FloodsCountPackets
PROPERTIES
    HitsAlertedInTheEnd

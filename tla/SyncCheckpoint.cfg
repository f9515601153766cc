CONSTANTS
    bg = bg bm = bm ba1 = ba1 ba2 = ba2 ba3 = ba3 bb1 = bb1 bb2 = bb2 ba4 = ba4
    xm = xm xa1 = xa1 xa2 = xa2 xa3 = xa3 xb1 = xb1 xb2 = xb2 xa4 = xa4
    pay = pay pay2 = pay2 sa = sa sb = sb
    Blocks <- MCBlocks
    Genesis = bg
    None = None
    Prev <- MCPrev
    Anc <- MCAnc
    nHeight <- MCHeight
    nChainTrust <- MCTrust
    Tx <- MCTx
    vtx <- MCvtx
    vin <- MCVin
    OutPoints <- MCOutPoints
    CoinBases <- MCCoinBases
    CoinStakes <- MCCoinStakes
    ZeroValue = {}
    Proof <- MCProof
    BadBlocks = {}
    Rejected = {}
    nCoinbaseMaturity = 1
    nStakeMinConfirmations = 2
    MaxRestarts = 1
    Plans <- MCPlans
    Hardened = bm
    CheckpointsMode = "strict"
SPECIFICATION SyncFairSpec
INVARIANTS DatabaseOK CheckpointOnBest PendingTakenUp
PROPERTIES CheckpointAdvances TrustDropsForCheckpoint CheckpointTaken

CONSTANTS
    g = g m = m a1 = a1 a2 = a2 a3 = a3 b1 = b1 b2 = b2 b3 = b3
    cm = cm c2 = c2 c3 = c3 sp = sp rp = rp sp2 = sp2 sp3 = sp3 sq = sq sq2 = sq2 rq = rq p = p q = q
    Blocks <- MCBlocks
    Genesis = g
    None = None
    Prev <- MCPrev
    Anc <- MCAnc
    nHeight <- MCHeight
    nChainTrust <- MCTrust
    Tx <- MCTx
    vtx <- MCvtx
    vin <- MCVin
    OutPoints <- MCOutPoints
    CoinBases = {cm, c2, c3}
    CoinStakes = {}
    ZeroValue = {}
    Proof <- MCProof
    BadBlocks = {}
    Rejected = {}
    nCoinbaseMaturity = 0
    nStakeMinConfirmations = 1
    MaxRestarts = 2
    Aliases = {p, q}
    Op <- MCOp
    AliasOf <- MCAliasOf
    scaleMonitor = 2
    nScanHeight = 1
    WORD = 65536
SPECIFICATION AliasSpec
INVARIANTS AliasIndexOK AliasEntriesOK

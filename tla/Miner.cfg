CONSTANTS
    g = g m = m n = n a1 = a1 b1 = b1 b2 = b2
    cm = cm cn = cn ca1 = ca1 cb1 = cb1 cb2 = cb2 t = t u = u v = v w = w
    Blocks <- MCBlocks
    Genesis = g
    None = None
    Prev <- MCPrev
    Anc <- MCAnc
    nHeight <- MCHeight
    nChainTrust <- MCTrust
    Tx <- MCTx
    vtx <- MCvtx
    vin <- MCVin
    OutPoints <- MCOutPoints
    CoinBases <- MCCoinBases
    CoinStakes = {}
    ZeroValue = {}
    Proof <- MCProof
    BadBlocks = {}
    Rejected = {}
    nCoinbaseMaturity = 1
    nStakeMinConfirmations = 1
    MaxRestarts = 1
    NotRelayed = {}
    FreeTxs = {}
    AliasRelays = {}
    LargeTxs = {}
    Removable = {t}
    nTotalBlocksEstimate = 1
    MAX_ORPHAN_TRANSACTIONS = 1
SPECIFICATION MinerSpec
INVARIANTS BlockConnects

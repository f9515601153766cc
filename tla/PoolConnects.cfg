CONSTANTS
    g = g m = m n = n a1 = a1 a2 = a2 b1 = b1 b2 = b2 b3 = b3 x = x
    cm = cm cn = cn ca1 = ca1 ca2 = ca2 cb1 = cb1 cb2 = cb2 cb3 = cb3 cx = cx t = t u = u v = v w = w y = y z = z
    name1 = name1 name2 = name2
    Blocks <- MCBlocks
    Genesis = g
    None = None
    Prev <- MCPrev
    Anc <- MCAnc
    nHeight <- MCHeight
    nChainTrust <- MCTrust
    Tx <- MCTx
    vtx <- MCvtx
    vin <- MCVin
    OutPoints <- MCOutPoints
    CoinBases <- MCCoinBases
    CoinStakes = {}
    ZeroValue = {}
    Proof <- MCProof
    BadBlocks = {x}
    Rejected = {}
    nCoinbaseMaturity = 1
    nStakeMinConfirmations = 1
    MaxRestarts = 0
    NotRelayed = {w}
    FreeTxs = {y}
    AliasRelays = {u}
    LargeTxs = {v}
    Removable = {}
    nTotalBlocksEstimate = 2
    MAX_ORPHAN_TRANSACTIONS = 2
    Aliases = {name1, name2}
    Op <- MCOp
    AliasOf <- MCAliasOf
SPECIFICATION PendingSpec
INVARIANT PoolConnects

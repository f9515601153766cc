CONSTANTS
    g = g m = m a1 = a1 a2 = a2 d = d b1 = b1 b2 = b2 b3 = b3 x = x e = e f = f
    cm = cm ca1 = ca1 ca2 = ca2 cd = cd cb1 = cb1 cb2 = cb2 cb3 = cb3 cx = cx ce = ce cf = cf
    t = t u = u v = v w = w s1 = s1 s2 = s2 s3 = s3
    Blocks <- MCBlocks
    Genesis = g
    None = None
    Prev <- MCPrev
    Anc <- MCAnc
    nHeight <- MCHeight
    nChainTrust <- MCTrust
    Tx <- MCTx
    vtx <- MCvtx
    vin <- MCVin
    OutPoints <- MCOutPoints
    CoinBases <- MCCoinBases
    CoinStakes <- MCCoinStakes
    ZeroValue = {}
    Proof <- MCProof
    BadBlocks = {x}
    Rejected = {}
    nCoinbaseMaturity = 1
    nStakeMinConfirmations = 2
    MaxRestarts = 1
SPECIFICATION FairSpec
INVARIANTS TypeOK TxIndexOK LinksOK TipsAgree NoDoubleSpend BestIsHeaviest NoStrandedOrphan
PROPERTIES BestTrustGrows ConvergesUnlessRestarted

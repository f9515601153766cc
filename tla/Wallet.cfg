SPECIFICATION WalletSpec
CONSTANTS
    nKeyPool = 2
    MaxKeys = 12
    Threads = {th1, th2}
    Ln1 = cdbLn1
    Wallet = fileWallet
    Aliases = fileAliases
INVARIANTS FilesWhole PoolReadable NoKeyReuse NoUseAfterClose UseCountsExact LogKept
PROPERTY RetiredUnlessInterrupted

SPECIFICATION MiningSpec
CONSTANTS
    nKeyPool = 2
    MaxKeys = 12
INVARIANT NoKeyReuse


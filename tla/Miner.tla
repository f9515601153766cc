------------------------------- MODULE Miner -------------------------------
(***************************************************************************)
(* The stake miner (miner.cpp), on top of chain and pool.  CreateNewBlock  *)
(* reads the tip before it takes cs_main, collects transactions under      *)
(* cs_main later, releases it, looks for a stake, and takes it again in    *)
(* CheckStake to hand the block in: the chain moves in between.            *)
(***************************************************************************)
EXTENDS Mempool

VARIABLES
    minerPc,        \* where StakeMiner is
    pindexPrev,     \* the tip CreateNewBlock has read
    blockTxs        \* the pool transactions it has put in the block

miner     == <<minerPc, pindexPrev, blockTxs>>
minerVars == <<allVars, miner>>

\* An input that FetchInputs and ConnectInputs accept with fMiner, for a block on
\* pindexPrev that holds S.
MinerInputOK(S, o) ==
    \/ o[1] \in S
    \/ /\ disk.txPos[o[1]] # None
       /\ disk.vSpent[o] # None => o \in ZeroValue
       /\ o[1] \in CoinBases \cup CoinStakes /\ disk.txPos[o[1]] \in Anc[pindexPrev] =>
             nHeight[pindexPrev] - nHeight[disk.txPos[o[1]]] >= nCoinbaseMaturity

\* S can be collected, in an order in which inputs come first; size, fees and
\* time stamps may leave any transaction out, and with it what depends on it.
Collectable(S) == \A t \in S : \A o \in vin[t] : MinerInputOK(S, o)

\* CreateNewBlock, before the lock.
ReadTip ==
    /\ minerPc = "wait"
    /\ minerPc' = "read"
    /\ pindexPrev' = pindexBest
    /\ UNCHANGED <<allVars, blockTxs>>

\* CreateNewBlock, under cs_main.
CollectTransactions ==
    /\ minerPc = "read"
    /\ CsMainFree
    /\ minerPc' = "built"
    /\ \E S \in SUBSET mapTx : Collectable(S) /\ blockTxs' = S
    /\ UNCHANGED <<allVars, pindexPrev>>

\* Mutant: the block is handed in whatever the tip is.
CheckStakeAnyway ==
    /\ minerPc = "built"
    /\ CsMainFree
    /\ minerPc' = "submit"
    /\ UNCHANGED <<allVars, pindexPrev, blockTxs>>

\* CheckStake, CheckWork: under cs_main, a block whose parent is no longer the
\* tip is stale; any other goes to ProcessBlock under the same lock.
CheckStake ==
    /\ minerPc = "built"
    /\ CsMainFree
    /\ pindexPrev = pindexBest
    /\ minerPc' = "submit"
    /\ UNCHANGED <<allVars, pindexPrev, blockTxs>>

\* The block has been processed, is stale, or no stake was found for it.
StartOver ==
    /\ minerPc \in {"built", "submit"}
    /\ minerPc' = "wait"
    /\ pindexPrev' = None
    /\ blockTxs' = {}
    /\ UNCHANGED allVars

MinerInit ==
    /\ PoolInit
    /\ minerPc = "wait" /\ pindexPrev = None /\ blockTxs = {}

\* Chain and pool move while the miner does not hold cs_main.
OthersStep ==
    /\ minerPc # "submit"
    /\ PoolStep \/ (txQueue = <<>> /\ BlockStep)
    /\ UNCHANGED miner

RestartMiner ==
    /\ RestartPool
    /\ minerPc' = "wait" /\ pindexPrev' = None /\ blockTxs' = {}

MinerNext ==
    \/ ReadTip \/ CollectTransactions \/ CheckStake \/ StartOver
    \/ OthersStep
    \/ RestartMiner

MinerSpec == MinerInit /\ [][MinerNext]_minerVars

-----------------------------------------------------------------------------
(* Properties.                                                             *)

\* Every variable of the miner has the type of the local it models.
MinerTypeOK ==
    /\ PoolTypeOK
    /\ minerPc \in {"wait", "read", "built", "submit"}
    /\ pindexPrev \in Blocks \cup {None}
    /\ blockTxs \subseteq Tx

\* The transactions of a block the miner hands in connect to the tip: none is in
\* the chain already, no two spend the same output, and every input is in the
\* block, or in the chain, unspent and mature for the height of the block.
BlockConnects ==
    minerPc = "submit" =>
        \A t \in blockTxs :
            /\ disk.txPos[t] = None
            /\ \A o \in vin[t] :
                  /\ \A t2 \in blockTxs \ {t} : o \notin vin[t2]
                  /\ \/ o[1] \in blockTxs
                     \/ /\ disk.txPos[o[1]] # None
                        /\ disk.vSpent[o] # None => o \in ZeroValue
                        /\ (/\ o[1] \in CoinBases \cup CoinStakes
                            /\ disk.txPos[o[1]] \in Anc[pindexBest]) =>
                           nHeight[pindexBest] + 1 - nHeight[disk.txPos[o[1]]] >= nCoinbaseMaturity
=============================================================================

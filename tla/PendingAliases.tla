--------------------------- MODULE PendingAliases ---------------------------
(***************************************************************************)
(* The operations on aliases that wait for a block (dions.cpp, mapState),  *)
(* on top of the memory pool: entered when the pool takes a transaction,   *)
(* erased when it leaves the pool and whenever ConnectInputs has met it in *)
(* a block, whatever becomes of that block.  The wallet's commands refuse  *)
(* to work on an alias that has a pending operation.                       *)
(*                                                                         *)
(* Every step is a step of Mempool.                                        *)
(***************************************************************************)
EXTENDS Mempool

CONSTANTS
    Aliases,
    Op,                 \* "set" (OP_ALIAS_SET), "other" operation, or "none"
    AliasOf             \* the alias it is about

ASSUME PendingAssumption ==
    /\ Op \in [Tx -> {"set", "other", "none"}]
    /\ AliasOf \in [Tx -> Aliases]

VARIABLES
    mapState,           \* alias -> pending transactions
    lost                \* history: refused by AcceptToMemoryPoolPost, or met in a block that failed

pendingVars == <<mapState, lost>>
pendingAll  == <<allVars, pendingVars>>

AliasOps == {t \in Tx : Op[t] # "none"}

Erased(S) == [a \in Aliases |-> mapState[a] \ S]

-----------------------------------------------------------------------------
\* Mutant: only the first operation on an alias is entered.
AcceptFirstOnly(t) ==
    \/ /\ t \in AliasOps
       /\ mapState' = [mapState EXCEPT ![AliasOf[t]] = IF @ = {} THEN {t} ELSE @]
       /\ lost' = lost \ {t}
    \/ /\ Op[t] = "set"
       /\ lost' = lost \cup {t}
       /\ UNCHANGED mapState
    \/ /\ t \notin AliasOps
       /\ UNCHANGED pendingVars

\* t enters the pool.  The index of aliases, which is not here, may have an alias
\* that is to be set and has not expired: then the operation is not entered, and
\* AcceptToMemoryPool goes on all the same.
AcceptToMemoryPoolPost(t) ==
    \/ /\ t \in AliasOps
       /\ mapState' = [mapState EXCEPT ![AliasOf[t]] = @ \cup {t}]
       /\ lost' = lost \ {t}
    \/ /\ Op[t] = "set"
       /\ lost' = lost \cup {t}
       /\ UNCHANGED mapState
    \/ /\ t \notin AliasOps
       /\ UNCHANGED pendingVars

\* The tx message, the wallet, rmtx, and the end of Reorganize: at most one
\* transaction enters the pool, or some leave it.
PendingPoolStep ==
    /\ PoolStep
    /\ \/ \E t \in mapTx' \ mapTx : AcceptToMemoryPoolPost(t)
       \/ /\ mapTx' \subseteq mapTx
          /\ mapState' = Erased(mapTx \ mapTx')
          /\ lost' = lost \cap mapTx'

\* A block is connected, and then taken out of the pool, or, in Reorganize, later.
PendingConnect ==
    /\ \/ ExtendPool /\ mapState' = Erased(TxsOf(pblock))
       \/ ExtendPoolPostponed /\ mapState' = Erased(TxsOf(NextTowards(cursor, pblock)))
       \/ ListConnected /\ mapState' = Erased(TxsOf(NextTowards(cursor, pindexIntermediate)))
    /\ lost' = (lost \cup UNION {mapState[a] \ mapState'[a] : a \in Aliases}) \cap mapTx'

\* ConnectBlock fails somewhere in block b: what ConnectInputsPost has erased by then
\* stays erased.
ConnectFailsIn(b) ==
    \E k \in 0 .. Len(vtx[b]) :
        LET met == {vtx[b][i] : i \in 1 .. k}
        IN  /\ mapState' = Erased(met)
            /\ lost' = lost \cup (met \cap AliasOps \cap mapTx)

PendingFails ==
    \/ /\ ExtendBestFails
       /\ UNCHANGED poolVars
       /\ ConnectFailsIn(pblock)
    \/ /\ AbandonReorganize
       /\ IF cursor \in Anc[pindexIntermediate]
          THEN ConnectFailsIn(NextTowards(cursor, pindexIntermediate))
          ELSE UNCHANGED pendingVars
    \/ /\ reorg = <<<<>>, <<>>>> /\ NewBestBlock /\ cursor # pblock
       /\ UNCHANGED poolVars
       /\ ConnectFailsIn(NextTowards(cursor, pblock))

PendingChainStep ==
    /\ \/ /\ \/ \E b \in Blocks : HoldOrphan(b) \/ ProcessBlock(b) \/ ProcessOrphan(b) \/ DropBlock(b)
             \/ NextInQueue \/ BeginReorganize \/ CommitReorganize
             \/ reorg = <<<<>>, <<>>>> /\ NewBestBlock /\ cursor = pblock
          /\ UNCHANGED poolVars
       \/ ListDisconnected
    /\ UNCHANGED pendingVars

PendingRestart ==
    /\ RestartPool
    /\ mapState' = [a \in Aliases |-> {}] /\ lost' = {}

PendingInit ==
    /\ PoolInit
    /\ mapState = [a \in Aliases |-> {}] /\ lost = {}

PendingNext ==
    \/ PendingPoolStep
    \/ txQueue = <<>> /\ (PendingConnect \/ PendingFails \/ PendingChainStep)
    \/ PendingRestart

PendingSpec == PendingInit /\ [][PendingNext]_pendingAll

-----------------------------------------------------------------------------
(* Properties.                                                             *)

\* A pending operation is in the pool: an alias is not closed to its owner by a
\* transaction that has been removed, replaced in a reorganisation or connected
\* (RemoveFromMemoryPoolPost, ConnectInputsPost).
PendingInPool == \A a \in Aliases : mapState[a] \subseteq mapTx

\* An operation that waits in the pool is pending, through reorganisations and
\* resurrections, unless AcceptToMemoryPoolPost refused it or a block that holds
\* it has been tried.
PendingUnlessLost == \A t \in (mapTx \cap AliasOps) \ lost : t \in mapState[AliasOf[t]]

\* mapState and the pool agree, in both directions.
PendingOK == PendingInPool /\ PendingUnlessLost
=============================================================================

------------------------------- MODULE Mempool -------------------------------
(***************************************************************************)
(* The memory pool, on top of the block chain of ChainState: transactions  *)
(* that wait for a block, and orphan transactions that wait for an input   *)
(* (main.cpp).  Everything here runs under cs_main, so a transaction is    *)
(* handled between two calls of ProcessBlock; but the chain changes the    *)
(* pool as well, and a reorganisation does it transaction by transaction.  *)
(*                                                                         *)
(* Every step of the chain is a step of ChainState.                        *)
(***************************************************************************)
EXTENDS ChainState

CONSTANTS
    NotRelayed,                 \* refused by the pool whatever the chain and the pool hold
    FreeTxs,                    \* pay so little that the rate limiter may refuse them
    AliasRelays,                \* OP_ALIAS_RELAY, refused while what they relay is not in ln1Db
    LargeTxs,                   \* too large to be held as orphans
    Removable,                  \* transactions that an operator removes with rmtx
    nTotalBlocksEstimate,       \* height of the last hardened checkpoint
    MAX_ORPHAN_TRANSACTIONS

ASSUME PoolAssumption ==
    /\ NotRelayed \subseteq Tx /\ FreeTxs \subseteq Tx /\ LargeTxs \subseteq Tx
    /\ AliasRelays \subseteq Tx
    /\ Removable \subseteq Tx
    /\ nTotalBlocksEstimate \in Nat
    /\ MAX_ORPHAN_TRANSACTIONS \in Nat

VARIABLES
    \* CTxMemPool: the transactions, and which of them spends an outpoint.
    mapTx, mapNextTx,
    \* The orphans, and the orphans that wait for a transaction.
    mapOrphanTransactions, mapOrphanTransactionsByPrev,
    \* Locals of Reorganize.
    vResurrect, vDelete,
    \* Locals of the "tx" handler: the accepted transactions, whose orphans are to
    \* be tried, the one it has reached, the orphans of that one that are still to
    \* be tried, and the orphans to erase at the end.
    txQueue, iTx, children, vEraseQueue,
    \* History: what the handler has put in the pool.
    accepted

mempool   == <<mapTx, mapNextTx>>
orphanTxs == <<mapOrphanTransactions, mapOrphanTransactionsByPrev>>
reorg     == <<vResurrect, vDelete>>
handler   == <<txQueue, iTx, children, vEraseQueue, accepted>>
poolVars  == <<mempool, orphanTxs, reorg, handler>>
allVars   == <<vars, poolVars>>

PrevTxs(t) == {o[1] : o \in vin[t]}

-----------------------------------------------------------------------------
(* CTxMemPool.                                                             *)

addUnchecked(t) ==
    /\ mapTx' = mapTx \cup {t}
    /\ mapNextTx' = [o \in OutPoints |-> IF o \in vin[t] THEN t ELSE mapNextTx[o]]

\* The pool without S.
Without(S) ==
    /\ mapTx' = mapTx \ S
    /\ mapNextTx' = [o \in OutPoints |->
                        IF \E t \in mapTx \cap S : o \in vin[t] THEN None ELSE mapNextTx[o]]

\* C holds whatever in the pool spends an output of a member of C.
Closed(C) == \A o \in OutPoints : o[1] \in C /\ mapNextTx[o] # None => mapNextTx[o] \in C

\* What a recursive remove of S takes: its members in the pool, whatever spends
\* their outputs, and so on.
Descendants(S) ==
    {t \in mapTx : \A C \in SUBSET mapTx : S \cap mapTx \subseteq C /\ Closed(C) => t \in C}

\* What removeConflicts(t) removes.
Conflicts(t) == Descendants({mapNextTx[o] : o \in vin[t]} \ {None, t})

-----------------------------------------------------------------------------
(* AcceptToMemoryPool.                                                     *)

\* Mutant: no look at what the pool's transactions spend.
NewToChainOnly(t) ==
    /\ t \notin NotRelayed \cup CoinBases \cup CoinStakes
    /\ t \notin mapTx
    /\ disk.txPos[t] = None

\* The checks before the inputs are fetched.
NewToPool(t) ==
    /\ t \notin NotRelayed \cup CoinBases \cup CoinStakes
    /\ t \notin mapTx
    /\ \A o \in vin[t] : mapNextTx[o] = None
    /\ disk.txPos[t] = None

\* FetchInputs finds the transaction in the index or, failing that, the pool.
HasInputs(t) == \A p \in PrevTxs(t) : disk.txPos[p] # None \/ p \in mapTx

fMissingInputs(t) == NewToPool(t) /\ ~HasInputs(t)

\* ConnectInputs, for an output in the chain: unspent and, as seen from
\* pindexBest, mature.
Spendable(o) ==
    /\ disk.vSpent[o] # None => o \in ZeroValue
    /\ o[1] \in CoinBases \cup CoinStakes /\ disk.txPos[o[1]] \in Anc[pindexBest] =>
          nHeight[pindexBest] - nHeight[disk.txPos[o[1]]] >= nCoinbaseMaturity

Acceptable(t) ==
    /\ NewToPool(t)
    /\ HasInputs(t)
    /\ \A o \in vin[t] : disk.txPos[o[1]] # None => Spendable(o)

AcceptToMemoryPool(t) == Acceptable(t) /\ addUnchecked(t)

\* An acceptable transaction may still be refused by the rate limiter, or because
\* the alias database, which AliasIndex models, lacks what it relays.
RejectedByPool(t) == /\ Acceptable(t) => t \in FreeTxs \cup AliasRelays
                     /\ UNCHANGED mempool

-----------------------------------------------------------------------------
(* Orphan transactions.                                                    *)

\* Mutant: an orphan is entered under one of its inputs only.
EnterOnce(byPrev, S) ==
    [p \in Tx |-> byPrev[p] \cup {t \in S : p = CHOOSE q \in PrevTxs(t) : TRUE}]

\* mapOrphanTransactionsByPrev with, and without, the members of S.
Enter(byPrev, S) == [p \in Tx |-> byPrev[p] \cup {t \in S : p \in PrevTxs(t)}]
Erase(byPrev, S) == [p \in Tx |-> byPrev[p] \ {t \in S : p \in PrevTxs(t)}]

EraseOrphanTx(S) ==
    /\ mapOrphanTransactions' = mapOrphanTransactions \ S
    /\ mapOrphanTransactionsByPrev' =
          Erase(mapOrphanTransactionsByPrev, S \cap mapOrphanTransactions)

\* AddOrphanTx, then LimitOrphanTxSize, which evicts at random.
AddOrphanTx(t) ==
    LET new == {t} \ (mapOrphanTransactions \cup LargeTxs)
        all == mapOrphanTransactions \cup new
    IN  \E evicted \in SUBSET all :
          /\ Cardinality(all \ evicted) <= MAX_ORPHAN_TRANSACTIONS
          /\ evicted # {} => Cardinality(all \ evicted) = MAX_ORPHAN_TRANSACTIONS
          /\ mapOrphanTransactions' = all \ evicted
          /\ mapOrphanTransactionsByPrev' =
                Erase(Enter(mapOrphanTransactionsByPrev, new), evicted)

-----------------------------------------------------------------------------
(* The "tx" message.                                                       *)

\* cs_main is free.
CsMainFree == pc = "idle" /\ txQueue = <<>>

\* The transaction is accepted, and its orphans are next; or it is held as an
\* orphan; or it is dropped.
ReceiveTx(t) ==
    /\ CsMainFree
    /\ \/ /\ AcceptToMemoryPool(t)
          /\ txQueue' = <<t>> /\ iTx' = 1
          /\ children' = mapOrphanTransactionsByPrev[t]
          /\ vEraseQueue' = {t} /\ accepted' = {t}
          /\ UNCHANGED orphanTxs
       \/ /\ fMissingInputs(t)
          /\ AddOrphanTx(t)
          /\ UNCHANGED <<mempool, handler>>
       \/ /\ ~fMissingInputs(t)
          /\ RejectedByPool(t)
          /\ UNCHANGED <<orphanTxs, handler>>
    /\ UNCHANGED <<vars, reorg>>

\* Mutant: the orphans of an accepted orphan are not tried.
TryOrphanOnly(o) ==
    /\ o \in children
    /\ children' = children \ {o}
    /\ \/ /\ AcceptToMemoryPool(o)
          /\ vEraseQueue' = vEraseQueue \cup {o} /\ accepted' = accepted \cup {o}
       \/ fMissingInputs(o) /\ UNCHANGED <<mempool, vEraseQueue, accepted>>
       \/ /\ ~fMissingInputs(o)
          /\ RejectedByPool(o)
          /\ vEraseQueue' = vEraseQueue \cup {o}
          /\ UNCHANGED accepted
    /\ UNCHANGED <<vars, orphanTxs, reorg, txQueue, iTx>>

\* An orphan of the transaction the handler has reached is tried; if it is accepted
\* its own orphans are tried too, and if it is invalid it is erased.
TryOrphan(o) ==
    /\ o \in children
    /\ children' = children \ {o}
    /\ \/ /\ AcceptToMemoryPool(o)
          /\ txQueue' = Append(txQueue, o)
          /\ vEraseQueue' = vEraseQueue \cup {o} /\ accepted' = accepted \cup {o}
       \/ fMissingInputs(o) /\ UNCHANGED <<mempool, txQueue, vEraseQueue, accepted>>
       \/ /\ ~fMissingInputs(o)
          /\ RejectedByPool(o)
          /\ vEraseQueue' = vEraseQueue \cup {o}
          /\ UNCHANGED <<txQueue, accepted>>
    /\ UNCHANGED <<vars, orphanTxs, reorg, iTx>>

\* The next transaction in the queue; after the last one, the orphans that were
\* accepted or found invalid are erased.
NextTx ==
    /\ txQueue # <<>>
    /\ children = {}
    /\ \/ /\ iTx < Len(txQueue)
          /\ iTx' = iTx + 1
          /\ children' = mapOrphanTransactionsByPrev[txQueue[iTx + 1]]
          /\ UNCHANGED <<txQueue, vEraseQueue, accepted, orphanTxs>>
       \/ /\ iTx = Len(txQueue)
          /\ EraseOrphanTx(vEraseQueue)
          /\ txQueue' = <<>> /\ iTx' = 0 /\ vEraseQueue' = {} /\ accepted' = {}
          /\ UNCHANGED children
    /\ UNCHANGED <<vars, mempool, reorg>>

\* A transaction from the wallet or from sendrawtransaction: accepted or not,
\* orphans stay as they are.
SubmitTx(t) ==
    /\ CsMainFree
    /\ AcceptToMemoryPool(t)
    /\ UNCHANGED <<vars, orphanTxs, reorg, handler>>

\* rmtx: the transaction goes, what spends it stays.
rmtx(t) ==
    /\ CsMainFree
    /\ t \in mapTx \cap Removable
    /\ Without({t})
    /\ UNCHANGED <<vars, orphanTxs, reorg, handler>>

-----------------------------------------------------------------------------
(* What the chain does to the pool.                                        *)

\* SetBestChainInner removes the transactions of the block it has connected.
ExtendPool ==
    /\ ExtendBest
    /\ Without(TxsOf(pblock))
    /\ UNCHANGED <<orphanTxs, reorg, handler>>

ExtendPoolPostponed ==
    /\ reorg = <<<<>>, <<>>>>
    /\ ConnectPostponed
    /\ Without(TxsOf(NextTowards(cursor, pblock)))
    /\ UNCHANGED <<orphanTxs, reorg, handler>>

\* Reorganize lists what it disconnects, in chain order, and what it connects.
\* It leaves coinbases and coinstakes out of the list; here they are in it, and
\* Resurrect passes over them, since the pool takes neither.
ToResurrect(b) == IF nHeight[b] > nTotalBlocksEstimate THEN vtx[b] ELSE <<>>

ListDisconnected ==
    /\ ReorganizeDisconnect
    /\ vResurrect' = ToResurrect(cursor) \o vResurrect
    /\ UNCHANGED <<mempool, orphanTxs, vDelete, handler>>

\* Mutant: only the last block's transactions are listed.
ListLastConnected ==
    /\ ReorganizeConnect
    /\ vDelete' = vtx[NextTowards(cursor, pindexIntermediate)]
    /\ UNCHANGED <<mempool, orphanTxs, vResurrect, handler>>

ListConnected ==
    /\ ReorganizeConnect
    /\ vDelete' = vDelete \o vtx[NextTowards(cursor, pindexIntermediate)]
    /\ UNCHANGED <<mempool, orphanTxs, vResurrect, handler>>

AbandonReorganize ==
    /\ ReorganizeFails
    /\ vResurrect' = <<>> /\ vDelete' = <<>>
    /\ UNCHANGED <<mempool, orphanTxs, handler>>

\* After the commit, while pindexBest is still the old tip: the transactions of
\* the disconnected branch go through AcceptToMemoryPool again.
Resurrect ==
    /\ pc = "postponed"
    /\ vResurrect # <<>>
    /\ AcceptToMemoryPool(Head(vResurrect)) \/ RejectedByPool(Head(vResurrect))
    /\ vResurrect' = Tail(vResurrect)
    /\ UNCHANGED <<vars, orphanTxs, vDelete, handler>>

\* Then those of the connected branch are removed, with what conflicts with them.
DeleteConnected ==
    /\ pc = "postponed"
    /\ vResurrect = <<>> /\ vDelete # <<>>
    /\ Without({Head(vDelete)} \cup Conflicts(Head(vDelete)))
    /\ vDelete' = Tail(vDelete)
    /\ UNCHANGED <<vars, orphanTxs, vResurrect, handler>>

\* The steps of ProcessBlock that do not touch the pool.
ChainStep ==
    /\ \/ \E b \in Blocks : HoldOrphan(b) \/ ProcessBlock(b) \/ ProcessOrphan(b) \/ DropBlock(b)
       \/ NextInQueue
       \/ ExtendBestFails
       \/ BeginReorganize
       \/ CommitReorganize
       \/ reorg = <<<<>>, <<>>>> /\ NewBestBlock
    /\ UNCHANGED poolVars

\* The pool is not on disk.
RestartPool ==
    /\ Restart
    /\ mapTx' = {} /\ mapNextTx' = [o \in OutPoints |-> None]
    /\ mapOrphanTransactions' = {} /\ mapOrphanTransactionsByPrev' = [p \in Tx |-> {}]
    /\ vResurrect' = <<>> /\ vDelete' = <<>>
    /\ txQueue' = <<>> /\ iTx' = 0 /\ children' = {} /\ vEraseQueue' = {} /\ accepted' = {}

-----------------------------------------------------------------------------
PoolInit ==
    /\ Init
    /\ mapTx = {} /\ mapNextTx = [o \in OutPoints |-> None]
    /\ mapOrphanTransactions = {} /\ mapOrphanTransactionsByPrev = [p \in Tx |-> {}]
    /\ vResurrect = <<>> /\ vDelete = <<>>
    /\ txQueue = <<>> /\ iTx = 0 /\ children = {} /\ vEraseQueue = {} /\ accepted = {}

PoolStep ==
    \/ \E t \in Tx : ReceiveTx(t) \/ TryOrphan(t) \/ SubmitTx(t) \/ rmtx(t)
    \/ NextTx
    \/ Resurrect
    \/ DeleteConnected

BlockStep ==
    \/ ExtendPool \/ ExtendPoolPostponed
    \/ ListDisconnected \/ ListConnected \/ AbandonReorganize
    \/ ChainStep

PoolNext ==
    \/ PoolStep
    \/ txQueue = <<>> /\ BlockStep
    \/ RestartPool

PoolSpec == PoolInit /\ [][PoolNext]_allVars

-----------------------------------------------------------------------------
(* Properties.                                                             *)

\* Every variable of the pool has the type of the member or local it models.
PoolTypeOK ==
    /\ TypeOK
    /\ mapTx \subseteq Tx
    /\ mapNextTx \in [OutPoints -> Tx \cup {None}]
    /\ mapOrphanTransactions \subseteq Tx
    /\ mapOrphanTransactionsByPrev \in [Tx -> SUBSET Tx]
    /\ vResurrect \in Seq(Tx) /\ vDelete \in Seq(Tx)
    /\ txQueue \in Seq(Tx) /\ iTx \in 0 .. Len(txQueue)
    /\ children \subseteq Tx /\ vEraseQueue \subseteq Tx /\ accepted \subseteq Tx

\* mapNextTx is exactly what the pool's transactions spend: no two of them spend
\* the same output, and none points to a transaction that has left mapTx
\* (addUnchecked, remove, removeConflicts; CInPoint holds a raw pointer).
PoolIndexOK ==
    /\ \A t \in mapTx : \A o \in vin[t] : mapNextTx[o] = t
    /\ \A o \in OutPoints : mapNextTx[o] # None =>
          mapNextTx[o] \in mapTx /\ o \in vin[mapNextTx[o]]

\* No transaction is in the pool and in the best chain, through reorganisations
\* and their resurrections, except while Reorganize still has to delete it.
PoolNotInChain ==
    \A t \in mapTx : disk.txPos[t] # None =>
        pc = "postponed" /\ \E i \in DOMAIN vDelete : vDelete[i] = t

\* The orphans are found under each of their inputs and nowhere else, and there
\* are never more than the limit (AddOrphanTx, EraseOrphanTx, LimitOrphanTxSize).
OrphanTxsOK ==
    /\ \A p \in Tx : mapOrphanTransactionsByPrev[p] = {t \in mapOrphanTransactions : p \in PrevTxs(t)}
    /\ Cardinality(mapOrphanTransactions) <= MAX_ORPHAN_TRANSACTIONS

\* When the "tx" handler is done, an orphan of a transaction that it has put in
\* the pool is still held only if another of its inputs is missing.
OrphansFollowParents ==
    [][txQueue # <<>> /\ txQueue' = <<>> /\ restarts' = restarts =>
          \A o \in mapOrphanTransactions' :
              PrevTxs(o) \cap accepted # {} => ~HasInputs(o)]_allVars

\* Every transaction in the pool connects to the chain or to the pool: "This
\* should never happen; all transactions in the memory pool should connect to
\* either transactions in the chain or other transactions in the memory pool"
\* (CreateNewBlock).
PoolConnects == CsMainFree => \A t \in mapTx : HasInputs(t)

\* The maps of the pool have their types, and the two of the orphan transactions
\* agree.
PoolMapsOK == PoolTypeOK /\ OrphanTxsOK
=============================================================================

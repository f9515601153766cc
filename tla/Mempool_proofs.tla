--------------------------- MODULE Mempool_proofs ---------------------------
(***************************************************************************)
(* Theorems about the pool, the alias operations that wait in it and the   *)
(* miner, for every block tree, every set of transactions and any number   *)
(* of crashes.                                                             *)
(***************************************************************************)
EXTENDS Miner, PendingAliases, ChainState_proofs, FiniteSetTheorems

-----------------------------------------------------------------------------
(* The pool on top of the chain.                                           *)

\* A step of the pool is a step of the chain or leaves the chain alone.
LEMMA PoolStepIsChainStep == [PoolNext]_allVars => [Next]_vars
<1> SUFFICES ASSUME [PoolNext]_allVars PROVE [Next]_vars
  OBVIOUS
<1>1. CASE PoolStep
  BY <1>1 DEF PoolStep, ReceiveTx, TryOrphan, SubmitTx, rmtx, NextTx, Resurrect, DeleteConnected
<1>2. CASE BlockStep
  BY <1>2 DEF BlockStep, ExtendPool, ExtendPoolPostponed, ListDisconnected, ListConnected,
              AbandonReorganize, ChainStep, Next, SetBestChain
<1>3. CASE RestartPool
  BY <1>3 DEF RestartPool, Next
<1>4. CASE UNCHANGED allVars
  BY <1>4 DEF allVars
<1> QED BY <1>1, <1>2, <1>3, <1>4 DEF PoolNext

\* Chain and pool together implement the chain: what is proved of ChainState
\* holds of the node with its pool (AcceptToMemoryPool and the removals never
\* write the block index, the transaction index or the tips).
THEOREM PoolImplementsChain == PoolSpec => Spec
<1>1. PoolInit => Init
  BY DEF PoolInit
<1> QED BY <1>1, PoolStepIsChainStep, PTL DEF PoolSpec, Spec

-----------------------------------------------------------------------------
(* The pool's index.                                                       *)

Index == mapTx \subseteq Tx /\ mapNextTx \in [OutPoints -> Tx \cup {None}] /\ PoolIndexOK

\* addUnchecked keeps the index exact when nothing in the pool spends the inputs.
LEMMA AddKeepsIndex ==
    ASSUME Index, NEW t \in Tx, \A o \in vin[t] : mapNextTx[o] = None, addUnchecked(t)
    PROVE  Index'
<1>1. mapTx' \subseteq Tx /\ mapNextTx' \in [OutPoints -> Tx \cup {None}]
  BY DEF Index, addUnchecked
<1>2. \A u \in mapTx' : \A o \in vin[u] : mapNextTx'[o] = u
  BY TxAssumption DEF Index, PoolIndexOK, addUnchecked
<1>3. \A o \in OutPoints : mapNextTx'[o] # None =>
          mapNextTx'[o] \in mapTx' /\ o \in vin[mapNextTx'[o]]
  BY TxAssumption DEF Index, PoolIndexOK, addUnchecked
<1> QED BY <1>1, <1>2, <1>3 DEF Index, PoolIndexOK

LEMMA WithoutKeepsIndex ==
    ASSUME Index, NEW S, Without(S)
    PROVE  Index'
<1>1. mapTx' \subseteq Tx /\ mapNextTx' \in [OutPoints -> Tx \cup {None}]
  BY DEF Index, Without
<1>2. ASSUME NEW u \in mapTx', NEW o \in vin[u] PROVE mapNextTx'[o] = u
  <2>1. u \in mapTx /\ u \notin S /\ o \in OutPoints /\ mapNextTx[o] = u
    BY TxAssumption DEF Index, PoolIndexOK, Without
  <2>2. ~(\E t \in mapTx \cap S : o \in vin[t])
    BY <2>1 DEF Index, PoolIndexOK
  <2> QED BY <2>1, <2>2 DEF Without
<1>3. ASSUME NEW o \in OutPoints, mapNextTx'[o] # None
      PROVE  mapNextTx'[o] \in mapTx' /\ o \in vin[mapNextTx'[o]]
  <2>1. ~(\E t \in mapTx \cap S : o \in vin[t]) /\ mapNextTx'[o] = mapNextTx[o]
    BY <1>3 DEF Without
  <2>2. mapNextTx[o] \in mapTx /\ o \in vin[mapNextTx[o]]
    BY <1>3, <2>1 DEF Index, PoolIndexOK
  <2> QED BY <2>1, <2>2 DEF Without
<1> QED BY <1>1, <1>2, <1>3 DEF Index, PoolIndexOK

LEMMA AcceptKeepsIndex ==
    ASSUME Index, NEW t \in Tx, AcceptToMemoryPool(t)
    PROVE  Index' /\ mapTx' = mapTx \cup {t} /\ disk.txPos[t] = None
BY AddKeepsIndex DEF AcceptToMemoryPool, Acceptable, NewToPool, addUnchecked

LEMMA SameKeepsIndex == ASSUME Index, UNCHANGED mempool PROVE Index'
BY DEF Index, PoolIndexOK, mempool

-----------------------------------------------------------------------------
(* Pool and chain.                                                         *)

Listed(t) == \E i \in DOMAIN vDelete : vDelete[i] = t

\* While Reorganize works, what the batch holds and the disk does not is listed.
BatchListed ==
    pc = "reorganize" =>
        \A t \in Tx : batch.txPos[t] # None => disk.txPos[t] # None \/ Listed(t)

PoolInv ==
    /\ Inv
    /\ Index
    /\ vResurrect \in Seq(Tx) /\ vDelete \in Seq(Tx)
    /\ PoolNotInChain
    /\ BatchListed

\* What connecting and disconnecting a block do to the positions.
LEMMA Positions ==
    ASSUME NEW d \in Database, NEW b \in Blocks
    PROVE  /\ \A t \in Tx : ConnectBlock(d, b).txPos[t] = IF t \in TxsOf(b) THEN b ELSE d.txPos[t]
           /\ \A t \in Tx : DisconnectBlock(d, b).txPos[t] = IF t \in TxsOf(b) THEN None ELSE d.txPos[t]
<1>1. ConnectInputs(d, b).txPos = [t \in Tx |-> IF t \in TxsOf(b) THEN b ELSE d.txPos[t]]
  BY DEF ConnectInputs, Database
<1>2. ConnectInputs(d, b) \in Database
  BY ConnectInputsType
<1>3. ConnectBlock(d, b).txPos = ConnectInputs(d, b).txPos
  BY <1>2 DEF ConnectBlock, Database
<1>4. DisconnectBlock(d, b).txPos = [t \in Tx |-> IF t \in TxsOf(b) THEN None ELSE d.txPos[t]]
  BY DEF DisconnectBlock, Database
<1> QED BY <1>1, <1>3, <1>4

\* A block on top of the stored chain takes its transactions out of the pool.
LEMMA InnerKeepsPool ==
    ASSUME PoolInv, NEW b \in Blocks, SetBestChainInner(b), Without(TxsOf(b)),
           vDelete' = vDelete, pc' # "reorganize", pc = "postponed" => vDelete = <<>>
    PROVE  Index' /\ PoolNotInChain' /\ BatchListed'
<1>1. disk \in Database
  BY DEF PoolInv, Inv, TypeOK
<1>2. \A t \in Tx : disk'.txPos[t] = IF t \in TxsOf(b) THEN b ELSE disk.txPos[t]
  <2>1. ConnectBlock(disk, b) \in Database
    BY <1>1, ConnectBlockType DEF PoolInv, Inv, TypeOK
  <2>2. disk'.txPos = ConnectBlock(disk, b).txPos
    BY <2>1, BestType DEF SetBestChainInner
  <2> QED BY <1>1, <2>2, Positions
<1>3. ASSUME NEW t \in mapTx' PROVE disk'.txPos[t] = None
  <2>1. t \in mapTx /\ t \in Tx /\ t \notin TxsOf(b)
    BY DEF Without, PoolInv, Index
  <2>2. disk.txPos[t] = None
    BY <2>1 DEF PoolInv, PoolNotInChain
  <2> QED BY <1>2, <2>1, <2>2
<1>4. Index'
  BY WithoutKeepsIndex DEF PoolInv
<1> QED BY <1>3, <1>4 DEF PoolNotInChain, BatchListed

LEMMA PoolStepInv == ASSUME PoolInv, PoolStep PROVE PoolInv'
<1>1. Inv'
  <2>1. [Next]_vars
    BY PoolStepIsChainStep DEF PoolNext
  <2> QED BY <2>1, NextInv DEF PoolInv
<1>2. UNCHANGED vars
  BY DEF PoolStep, ReceiveTx, TryOrphan, SubmitTx, rmtx, NextTx, Resurrect, DeleteConnected
<1>3. disk' = disk /\ batch' = batch /\ pc' = pc
  BY <1>2 DEF vars, db
<1>a. ASSUME (\E t \in Tx : AcceptToMemoryPool(t)) \/ UNCHANGED mempool,
             vDelete' = vDelete, vResurrect' \in Seq(Tx)
      PROVE  PoolInv'
  <2>1. Index' /\ \A u \in mapTx' : u \in mapTx \/ disk.txPos[u] = None
    BY <1>a, AcceptKeepsIndex, SameKeepsIndex DEF PoolInv, mempool
  <2>2. PoolNotInChain' /\ BatchListed'
    BY <1>3, <1>a, <2>1 DEF PoolInv, PoolNotInChain, BatchListed, Listed
  <2> QED BY <1>1, <1>a, <2>1, <2>2 DEF PoolInv
<1>4. CASE \E t \in Tx : ReceiveTx(t) \/ TryOrphan(t) \/ SubmitTx(t)
  <2>1. PICK t \in Tx : ReceiveTx(t) \/ TryOrphan(t) \/ SubmitTx(t)
    BY <1>4
  <2>2. AcceptToMemoryPool(t) \/ UNCHANGED mempool
    BY <2>1 DEF ReceiveTx, TryOrphan, SubmitTx, RejectedByPool
  <2>3. UNCHANGED reorg
    BY <2>1 DEF ReceiveTx, TryOrphan, SubmitTx
  <2> QED BY <1>a, <2>2, <2>3 DEF reorg, PoolInv
<1>5. CASE \E t \in Tx : rmtx(t)
  <2>1. PICK t \in Tx : rmtx(t)
    BY <1>5
  <2>2. Index' /\ mapTx' \subseteq mapTx
    BY <2>1, WithoutKeepsIndex DEF rmtx, Without, PoolInv
  <2>3. UNCHANGED reorg
    BY <2>1 DEF rmtx
  <2>4. PoolNotInChain' /\ BatchListed'
    BY <1>3, <2>2, <2>3 DEF PoolInv, PoolNotInChain, BatchListed, Listed, reorg
  <2> QED BY <1>1, <2>2, <2>3, <2>4 DEF PoolInv, reorg
<1>6. CASE NextTx
  <2>1. UNCHANGED <<mempool, reorg>>
    BY <1>6 DEF NextTx
  <2> QED BY <1>a, <2>1 DEF reorg, PoolInv
<1>7. CASE Resurrect
  <2>1. Head(vResurrect) \in Tx /\ Tail(vResurrect) \in Seq(Tx)
    BY <1>7 DEF Resurrect, PoolInv
  <2> QED BY <1>a, <1>7, <2>1 DEF Resurrect, RejectedByPool
<1>8. CASE DeleteConnected
  <2> DEFINE t == Head(vDelete)
  <2>1. vDelete \in Seq(Tx) /\ vDelete # <<>> /\ vDelete' = Tail(vDelete) /\ pc = "postponed"
    BY <1>8 DEF DeleteConnected, PoolInv
  <2>2. Index' /\ \A u \in mapTx' : u \in mapTx /\ u # t
    BY <1>8, WithoutKeepsIndex DEF DeleteConnected, Without, PoolInv
  <2>3. \A u : Listed(u) /\ u # t => Listed(u)'
    <3>1. ASSUME NEW i \in DOMAIN vDelete, vDelete[i] # t
          PROVE  i - 1 \in DOMAIN Tail(vDelete) /\ Tail(vDelete)[i - 1] = vDelete[i]
      BY <2>1, <3>1
    <3> QED BY <2>1, <3>1 DEF Listed
  <2>4. PoolNotInChain'
    BY <1>3, <2>1, <2>2, <2>3 DEF PoolInv, PoolNotInChain, Listed
  <2>5. BatchListed'
    BY <1>3, <2>1 DEF BatchListed
  <2>6. vResurrect' = vResurrect /\ vDelete' \in Seq(Tx)
    BY <1>8, <2>1 DEF DeleteConnected
  <2> QED BY <1>1, <2>2, <2>4, <2>5, <2>6 DEF PoolInv
<1> QED BY <1>4, <1>5, <1>6, <1>7, <1>8 DEF PoolStep

\* A step of ProcessBlock that leaves the pool alone and is not a commit.
LEMMA QuietStepInv ==
    ASSUME PoolInv, Inv', UNCHANGED poolVars,
           \A t \in Tx : disk'.txPos[t] = disk.txPos[t],
           pc = "postponed" => pc' = "postponed" \/ vDelete = <<>>,
           pc' = "reorganize" => \A t \in Tx : batch'.txPos[t] = disk.txPos[t]
    PROVE  PoolInv'
<1>1. Index' /\ UNCHANGED <<mapTx, vDelete, vResurrect>>
  BY SameKeepsIndex DEF PoolInv, poolVars, mempool, reorg
<1>2. PoolNotInChain'
  BY <1>1 DEF PoolInv, PoolNotInChain, Index
<1>3. BatchListed'
  BY DEF BatchListed
<1> QED BY <1>1, <1>2, <1>3 DEF PoolInv

\* AcceptBlock writes no transaction index entry.
LEMMA AcceptBlockPositions ==
    ASSUME NEW b \in Blocks, disk \in Database, AcceptBlock(b)
    PROVE  /\ disk'.txPos = disk.txPos /\ disk'.vSpent = disk.vSpent
           /\ pindexBest' = pindexBest
           /\ pc' \in {"idle", "orphans", "setbest"}
<1>1. CASE PassesAcceptBlock(b) /\ AddToBlockIndex(b)
  <2>1. disk'.txPos = disk.txPos /\ disk'.vSpent = disk.vSpent
    BY <1>1 DEF AddToBlockIndex, Database
  <2> QED BY <1>1, <2>1 DEF AddToBlockIndex, Accepted
<1>2. CASE Refused /\ UNCHANGED <<disk, memory, postponedFailed, restarts>>
  BY <1>2 DEF Refused, memory
<1> QED BY <1>1, <1>2 DEF AcceptBlock

LEMMA BlockStepInv == ASSUME PoolInv, BlockStep, txQueue = <<>> PROVE PoolInv'
<1>1. Inv'
  <2>1. [Next]_vars
    BY PoolStepIsChainStep DEF PoolNext
  <2> QED BY <2>1, NextInv DEF PoolInv
<1>2. disk \in Database /\ batch \in Database /\ vDelete \in Seq(Tx) /\ vResurrect \in Seq(Tx)
  BY DEF PoolInv, Inv, TypeOK
<1>3. CASE ExtendPool
  <2>1. /\ pblock \in Blocks /\ SetBestChainInner(pblock) /\ Without(TxsOf(pblock))
        /\ pc = "setbest" /\ pc' = "orphans" /\ UNCHANGED reorg
    BY <1>3 DEF ExtendPool, ExtendBest, Accepted, PoolInv, Inv, TypeOK, ControlOK
  <2>2. Index' /\ PoolNotInChain' /\ BatchListed'
    BY <2>1, InnerKeepsPool DEF reorg
  <2> QED BY <1>1, <1>2, <2>1, <2>2 DEF PoolInv, reorg
<1>4. CASE ExtendPoolPostponed
  <2> DEFINE b == NextTowards(cursor, pblock)
  <2>1. pblock \in Blocks /\ cursor \in Anc[pblock] /\ cursor # pblock
    BY <1>4 DEF ExtendPoolPostponed, ConnectPostponed, PoolInv, Inv, TypeOK, ControlOK
  <2>2. b \in Blocks
    BY <2>1, NextBlock
  <2> HIDE DEF b
  <2>3. /\ SetBestChainInner(b) /\ Without(TxsOf(b)) /\ pc' = "postponed"
        /\ UNCHANGED reorg /\ vDelete = <<>>
    BY <1>4 DEF ExtendPoolPostponed, ConnectPostponed, b, reorg
  <2>4. Index' /\ PoolNotInChain' /\ BatchListed'
    BY <2>2, <2>3, InnerKeepsPool DEF reorg
  <2> QED BY <1>1, <1>2, <2>3, <2>4 DEF PoolInv, reorg
<1>5. CASE ListDisconnected
  <2>1. /\ pc = "reorganize" /\ pc' = pc /\ disk' = disk /\ batch' = DisconnectBlock(batch, cursor)
        /\ UNCHANGED mempool /\ vDelete' = vDelete /\ vResurrect' = ToResurrect(cursor) \o vResurrect
    BY <1>5 DEF ListDisconnected, ReorganizeDisconnect
  <2>2. cursor \in Blocks
    BY <2>1, AncSelf, IntermediateBlock DEF PoolInv, Inv, TypeOK, ControlOK
  <2>3. vResurrect' \in Seq(Tx)
    BY <1>2, <2>1, <2>2, TxAssumption DEF ToResurrect
  <2>4. \A t \in Tx : batch'.txPos[t] # None => batch.txPos[t] # None
    BY <1>2, <2>1, <2>2, Positions
  <2>5. Index' /\ PoolNotInChain'
    BY <2>1, SameKeepsIndex DEF PoolInv, PoolNotInChain, mempool
  <2>6. BatchListed'
    BY <2>1, <2>4 DEF PoolInv, BatchListed, Listed
  <2> QED BY <1>1, <1>2, <2>1, <2>3, <2>5, <2>6 DEF PoolInv
<1>6. CASE ListConnected
  <2> DEFINE b == NextTowards(cursor, pindexIntermediate)
  <2>1. /\ pc = "reorganize" /\ pc' = pc /\ disk' = disk /\ batch' = ConnectBlock(batch, b)
        /\ UNCHANGED mempool /\ vResurrect' = vResurrect /\ vDelete' = vDelete \o vtx[b]
        /\ cursor \in Anc[pindexIntermediate] \ {pindexIntermediate}
    BY <1>6 DEF ListConnected, ReorganizeConnect
  <2>2. pindexIntermediate \in Blocks
    BY <2>1, IntermediateBlock DEF PoolInv, Inv, TypeOK, ControlOK
  <2>3. b \in Blocks
    BY <2>1, <2>2, NextBlock
  <2> HIDE DEF b
  <2>4. vtx[b] \in Seq(Tx) /\ vDelete' \in Seq(Tx)
    BY <1>2, <2>1, <2>3, TxAssumption
  <2>5. \A t : Listed(t) \/ t \in TxsOf(b) => Listed(t)'
    <3>1. ASSUME NEW i \in DOMAIN vDelete PROVE i \in DOMAIN vDelete' /\ vDelete'[i] = vDelete[i]
      BY <1>2, <2>1, <2>4
    <3>2. ASSUME NEW i \in DOMAIN vtx[b]
          PROVE  Len(vDelete) + i \in DOMAIN vDelete' /\ vDelete'[Len(vDelete) + i] = vtx[b][i]
      BY <1>2, <2>1, <2>4
    <3> QED BY <3>1, <3>2 DEF Listed, TxsOf
  <2>6. \A t \in Tx : batch'.txPos[t] # None => batch.txPos[t] # None \/ t \in TxsOf(b)
    BY <1>2, <2>1, <2>3, Positions
  <2>7. Index' /\ PoolNotInChain'
    BY <2>1, SameKeepsIndex DEF PoolInv, PoolNotInChain, mempool
  <2>8. BatchListed'
    BY <2>1, <2>5, <2>6 DEF PoolInv, BatchListed
  <2> QED BY <1>1, <1>2, <2>1, <2>4, <2>7, <2>8 DEF PoolInv
<1>7. CASE AbandonReorganize
  <2>1. /\ pc = "reorganize" /\ pc' \in {"idle", "orphans"} /\ disk' = disk /\ UNCHANGED mempool
        /\ vResurrect' = <<>> /\ vDelete' = <<>>
    BY <1>7 DEF AbandonReorganize, ReorganizeFails, Refused
  <2>2. Index' /\ PoolNotInChain' /\ BatchListed'
    BY <2>1, SameKeepsIndex DEF PoolInv, PoolNotInChain, mempool, BatchListed
  <2> QED BY <1>1, <2>1, <2>2 DEF PoolInv
<1>8. CASE ChainStep
  <2>0. UNCHANGED poolVars
    BY <1>8 DEF ChainStep
  <2>1. CASE \E b \in Blocks : HoldOrphan(b) \/ DropBlock(b)
    <3>1. UNCHANGED <<db, pc>> /\ pc = "idle"
      BY <2>1 DEF HoldOrphan, NewBlock, DropBlock, vars
    <3> QED BY <1>1, <2>0, <3>1, QuietStepInv DEF db
  <2>2. CASE \E b \in Blocks : ProcessBlock(b) \/ ProcessOrphan(b)
    <3>1. PICK b \in Blocks : AcceptBlock(b) /\ pc \in {"idle", "orphans"}
      BY <2>2 DEF ProcessBlock, ProcessOrphan, NewBlock
    <3>2. disk'.txPos = disk.txPos /\ pc' \in {"idle", "orphans", "setbest"}
      BY <1>2, <3>1, AcceptBlockPositions
    <3> QED BY <1>1, <2>0, <3>1, <3>2, QuietStepInv
  <2>3. CASE NextInQueue
    <3>1. disk' = disk /\ pc = "orphans" /\ pc' \in {"idle", "orphans"}
      BY <2>3 DEF NextInQueue, db
    <3> QED BY <1>1, <2>0, <3>1, QuietStepInv
  <2>4. CASE ExtendBestFails
    <3>1. disk' = disk /\ pc = "setbest" /\ pc' \in {"idle", "orphans"}
      BY <2>4 DEF ExtendBestFails, Refused
    <3> QED BY <1>1, <2>0, <3>1, QuietStepInv
  <2>5. CASE BeginReorganize
    <3>1. disk' = disk /\ pc = "setbest" /\ pc' = "reorganize" /\ batch' = disk
      BY <2>5 DEF BeginReorganize
    <3> QED BY <1>1, <2>0, <3>1, QuietStepInv
  <2>6. CASE CommitReorganize
    <3>1. /\ pc = "reorganize" /\ pc' = "postponed" /\ cursor = pindexIntermediate
          /\ disk' = WriteHashBestChain(batch, cursor)
      BY <2>6 DEF CommitReorganize
    <3>2. cursor \in Blocks
      BY <3>1, IntermediateBlock DEF PoolInv, Inv, TypeOK, ControlOK
    <3>3. disk'.txPos = batch.txPos
      BY <1>2, <3>1, <3>2, BestType
    <3>4. Index' /\ UNCHANGED <<mapTx, vDelete, vResurrect>>
      BY <2>0, SameKeepsIndex DEF PoolInv, poolVars, mempool, reorg
    <3>5. PoolNotInChain'
      BY <3>1, <3>3, <3>4 DEF PoolInv, PoolNotInChain, BatchListed, Listed, Index
    <3>6. BatchListed'
      BY <3>1 DEF BatchListed
    <3> QED BY <1>1, <1>2, <3>4, <3>5, <3>6 DEF PoolInv
  <2>7. CASE reorg = <<<<>>, <<>>>> /\ NewBestBlock
    <3>1. disk' = disk /\ pc' = "orphans" /\ vDelete = <<>>
      BY <2>7 DEF NewBestBlock, Accepted, reorg
    <3> QED BY <1>1, <2>0, <3>1, QuietStepInv
  <2> QED BY <1>8, <2>1, <2>2, <2>3, <2>4, <2>5, <2>6, <2>7 DEF ChainStep
<1> QED BY <1>3, <1>4, <1>5, <1>6, <1>7, <1>8 DEF BlockStep

LEMMA EmptyPoolInv ==
    ASSUME Inv, mapTx = {}, mapNextTx = [o \in OutPoints |-> None],
           vResurrect = <<>>, vDelete = <<>>, pc = "idle"
    PROVE  PoolInv
<1>1. Index
  BY DEF Index, PoolIndexOK
<1>2. PoolNotInChain /\ BatchListed
  BY DEF PoolNotInChain, BatchListed
<1> QED BY <1>1, <1>2 DEF PoolInv

LEMMA PoolInitInv == PoolInit => PoolInv
<1> SUFFICES ASSUME PoolInit PROVE PoolInv
  OBVIOUS
<1>1. Inv /\ pc = "idle"
  BY InitInv DEF PoolInit, Init
<1> QED BY <1>1, EmptyPoolInv DEF PoolInit

LEMMA RestartPoolInv == ASSUME PoolInv, RestartPool PROVE PoolInv'
<1>1. Inv'
  <2>1. [Next]_vars
    BY PoolStepIsChainStep DEF PoolNext
  <2> QED BY <2>1, NextInv DEF PoolInv
<1>2. /\ mapTx' = {} /\ mapNextTx' = [o \in OutPoints |-> None]
      /\ vResurrect' = <<>> /\ vDelete' = <<>> /\ pc' = "idle"
  BY DEF RestartPool, Restart
<1>3. Index'
  BY <1>2 DEF Index, PoolIndexOK
<1>4. PoolNotInChain' /\ BatchListed'
  BY <1>2 DEF PoolNotInChain, BatchListed
<1> QED BY <1>1, <1>2, <1>3, <1>4 DEF PoolInv

LEMMA PoolNextInv == PoolInv /\ [PoolNext]_allVars => PoolInv'
<1> SUFFICES ASSUME PoolInv, [PoolNext]_allVars PROVE PoolInv'
  OBVIOUS
<1>1. CASE UNCHANGED allVars
  <2>1. UNCHANGED vars /\ UNCHANGED <<mempool, reorg>>
    BY <1>1 DEF allVars, poolVars
  <2>2. Inv' /\ Index'
    BY <2>1, NextInv, SameKeepsIndex DEF PoolInv
  <2>3. UNCHANGED <<disk, batch, pc, mapTx, vResurrect, vDelete>>
    BY <2>1 DEF vars, db, mempool, reorg
  <2>4. PoolNotInChain' /\ BatchListed'
    BY <2>3 DEF PoolInv, PoolNotInChain, BatchListed, Listed
  <2> QED BY <2>2, <2>3, <2>4 DEF PoolInv
<1> QED BY <1>1, PoolStepInv, BlockStepInv, RestartPoolInv DEF PoolNext

\* For every tree of blocks, every set of transactions and any number of crashes,
\* mapNextTx is exactly what the pool's transactions spend, and no transaction is
\* both in the pool and in the chain when Reorganize has finished its deletions.
THEOREM PoolCorrect == PoolSpec => [](PoolIndexOK /\ PoolNotInChain)
<1>1. PoolInv => PoolIndexOK /\ PoolNotInChain
  BY DEF PoolInv, Index
<1> QED BY <1>1, PoolInitInv, PoolNextInv, PTL DEF PoolSpec

-----------------------------------------------------------------------------
(* The orphan transactions.                                                *)

HandlerType ==
    /\ txQueue \in Seq(Tx) /\ iTx \in 0 .. Len(txQueue)
    /\ children \subseteq Tx /\ vEraseQueue \subseteq Tx /\ accepted \subseteq Tx

OrphansInv ==
    /\ mapOrphanTransactions \subseteq Tx /\ IsFiniteSet(mapOrphanTransactions)
    /\ mapOrphanTransactionsByPrev \in [Tx -> SUBSET Tx]
    /\ OrphanTxsOK

\* While the "tx" handler works, an orphan of a transaction that it has accepted
\* lacks another input, or will be tried, for this transaction or for a later one
\* in the queue; or it is going to be erased.
FollowInv ==
    /\ txQueue = <<>> => children = {} /\ accepted = {}
    /\ txQueue # <<>> => pc = "idle" /\ iTx >= 1
    /\ \A o \in mapOrphanTransactions \ vEraseQueue :
          PrevTxs(o) \cap accepted # {} =>
              \/ ~HasInputs(o)
              \/ o \in children
              \/ \E j \in iTx + 1 .. Len(txQueue) : txQueue[j] \in PrevTxs(o)

LEMMA PrevTxsType == \A t \in Tx : PrevTxs(t) \subseteq Tx
BY TxAssumption DEF PrevTxs

LEMMA AddOrphanInv ==
    ASSUME OrphansInv, NEW t \in Tx, AddOrphanTx(t)
    PROVE  OrphansInv'
<1> DEFINE new == {t} \ (mapOrphanTransactions \cup LargeTxs)
           all == mapOrphanTransactions \cup new
<1>1. PICK evicted \in SUBSET all :
         /\ Cardinality(all \ evicted) <= MAX_ORPHAN_TRANSACTIONS
         /\ mapOrphanTransactions' = all \ evicted
         /\ mapOrphanTransactionsByPrev' = Erase(Enter(mapOrphanTransactionsByPrev, new), evicted)
  BY DEF AddOrphanTx
<1>2. all \subseteq Tx /\ all \ evicted \subseteq all /\ evicted \subseteq Tx
  BY <1>1 DEF OrphansInv
<1>3. IsFiniteSet(all \ evicted)
  <2>1. IsFiniteSet(mapOrphanTransactions \cup {t})
    BY FS_AddElement DEF OrphansInv
  <2>2. all \ evicted \subseteq mapOrphanTransactions \cup {t}
    OBVIOUS
  <2> QED BY <2>1, <2>2, FS_Subset
<1>4. mapOrphanTransactionsByPrev' \in [Tx -> SUBSET Tx]
  BY <1>1, <1>2 DEF OrphansInv, Enter, Erase
<1>5. ASSUME NEW p \in Tx
      PROVE  mapOrphanTransactionsByPrev'[p] = {u \in all \ evicted : p \in PrevTxs(u)}
  <2>1. mapOrphanTransactionsByPrev[p] = {u \in mapOrphanTransactions : p \in PrevTxs(u)}
    BY DEF OrphansInv, OrphanTxsOK
  <2>2. mapOrphanTransactionsByPrev'[p]
          = (mapOrphanTransactionsByPrev[p] \cup {u \in new : p \in PrevTxs(u)})
              \ {u \in evicted : p \in PrevTxs(u)}
    BY <1>1 DEF Enter, Erase
  <2> QED BY <2>1, <2>2
<1> QED BY <1>1, <1>2, <1>3, <1>4, <1>5 DEF OrphansInv, OrphanTxsOK

LEMMA EraseOrphanInv ==
    ASSUME OrphansInv, NEW S, EraseOrphanTx(S)
    PROVE  OrphansInv'
<1>1. /\ mapOrphanTransactions' = mapOrphanTransactions \ S
      /\ mapOrphanTransactionsByPrev' = Erase(mapOrphanTransactionsByPrev, S \cap mapOrphanTransactions)
  BY DEF EraseOrphanTx
<1>2. mapOrphanTransactions' \subseteq mapOrphanTransactions
  BY <1>1
<1>3. /\ IsFiniteSet(mapOrphanTransactions')
      /\ Cardinality(mapOrphanTransactions') <= Cardinality(mapOrphanTransactions)
      /\ Cardinality(mapOrphanTransactions') \in Nat /\ Cardinality(mapOrphanTransactions) \in Nat
  BY <1>2, FS_Subset, FS_CardinalityType DEF OrphansInv
<1>4. mapOrphanTransactionsByPrev' \in [Tx -> SUBSET Tx]
  BY <1>1 DEF OrphansInv, Erase
<1>5. ASSUME NEW p \in Tx
      PROVE  mapOrphanTransactionsByPrev'[p] = {u \in mapOrphanTransactions' : p \in PrevTxs(u)}
  <2>1. mapOrphanTransactionsByPrev[p] = {u \in mapOrphanTransactions : p \in PrevTxs(u)}
    BY DEF OrphansInv, OrphanTxsOK
  <2>2. mapOrphanTransactionsByPrev'[p]
          = mapOrphanTransactionsByPrev[p] \ {u \in S \cap mapOrphanTransactions : p \in PrevTxs(u)}
    BY <1>1 DEF Erase
  <2> QED BY <1>1, <2>1, <2>2
<1>6. Cardinality(mapOrphanTransactions') <= MAX_ORPHAN_TRANSACTIONS
  BY <1>3, PoolAssumption DEF OrphansInv, OrphanTxsOK
<1> QED BY <1>2, <1>3, <1>4, <1>5, <1>6 DEF OrphansInv, OrphanTxsOK

LEMMA SameOrphansInv == ASSUME OrphansInv, UNCHANGED orphanTxs PROVE OrphansInv'
BY DEF OrphansInv, OrphanTxsOK, orphanTxs

\* Steps that leave orphans and handler alone; what the handler waits for matters
\* only while it works.
LEMMA FollowFrame ==
    ASSUME HandlerType, FollowInv, UNCHANGED <<orphanTxs, handler>>, txQueue = <<>>
    PROVE  HandlerType' /\ FollowInv'
<1>1. /\ txQueue' = txQueue /\ iTx' = iTx /\ children' = children /\ vEraseQueue' = vEraseQueue
      /\ accepted' = accepted /\ mapOrphanTransactions' = mapOrphanTransactions
  BY DEF orphanTxs, handler
<1>2. children = {} /\ accepted = {}
  BY DEF FollowInv
<1> QED BY <1>1, <1>2 DEF HandlerType, FollowInv

LEMMA NothingQueued ==
    ASSUME txQueue' = <<>>, iTx' = 0, children' = {}, vEraseQueue' = {}, accepted' = {}
    PROVE  HandlerType' /\ FollowInv'
<1>1. <<>> \in Seq(Tx) /\ Len(<<>>) = 0
  OBVIOUS
<1> QED BY <1>1 DEF HandlerType, FollowInv

LEMMA ReceiveFollow ==
    ASSUME OrphansInv, HandlerType, FollowInv, NEW t \in Tx, ReceiveTx(t)
    PROVE  OrphansInv' /\ HandlerType' /\ FollowInv'
<1>0. txQueue = <<>> /\ pc = "idle" /\ pc' = pc
  BY DEF ReceiveTx, CsMainFree, vars
<1>1. CASE /\ txQueue' = <<t>> /\ iTx' = 1 /\ children' = mapOrphanTransactionsByPrev[t]
           /\ vEraseQueue' = {t} /\ accepted' = {t} /\ UNCHANGED orphanTxs
  <2>1. OrphansInv' /\ mapOrphanTransactions' = mapOrphanTransactions
    BY <1>1, SameOrphansInv DEF orphanTxs
  <2>2. mapOrphanTransactionsByPrev[t] = {o \in mapOrphanTransactions : t \in PrevTxs(o)}
    BY DEF OrphansInv, OrphanTxsOK
  <2>3. <<t>> \in Seq(Tx) /\ Len(<<t>>) = 1 /\ <<t>> # <<>>
    OBVIOUS
  <2>4. HandlerType'
    BY <1>1, <2>2, <2>3 DEF HandlerType, OrphansInv
  <2>5. FollowInv'
    BY <1>0, <1>1, <2>1, <2>2, <2>3 DEF FollowInv
  <2> QED BY <2>1, <2>4, <2>5
<1>2. CASE AddOrphanTx(t) /\ UNCHANGED handler
  <2>1. OrphansInv'
    BY <1>2, AddOrphanInv
  <2>2. /\ txQueue' = txQueue /\ iTx' = iTx /\ children' = children
        /\ vEraseQueue' = vEraseQueue /\ accepted' = accepted
    BY <1>2 DEF handler
  <2>3. children = {} /\ accepted = {}
    BY <1>0 DEF FollowInv
  <2> QED BY <1>0, <2>1, <2>2, <2>3 DEF HandlerType, FollowInv
<1>3. CASE UNCHANGED <<orphanTxs, handler>>
  BY <1>0, <1>3, FollowFrame, SameOrphansInv
<1> QED BY <1>1, <1>2, <1>3 DEF ReceiveTx

LEMMA TryFollow ==
    ASSUME OrphansInv, HandlerType, FollowInv, NEW o \in Tx, TryOrphan(o)
    PROVE  OrphansInv' /\ HandlerType' /\ FollowInv'
<1>0. /\ o \in children /\ children' = children \ {o} /\ iTx' = iTx /\ UNCHANGED orphanTxs
      /\ disk' = disk /\ pc' = pc
  BY DEF TryOrphan, vars, db
<1>1. OrphansInv' /\ mapOrphanTransactions' = mapOrphanTransactions
  BY <1>0, SameOrphansInv DEF orphanTxs
<1>2. txQueue # <<>> /\ pc = "idle" /\ iTx >= 1 /\ iTx \in Nat /\ txQueue \in Seq(Tx)
      /\ Len(txQueue) \in Nat /\ iTx <= Len(txQueue)
  BY <1>0 DEF FollowInv, HandlerType
\* The queue, the pool and what it waits for do not change, and o needs no trial.
<1>3. ASSUME UNCHANGED <<mempool, txQueue, accepted>>, vEraseQueue' \subseteq vEraseQueue \cup {o},
             vEraseQueue \subseteq vEraseQueue', o \in vEraseQueue' \/ ~HasInputs(o)
      PROVE  HandlerType' /\ FollowInv'
  <2>1. \A u : HasInputs(u)' <=> HasInputs(u)
    BY <1>0, <1>3 DEF HasInputs, mempool
  <2>2. HandlerType'
    BY <1>0, <1>3 DEF HandlerType
  <2>3. ASSUME NEW u \in mapOrphanTransactions' \ vEraseQueue', PrevTxs(u) \cap accepted' # {}
        PROVE  \/ ~HasInputs(u)'
               \/ u \in children'
               \/ \E j \in iTx' + 1 .. Len(txQueue') : txQueue'[j] \in PrevTxs(u)
    <3>1. \/ ~HasInputs(u)
          \/ u \in children
          \/ \E j \in iTx + 1 .. Len(txQueue) : txQueue[j] \in PrevTxs(u)
      BY <1>1, <1>3, <2>3 DEF FollowInv
    <3> QED BY <1>0, <1>3, <2>1, <2>3, <3>1
  <2> QED BY <1>0, <1>2, <1>3, <2>2, <2>3 DEF FollowInv
<1>4. CASE /\ AcceptToMemoryPool(o) /\ txQueue' = Append(txQueue, o)
           /\ vEraseQueue' = vEraseQueue \cup {o} /\ accepted' = accepted \cup {o}
  <2>1. mapTx' = mapTx \cup {o}
    BY <1>4 DEF AcceptToMemoryPool, addUnchecked
  <2>2. /\ txQueue' \in Seq(Tx) /\ Len(txQueue') = Len(txQueue) + 1 /\ txQueue' # <<>>
        /\ txQueue'[Len(txQueue) + 1] = o
        /\ \A j \in 1 .. Len(txQueue) : txQueue'[j] = txQueue[j]
    BY <1>2, <1>4
  <2>3. HandlerType'
    BY <1>0, <1>2, <1>4, <2>2 DEF HandlerType
  <2>4. ASSUME NEW u \in mapOrphanTransactions' \ vEraseQueue', PrevTxs(u) \cap accepted' # {}
        PROVE  \/ ~HasInputs(u)'
               \/ u \in children'
               \/ \E j \in iTx' + 1 .. Len(txQueue') : txQueue'[j] \in PrevTxs(u)
    <3>1. CASE o \in PrevTxs(u)
      <4>1. Len(txQueue) + 1 \in iTx' + 1 .. Len(txQueue')
        BY <1>0, <1>2, <2>2
      <4> QED BY <2>2, <3>1, <4>1
    <3>2. CASE o \notin PrevTxs(u)
      <4>1. HasInputs(u)' => HasInputs(u)
        BY <1>0, <2>1, <3>2 DEF HasInputs
      <4>2. u \in mapOrphanTransactions \ vEraseQueue /\ PrevTxs(u) \cap accepted # {} /\ u # o
        BY <1>1, <1>4, <2>4, <3>2
      <4>3. \/ ~HasInputs(u)
            \/ u \in children
            \/ \E j \in iTx + 1 .. Len(txQueue) : txQueue[j] \in PrevTxs(u)
        BY <4>2 DEF FollowInv
      <4>4. ASSUME NEW j \in iTx + 1 .. Len(txQueue)
            PROVE  j \in iTx' + 1 .. Len(txQueue') /\ j \in 1 .. Len(txQueue)
        BY <1>0, <1>2, <2>2
      <4> QED BY <1>0, <2>2, <4>1, <4>2, <4>3, <4>4
    <3> QED BY <3>1, <3>2
  <2>5. FollowInv'
    BY <1>0, <1>2, <2>2, <2>4 DEF FollowInv
  <2> QED BY <1>1, <2>3, <2>5
<1>5. CASE fMissingInputs(o) /\ UNCHANGED <<mempool, txQueue, vEraseQueue, accepted>>
  BY <1>1, <1>3, <1>5 DEF fMissingInputs
<1>6. CASE RejectedByPool(o) /\ vEraseQueue' = vEraseQueue \cup {o} /\ UNCHANGED <<txQueue, accepted>>
  BY <1>1, <1>3, <1>6 DEF RejectedByPool
<1> QED BY <1>4, <1>5, <1>6 DEF TryOrphan

LEMMA NextTxFollow ==
    ASSUME OrphansInv, HandlerType, FollowInv, NextTx
    PROVE  OrphansInv' /\ HandlerType' /\ FollowInv'
<1>0. txQueue # <<>> /\ children = {} /\ UNCHANGED <<vars, mempool>>
  BY DEF NextTx
<1>1. iTx \in Nat /\ iTx >= 1 /\ txQueue \in Seq(Tx) /\ Len(txQueue) \in Nat /\ pc = "idle" /\ pc' = pc
  BY <1>0 DEF FollowInv, HandlerType, vars
<1>2. CASE /\ iTx < Len(txQueue) /\ iTx' = iTx + 1
           /\ children' = mapOrphanTransactionsByPrev[txQueue[iTx + 1]]
           /\ UNCHANGED <<txQueue, vEraseQueue, accepted, orphanTxs>>
  <2>1. OrphansInv' /\ mapOrphanTransactions' = mapOrphanTransactions
    BY <1>2, SameOrphansInv DEF orphanTxs
  <2>2. txQueue[iTx + 1] \in Tx
    BY <1>1, <1>2
  <2>3. children' = {o \in mapOrphanTransactions : txQueue[iTx + 1] \in PrevTxs(o)}
    BY <1>2, <2>2 DEF OrphansInv, OrphanTxsOK
  <2>4. HandlerType'
    BY <1>1, <1>2, <2>3 DEF HandlerType, OrphansInv
  <2>5. \A u : HasInputs(u)' <=> HasInputs(u)
    BY <1>0 DEF HasInputs, mempool, vars, db
  <2>6. ASSUME NEW u \in mapOrphanTransactions' \ vEraseQueue', PrevTxs(u) \cap accepted' # {}
        PROVE  \/ ~HasInputs(u)'
               \/ u \in children'
               \/ \E j \in iTx' + 1 .. Len(txQueue') : txQueue'[j] \in PrevTxs(u)
    <3>1. \/ ~HasInputs(u)
          \/ \E j \in iTx + 1 .. Len(txQueue) : txQueue[j] \in PrevTxs(u)
      BY <1>0, <1>2, <2>1, <2>6 DEF FollowInv
    <3>2. \A j \in iTx + 1 .. Len(txQueue) : j = iTx + 1 \/ j \in iTx' + 1 .. Len(txQueue)
      BY <1>1, <1>2
    <3> QED BY <1>2, <2>1, <2>3, <2>5, <2>6, <3>1, <3>2
  <2>7. FollowInv'
    BY <1>0, <1>1, <1>2, <2>6 DEF FollowInv
  <2> QED BY <2>1, <2>4, <2>7
<1>3. CASE /\ EraseOrphanTx(vEraseQueue)
           /\ txQueue' = <<>> /\ iTx' = 0 /\ vEraseQueue' = {} /\ accepted' = {}
           /\ UNCHANGED children
  BY <1>0, <1>3, EraseOrphanInv, NothingQueued
<1> QED BY <1>2, <1>3 DEF NextTx

OrphansOK == OrphansInv /\ HandlerType /\ FollowInv

LEMMA PoolNextFollow == OrphansOK /\ [PoolNext]_allVars => OrphansOK'
<1> SUFFICES ASSUME OrphansInv, HandlerType, FollowInv, [PoolNext]_allVars
             PROVE  OrphansInv' /\ HandlerType' /\ FollowInv'
  BY DEF OrphansOK
<1>1. ASSUME NEW t \in Tx, ReceiveTx(t) \/ TryOrphan(t) PROVE OrphansInv' /\ HandlerType' /\ FollowInv'
  BY <1>1, ReceiveFollow, TryFollow
<1>2. CASE NextTx
  BY <1>2, NextTxFollow
<1>3. ASSUME UNCHANGED <<orphanTxs, handler>>, txQueue = <<>>
      PROVE  OrphansInv' /\ HandlerType' /\ FollowInv'
  BY <1>3, FollowFrame, SameOrphansInv
<1>4. ASSUME NEW t \in Tx, SubmitTx(t) \/ rmtx(t) PROVE OrphansInv' /\ HandlerType' /\ FollowInv'
  BY <1>3, <1>4 DEF SubmitTx, rmtx, CsMainFree
<1>5. CASE Resurrect \/ DeleteConnected
  <2>1. pc = "postponed" /\ UNCHANGED <<orphanTxs, handler>>
    BY <1>5 DEF Resurrect, DeleteConnected
  <2>2. txQueue = <<>>
    BY <2>1 DEF FollowInv
  <2> QED BY <1>3, <2>1, <2>2
<1>6. CASE txQueue = <<>> /\ BlockStep
  <2>1. UNCHANGED <<orphanTxs, handler>>
    BY <1>6 DEF BlockStep, ExtendPool, ExtendPoolPostponed, ListDisconnected, ListConnected,
                AbandonReorganize, ChainStep, poolVars
  <2> QED BY <1>3, <1>6, <2>1
<1>7. CASE RestartPool
  <2>1. HandlerType' /\ FollowInv'
    BY <1>7, NothingQueued DEF RestartPool
  <2>2. mapOrphanTransactions' = {} /\ mapOrphanTransactionsByPrev' = [p \in Tx |-> {}]
    BY <1>7 DEF RestartPool
  <2>3. IsFiniteSet({}) /\ Cardinality({}) = 0 /\ MAX_ORPHAN_TRANSACTIONS \in Nat
    BY FS_EmptySet, PoolAssumption
  <2>4. OrphansInv'
    BY <2>2, <2>3 DEF OrphansInv, OrphanTxsOK
  <2> QED BY <2>1, <2>4
<1>8. CASE UNCHANGED allVars
  <2>1. /\ UNCHANGED orphanTxs /\ txQueue' = txQueue /\ iTx' = iTx /\ children' = children
        /\ vEraseQueue' = vEraseQueue /\ accepted' = accepted /\ mapTx' = mapTx
        /\ mapOrphanTransactions' = mapOrphanTransactions /\ disk' = disk /\ pc' = pc
    BY <1>8 DEF allVars, poolVars, orphanTxs, handler, mempool, vars, db
  <2>2. OrphansInv'
    BY <2>1, SameOrphansInv
  <2> QED BY <2>1, <2>2 DEF HandlerType, FollowInv, HasInputs
<1> QED BY <1>1, <1>2, <1>4, <1>5, <1>6, <1>7, <1>8 DEF PoolNext, PoolStep

LEMMA PoolInitFollow == PoolInit => OrphansOK
<1> SUFFICES ASSUME PoolInit PROVE OrphansOK
  OBVIOUS
<1>1. <<>> \in Seq(Tx) /\ Len(<<>>) = 0
  OBVIOUS
<1>2. HandlerType /\ FollowInv
  BY <1>1 DEF PoolInit, HandlerType, FollowInv
<1>3. IsFiniteSet({}) /\ Cardinality({}) = 0 /\ MAX_ORPHAN_TRANSACTIONS \in Nat
  BY FS_EmptySet, PoolAssumption
<1>4. OrphansInv
  BY <1>3 DEF PoolInit, OrphansInv, OrphanTxsOK
<1> QED BY <1>2, <1>4 DEF OrphansOK

\* The orphans are found under each of their inputs and nowhere else, through every
\* eviction and erasure, and there are never more than the limit (AddOrphanTx,
\* EraseOrphanTx, LimitOrphanTxSize).
THEOREM PoolMapsCorrect == PoolSpec => []PoolMapsOK
<1>1. PoolInv /\ OrphansOK => PoolMapsOK
  BY DEF PoolInv, Inv, Index, OrphansOK, OrphansInv, HandlerType, PoolMapsOK, PoolTypeOK
<1> QED BY <1>1, PoolInitInv, PoolInitFollow, PoolNextInv, PoolNextFollow, PTL DEF PoolSpec

\* The "tx" handler leaves no orphan behind that its own acceptances made complete,
\* however long the chains of orphans and in whatever order they are tried.
THEOREM OrphansFollow == PoolSpec => OrphansFollowParents
<1>1. PoolInv /\ OrphansOK /\ [PoolNext]_allVars =>
         (txQueue # <<>> /\ txQueue' = <<>> /\ restarts' = restarts =>
            \A o \in mapOrphanTransactions' : PrevTxs(o) \cap accepted # {} => ~HasInputs(o))
  <2> SUFFICES ASSUME PoolInv, OrphansOK, [PoolNext]_allVars, txQueue # <<>>, txQueue' = <<>>,
                      restarts' = restarts, NEW o \in mapOrphanTransactions',
                      PrevTxs(o) \cap accepted # {}
               PROVE  ~HasInputs(o)
    OBVIOUS
  <2>0. txQueue \in Seq(Tx) /\ pc = "idle"
    BY DEF OrphansOK, HandlerType, FollowInv
  <2>1. CASE NextTx
    <3>1. iTx = Len(txQueue) /\ EraseOrphanTx(vEraseQueue) /\ children = {}
      BY <2>1 DEF NextTx
    <3>2. o \in mapOrphanTransactions \ vEraseQueue
      BY <3>1 DEF EraseOrphanTx
    <3>3. iTx \in Nat /\ iTx + 1 .. Len(txQueue) = {}
      BY <3>1, <2>0
    <3> QED BY <3>1, <3>2, <3>3 DEF OrphansOK, FollowInv
  <2>2. CASE \E t \in Tx : TryOrphan(t)
    <3>1. txQueue' = txQueue \/ \E t \in Tx : txQueue' = Append(txQueue, t)
      BY <2>2 DEF TryOrphan
    <3>2. \A t \in Tx : Append(txQueue, t) # <<>>
      BY <2>0
    <3> QED BY <3>1, <3>2
  <2>3. CASE \E t \in Tx : ReceiveTx(t) \/ SubmitTx(t) \/ rmtx(t)
    BY <2>3 DEF ReceiveTx, SubmitTx, rmtx, CsMainFree
  <2>4. CASE Resurrect \/ DeleteConnected
    BY <2>0, <2>4 DEF Resurrect, DeleteConnected
  <2>5. CASE RestartPool
    <3>1. restarts' = restarts + 1 /\ restarts \in Nat
      BY <2>5, TxAssumption DEF RestartPool, Restart, PoolInv, Inv, TypeOK
    <3> QED BY <3>1
  <2>6. CASE UNCHANGED allVars
    BY <2>6 DEF allVars, poolVars, handler
  <2> QED BY <2>1, <2>2, <2>3, <2>4, <2>5, <2>6 DEF PoolNext, PoolStep
<1> QED BY <1>1, PoolInitInv, PoolInitFollow, PoolNextInv, PoolNextFollow, PTL
        DEF PoolSpec, OrphansFollowParents

-----------------------------------------------------------------------------
(* The pending operations on aliases.                                      *)

LEMMA PendingStepIsPoolStep == [PendingNext]_pendingAll => [PoolNext]_allVars
<1> SUFFICES ASSUME [PendingNext]_pendingAll PROVE [PoolNext]_allVars
  OBVIOUS
<1>1. CASE PendingPoolStep
  BY <1>1 DEF PendingPoolStep, PoolNext
<1>2. CASE txQueue = <<>> /\ (PendingConnect \/ PendingFails \/ PendingChainStep)
  BY <1>2 DEF PendingConnect, PendingFails, PendingChainStep, PoolNext, BlockStep, ChainStep
<1>3. CASE PendingRestart
  BY <1>3 DEF PendingRestart, PoolNext
<1>4. CASE UNCHANGED pendingAll
  BY <1>4 DEF pendingAll
<1> QED BY <1>1, <1>2, <1>3, <1>4 DEF PendingNext

\* Pool and pending operations together implement the pool: mapState is looked at
\* by the wallet's commands and decides nothing in pool or chain.
THEOREM PendingImplementsPool == PendingSpec => PoolSpec
<1>1. PendingInit => PoolInit
  BY DEF PendingInit
<1> QED BY <1>1, PendingStepIsPoolStep, PTL DEF PendingSpec, PoolSpec

\* At most one transaction enters the pool in a step.
LEMMA OneEnters ==
    ASSUME PoolInv, PoolStep, NEW t \in mapTx' \ mapTx
    PROVE  t \in Tx /\ mapTx' = mapTx \cup {t}
<1>1. ASSUME NEW u \in Tx, AcceptToMemoryPool(u) PROVE t \in Tx /\ mapTx' = mapTx \cup {t}
  BY <1>1 DEF AcceptToMemoryPool, addUnchecked
<1>2. ASSUME UNCHANGED mempool PROVE FALSE
  BY <1>2 DEF mempool
<1>3. ASSUME NEW S, Without(S) PROVE FALSE
  BY <1>3 DEF Without
<1>4. CASE \E u \in Tx : ReceiveTx(u) \/ TryOrphan(u) \/ SubmitTx(u) \/ rmtx(u)
  BY <1>1, <1>2, <1>3, <1>4 DEF ReceiveTx, TryOrphan, SubmitTx, rmtx, RejectedByPool
<1>5. CASE NextTx
  BY <1>2, <1>5 DEF NextTx
<1>6. CASE Resurrect
  <2>1. Head(vResurrect) \in Tx
    BY <1>6 DEF Resurrect, PoolInv
  <2> QED BY <1>1, <1>2, <1>6, <2>1 DEF Resurrect, RejectedByPool
<1>7. CASE DeleteConnected
  BY <1>3, <1>7 DEF DeleteConnected
<1> QED BY <1>4, <1>5, <1>6, <1>7 DEF PoolStep

PendingTypeOK == mapState \in [Aliases -> SUBSET Tx]

PendingInv == PendingTypeOK /\ PendingOK

LEMMA PendingPoolInv ==
    ASSUME PoolInv, PendingInv, PendingPoolStep
    PROVE  PendingInv'
<1>0. mapTx \subseteq Tx /\ mapState \in [Aliases -> SUBSET Tx] /\ PoolStep
  BY DEF PoolInv, Index, PendingInv, PendingTypeOK, PendingPoolStep
<1>1. ASSUME NEW t \in mapTx' \ mapTx, AcceptToMemoryPoolPost(t) PROVE PendingInv'
  <2>1. t \in Tx /\ mapTx' = mapTx \cup {t}
    BY <1>0, <1>1, OneEnters
  <2>2. AliasOf[t] \in Aliases /\ \A u \in Tx : AliasOf[u] \in Aliases
    BY <2>1, PendingAssumption
  <2>3. CASE t \in AliasOps /\ mapState' = [mapState EXCEPT ![AliasOf[t]] = @ \cup {t}] /\ lost' = lost \ {t}
    <3>1. \A a \in Aliases : mapState'[a] = mapState[a] \cup (IF a = AliasOf[t] THEN {t} ELSE {})
      BY <1>0, <2>2, <2>3
    <3>2. PendingTypeOK'
      BY <1>0, <2>1, <2>2, <2>3 DEF PendingTypeOK
    <3>3. PendingInPool'
      BY <2>1, <3>1 DEF PendingInv, PendingOK, PendingInPool
    <3>4. PendingUnlessLost'
      BY <1>0, <2>1, <2>2, <2>3, <3>1 DEF PendingInv, PendingOK, PendingUnlessLost, AliasOps
    <3> QED BY <3>2, <3>3, <3>4 DEF PendingInv, PendingOK
  <2>4. CASE mapState' = mapState /\ (lost' = lost \cup {t} \/ (t \notin AliasOps /\ lost' = lost))
    BY <2>1, <2>4 DEF PendingInv, PendingOK, PendingTypeOK, PendingInPool, PendingUnlessLost
  <2>5. \/ t \in AliasOps /\ mapState' = [mapState EXCEPT ![AliasOf[t]] = @ \cup {t}] /\ lost' = lost \ {t}
        \/ mapState' = mapState /\ (lost' = lost \cup {t} \/ (t \notin AliasOps /\ lost' = lost))
    BY <1>1 DEF AcceptToMemoryPoolPost, pendingVars
  <2> QED BY <2>3, <2>4, <2>5
<1>2. CASE /\ mapTx' \subseteq mapTx
           /\ mapState' = Erased(mapTx \ mapTx')
           /\ lost' = lost \cap mapTx'
  <2>1. \A a \in Aliases : mapState'[a] = mapState[a] \ (mapTx \ mapTx')
    BY <1>2 DEF Erased
  <2>2. PendingTypeOK'
    BY <1>0, <1>2 DEF PendingTypeOK, Erased
  <2>3. PendingInPool'
    BY <2>1 DEF PendingInv, PendingOK, PendingInPool
  <2>4. \A u \in Tx : AliasOf[u] \in Aliases
    BY PendingAssumption
  <2>5. PendingUnlessLost'
    BY <1>0, <1>2, <2>1, <2>4 DEF PendingInv, PendingOK, PendingUnlessLost, AliasOps
  <2> QED BY <2>2, <2>3, <2>5 DEF PendingInv, PendingOK
<1> QED BY <1>1, <1>2 DEF PendingPoolStep

\* ConnectInputs has met the transactions of S, which leave the pool or are
\* remembered as lost.
LEMMA ErasedInv ==
    ASSUME mapTx \subseteq Tx, PendingInv, NEW S, mapState' = Erased(S),
           mapTx' \subseteq mapTx, mapTx \ mapTx' \subseteq S,
           \A t \in mapTx' : t \in lost \/ (t \in S /\ t \in AliasOps /\ t \in mapState[AliasOf[t]]) => t \in lost'
    PROVE  PendingInv'
<1>0. mapState \in [Aliases -> SUBSET Tx]
  BY DEF PendingInv, PendingTypeOK
<1>1. \A a \in Aliases : mapState'[a] = mapState[a] \ S
  BY DEF Erased
<1>2. PendingTypeOK'
  BY <1>0 DEF PendingTypeOK, Erased
<1>3. PendingInPool'
  BY <1>1 DEF PendingInv, PendingOK, PendingInPool
<1>4. \A u \in Tx : AliasOf[u] \in Aliases
  BY PendingAssumption
<1>5. PendingUnlessLost'
  BY <1>1, <1>4 DEF PendingInv, PendingOK, PendingUnlessLost, AliasOps
<1> QED BY <1>2, <1>3, <1>5 DEF PendingInv, PendingOK

LEMMA PendingConnectInv ==
    ASSUME PoolInv, PendingInv, PendingConnect
    PROVE  PendingInv'
<1>0. mapTx \subseteq Tx
  BY DEF PoolInv, Index
<1>1. lost' = (lost \cup UNION {mapState[a] \ mapState'[a] : a \in Aliases}) \cap mapTx'
  BY DEF PendingConnect
<1>2. ASSUME NEW S, mapState' = Erased(S), mapTx' \subseteq mapTx, mapTx \ mapTx' \subseteq S
      PROVE  PendingInv'
  <2>1. ASSUME NEW t \in mapTx', t \in S, t \in mapState[AliasOf[t]] PROVE t \in lost'
    <3>1. AliasOf[t] \in Aliases
      BY <1>0, <1>2, <2>1, PendingAssumption
    <3>2. t \in mapState[AliasOf[t]] \ mapState'[AliasOf[t]]
      BY <1>2, <2>1, <3>1 DEF Erased
    <3> QED BY <1>1, <2>1, <3>1, <3>2
  <2>2. \A t \in mapTx' : t \in lost => t \in lost'
    BY <1>1
  <2> QED BY <1>0, <1>2, <2>1, <2>2, ErasedInv
<1>3. ASSUME NEW S, Without(S), mapState' = Erased(S) PROVE PendingInv'
  BY <1>2, <1>3 DEF Without
<1>4. CASE ExtendPool /\ mapState' = Erased(TxsOf(pblock))
  BY <1>3, <1>4 DEF ExtendPool
<1>5. CASE ExtendPoolPostponed /\ mapState' = Erased(TxsOf(NextTowards(cursor, pblock)))
  BY <1>3, <1>5 DEF ExtendPoolPostponed
<1>6. CASE ListConnected /\ mapState' = Erased(TxsOf(NextTowards(cursor, pindexIntermediate)))
  <2>1. mapTx' = mapTx
    BY <1>6 DEF ListConnected, mempool
  <2> QED BY <1>2, <1>6, <2>1
<1> QED BY <1>4, <1>5, <1>6 DEF PendingConnect

LEMMA PendingFailsInv ==
    ASSUME PoolInv, PendingInv, PendingFails
    PROVE  PendingInv'
<1>0. mapTx \subseteq Tx
  BY DEF PoolInv, Index
<1>1. mapTx' = mapTx
  BY DEF PendingFails, poolVars, mempool, AbandonReorganize
<1>2. ASSUME NEW b, ConnectFailsIn(b) PROVE PendingInv'
  <2>1. PICK k \in 0 .. Len(vtx[b]) :
          /\ mapState' = Erased({vtx[b][i] : i \in 1 .. k})
          /\ lost' = lost \cup ({vtx[b][i] : i \in 1 .. k} \cap AliasOps \cap mapTx)
    BY <1>2 DEF ConnectFailsIn
  <2> DEFINE met == {vtx[b][i] : i \in 1 .. k}
  <2>2. mapState' = Erased(met) /\ lost' = lost \cup (met \cap AliasOps \cap mapTx)
    BY <2>1
  <2> HIDE DEF met
  <2>3. \A t \in mapTx' : t \in lost \/ (t \in met /\ t \in AliasOps) => t \in lost'
    BY <1>1, <2>2
  <2> QED BY <1>0, <1>1, <2>2, <2>3, ErasedInv
<1>3. ASSUME UNCHANGED pendingVars PROVE PendingInv'
  BY <1>1, <1>3 DEF pendingVars, PendingInv, PendingTypeOK, PendingOK, PendingInPool, PendingUnlessLost
<1> QED BY <1>2, <1>3 DEF PendingFails

LEMMA PendingNextInv == PoolInv /\ PendingInv /\ [PendingNext]_pendingAll => PendingInv'
<1> SUFFICES ASSUME PoolInv, PendingInv, [PendingNext]_pendingAll PROVE PendingInv'
  OBVIOUS
<1>1. ASSUME UNCHANGED <<mempool, pendingVars>> PROVE PendingInv'
  BY <1>1 DEF mempool, pendingVars, PendingInv, PendingTypeOK, PendingOK, PendingInPool, PendingUnlessLost
<1>2. CASE PendingChainStep
  BY <1>1, <1>2 DEF PendingChainStep, ListDisconnected, poolVars
<1>3. CASE PendingRestart
  BY <1>3 DEF PendingRestart, RestartPool, PendingInv, PendingTypeOK, PendingOK, PendingInPool,
              PendingUnlessLost
<1>4. CASE UNCHANGED pendingAll
  BY <1>1, <1>4 DEF pendingAll, allVars, poolVars
<1> QED BY <1>2, <1>3, <1>4, PendingPoolInv, PendingConnectInv, PendingFailsInv DEF PendingNext

\* mapState and the pool agree for every block tree, every set of transactions and
\* any number of crashes: a pending operation is in the pool, and one that waits
\* in the pool is pending unless it was refused or met in a block that failed
\* (AcceptToMemoryPoolPost, RemoveFromMemoryPoolPost, ConnectInputsPost).
THEOREM PendingCorrect == PendingSpec => []PendingOK
<1>1. PendingInit => PoolInv /\ PendingInv
  <2> SUFFICES ASSUME PendingInit PROVE PoolInv /\ PendingInv
    OBVIOUS
  <2>1. PoolInv /\ mapTx = {}
    BY PoolInitInv DEF PendingInit, PoolInit
  <2>2. PendingInv
    BY <2>1 DEF PendingInit, PendingInv, PendingTypeOK, PendingOK, PendingInPool, PendingUnlessLost
  <2> QED BY <2>1, <2>2
<1>2. PoolInv /\ PendingInv /\ [PendingNext]_pendingAll => (PoolInv /\ PendingInv)'
  BY PoolNextInv, PendingNextInv, PendingStepIsPoolStep
<1>3. PendingInv => PendingOK
  BY DEF PendingInv
<1> QED BY <1>1, <1>2, <1>3, PTL DEF PendingSpec

-----------------------------------------------------------------------------
(* The miner.  Its template stays good while the tip is the one it read,   *)
(* because the tip never returns to an earlier block: it only moves to one *)
(* with more trust, or by a restart, which ends the miner too.             *)

\* A step of others leaves tip and transaction index alone, or is one of the
\* commits of a reorganisation, or moves the tip to more trust.
LEMMA TipMoves ==
    ASSUME PoolInv, PoolStep \/ BlockStep
    PROVE  \/ /\ disk'.txPos = disk.txPos /\ disk'.vSpent = disk.vSpent
              /\ pindexBest' = pindexBest
              /\ pc = "postponed" => pc' = "postponed"
           \/ pc' = "postponed" /\ pindexBest' = pindexBest
           \/ pindexBest' \in Blocks /\ nChainTrust[pindexBest'] > nChainTrust[pindexBest]
<1>1. CASE PoolStep
  BY <1>1 DEF PoolStep, ReceiveTx, TryOrphan, SubmitTx, rmtx, NextTx, Resurrect, DeleteConnected,
              vars, db, memory
<1>2. CASE ExtendPool
  BY <1>2 DEF ExtendPool, ExtendBest, PoolInv, Inv, TypeOK, ControlOK
<1>3. CASE ExtendPoolPostponed
  BY <1>3 DEF ExtendPoolPostponed, ConnectPostponed
<1>4. CASE ListDisconnected \/ ListConnected
  BY <1>4 DEF ListDisconnected, ListConnected, ReorganizeDisconnect, ReorganizeConnect, memory
<1>5. CASE AbandonReorganize
  BY <1>5 DEF AbandonReorganize, ReorganizeFails, memory
<1>6. CASE ChainStep
  <2>1. CASE \E b \in Blocks : HoldOrphan(b) \/ DropBlock(b)
    BY <2>1 DEF HoldOrphan, NewBlock, DropBlock, vars, db, memory
  <2>2. CASE \E b \in Blocks : ProcessBlock(b) \/ ProcessOrphan(b)
    <3>1. PICK b \in Blocks : AcceptBlock(b) /\ pc \in {"idle", "orphans"}
      BY <2>2 DEF ProcessBlock, ProcessOrphan, NewBlock
    <3>2. disk \in Database
      BY DEF PoolInv, Inv, TypeOK
    <3> QED BY <3>1, <3>2, AcceptBlockPositions
  <2>3. CASE NextInQueue
    BY <2>3 DEF NextInQueue, db, memory
  <2>4. CASE ExtendBestFails
    BY <2>4 DEF ExtendBestFails, memory
  <2>5. CASE BeginReorganize
    BY <2>5 DEF BeginReorganize, memory
  <2>6. CASE CommitReorganize
    BY <2>6 DEF CommitReorganize
  <2>7. CASE NewBestBlock
    BY <2>7 DEF NewBestBlock, PoolInv, Inv, TypeOK, ControlOK
  <2> QED BY <1>6, <2>1, <2>2, <2>3, <2>4, <2>5, <2>6, <2>7 DEF ChainStep
<1> QED BY <1>1, <1>2, <1>3, <1>4, <1>5, <1>6 DEF BlockStep

\* The miner's transactions connect to the block it builds on.
Template ==
    \A t \in blockTxs :
        /\ disk.txPos[t] = None
        /\ \A o \in vin[t] :
              /\ \A t2 \in blockTxs \ {t} : o \notin vin[t2]
              /\ MinerInputOK(blockTxs, o)

MinerInv ==
    /\ PoolInv
    /\ blockTxs \subseteq Tx
    /\ minerPc # "wait" =>
          pindexPrev \in Blocks /\ nChainTrust[pindexPrev] <= nChainTrust[pindexBest]
    /\ minerPc \in {"built", "submit"} /\ pindexPrev = pindexBest /\ pc # "postponed" => Template
    /\ minerPc = "submit" => pindexPrev = pindexBest /\ pc = "idle"

LEMMA SameTemplate ==
    ASSUME Template, UNCHANGED miner, disk'.txPos = disk.txPos, disk'.vSpent = disk.vSpent
    PROVE  Template'
BY DEF Template, miner, MinerInputOK

LEMMA OthersStepInv == ASSUME MinerInv, OthersStep PROVE MinerInv'
<1>1. PoolInv' /\ pindexBest \in Blocks /\ pindexBest' \in Blocks
  BY PoolStepInv, BlockStepInv DEF MinerInv, OthersStep, PoolInv, Inv, TypeOK
<1>2. /\ minerPc' = minerPc /\ pindexPrev' = pindexPrev /\ blockTxs' = blockTxs
      /\ minerPc # "submit"
  BY DEF OthersStep, miner
<1>3. PoolStep \/ BlockStep
  BY DEF OthersStep
<1>4. CASE /\ disk'.txPos = disk.txPos /\ disk'.vSpent = disk.vSpent
           /\ pindexBest' = pindexBest
           /\ pc = "postponed" => pc' = "postponed"
  <2>1. minerPc' \in {"built", "submit"} /\ pindexPrev' = pindexBest' /\ pc' # "postponed" => Template'
    BY <1>2, <1>4, SameTemplate DEF MinerInv, OthersStep
  <2> QED BY <1>1, <1>2, <1>4, <2>1 DEF MinerInv
<1>5. CASE pc' = "postponed" /\ pindexBest' = pindexBest
  BY <1>1, <1>2, <1>5 DEF MinerInv
<1>6. CASE nChainTrust[pindexBest'] > nChainTrust[pindexBest]
  <2>1. minerPc' # "wait" => /\ pindexPrev' \in Blocks
                             /\ nChainTrust[pindexPrev'] <= nChainTrust[pindexBest']
                             /\ pindexPrev' # pindexBest'
    BY <1>1, <1>2, <1>6, TreeAssumption DEF MinerInv
  <2> QED BY <1>1, <1>2, <2>1 DEF MinerInv
<1>7. PoolInv
  BY DEF MinerInv
<1> QED BY <1>3, <1>4, <1>5, <1>6, <1>7, TipMoves

LEMMA MinerNextInv == MinerInv /\ [MinerNext]_minerVars => MinerInv'
<1> SUFFICES ASSUME MinerInv, [MinerNext]_minerVars PROVE MinerInv'
  OBVIOUS
<1>0. ASSUME UNCHANGED allVars
      PROVE  /\ PoolInv' /\ pindexBest' = pindexBest /\ disk' = disk /\ pc' = pc
             /\ pindexBest \in Blocks
  BY <1>0, PoolNextInv DEF MinerInv, allVars, vars, db, memory, PoolInv, Inv, TypeOK
<1>1. CASE ReadTip
  BY <1>0, <1>1, TreeAssumption DEF ReadTip, MinerInv
<1>2. CASE CollectTransactions
  <2>1. /\ minerPc = "read" /\ minerPc' = "built" /\ pc = "idle" /\ UNCHANGED <<allVars, pindexPrev>>
        /\ blockTxs' \subseteq mapTx /\ Collectable(blockTxs')
    BY <1>2 DEF CollectTransactions, CsMainFree
  <2>2. mapTx \subseteq Tx /\ PoolIndexOK /\ PoolNotInChain
    BY DEF MinerInv, PoolInv, Index
  <2>3. ASSUME NEW t \in blockTxs'
        PROVE  /\ disk.txPos[t] = None
               /\ \A o \in vin[t] : \A t2 \in blockTxs' \ {t} : o \notin vin[t2]
    BY <2>1, <2>2 DEF PoolIndexOK, PoolNotInChain
  <2>4. \A t \in blockTxs' : \A o \in vin[t] : MinerInputOK(blockTxs', o)
    BY <2>1 DEF Collectable
  <2>5. Template'
    BY <1>0, <2>1, <2>3, <2>4 DEF Template, MinerInputOK
  <2> QED BY <1>0, <2>1, <2>2, <2>5 DEF MinerInv
<1>3. CASE CheckStake
  <2>1. /\ minerPc = "built" /\ minerPc' = "submit" /\ pc = "idle" /\ pindexPrev = pindexBest
        /\ UNCHANGED <<allVars, pindexPrev, blockTxs>>
    BY <1>3 DEF CheckStake, CsMainFree
  <2>2. Template'
    BY <1>0, <2>1 DEF MinerInv, Template, MinerInputOK
  <2> QED BY <1>0, <2>1, <2>2 DEF MinerInv
<1>4. CASE StartOver
  BY <1>0, <1>4 DEF StartOver, MinerInv
<1>5. CASE RestartMiner
  <2>1. PoolInv'
    BY <1>5, RestartPoolInv DEF RestartMiner, MinerInv
  <2> QED BY <1>5, <2>1 DEF RestartMiner, MinerInv
<1>6. CASE UNCHANGED minerVars
  <2>1. UNCHANGED allVars /\ UNCHANGED <<minerPc, pindexPrev, blockTxs>>
    BY <1>6 DEF minerVars, miner
  <2>2. Template => Template'
    BY <1>0, <2>1, SameTemplate DEF miner
  <2> QED BY <1>0, <2>1, <2>2 DEF MinerInv
<1> QED BY <1>1, <1>2, <1>3, <1>4, <1>5, <1>6, OthersStepInv DEF MinerNext

\* Whatever happens to chain and pool between CreateNewBlock and CheckStake, the
\* transactions of a block that CheckStake hands to ProcessBlock connect to the
\* tip: none is in the chain, no two conflict, and every input is available.
THEOREM MinerCorrect == MinerSpec => []BlockConnects
<1>1. MinerInit => MinerInv
  BY PoolInitInv DEF MinerInit, MinerInv
<1>2. MinerInv => BlockConnects
  <2> SUFFICES ASSUME MinerInv, minerPc = "submit" PROVE BlockConnects
    BY DEF BlockConnects
  <2>1. Template /\ pindexPrev = pindexBest /\ pindexBest \in Blocks /\ disk \in Database
    BY DEF MinerInv, PoolInv, Inv, TypeOK
  <2>2. \A b \in Anc[pindexBest] : nHeight[b] \in Nat /\ nHeight[pindexBest] \in Nat
    BY <2>1, AncSelf, TreeAssumption
  <2>3. nCoinbaseMaturity \in Nat
    BY TxAssumption
  <2> QED BY <2>1, <2>2, <2>3 DEF Template, MinerInputOK, BlockConnects
<1> QED BY <1>1, <1>2, MinerNextInv, PTL DEF MinerSpec
=============================================================================

----------------------- MODULE SyncCheckpoint_proofs ------------------------
(***************************************************************************)
(* For every tree of blocks and every plan of the master: the stored       *)
(* checkpoint only advances, the stored chain contains it and gets lighter *)
(* only to end in one, and the transaction index stays right through the   *)
(* reorganisations that checkpoints force.                                 *)
(***************************************************************************)
EXTENDS SyncCheckpoint, ChainState_proofs

\* The handler is forcing the best chain to a checkpoint, or about to write it.
Taking == step \in {"setbest", "reorganize", "postponed", "write"}

\* A checkpoint is handled between two blocks, it descends from the current one, and
\* the batch is where ControlOK has it in ChainState.
SyncControl ==
    /\ checkpoints \subseteq Blocks
    /\ step # "none" => pc \in {"idle", "orphans"}
    /\ hashSyncCheckpoint = diskSyncCheckpoint
    /\ Taking => hashSyncCheckpoint \in Anc[target]
    /\ step = "reorganize" =>
          /\ batch.blockindex = disk.blockindex
          /\ cursor \in Anc[pindexBest] \cup Anc[Intermediate]
          /\ Anc[pindexBest] \cap Anc[Intermediate] \subseteq Anc[cursor]
    /\ step = "postponed" => cursor \in Anc[target]

SInv == Inv /\ SyncTypeOK /\ SyncControl

\* The block that the commits have reached.
Tip == IF pc = "postponed" \/ step = "postponed" THEN cursor ELSE pindexBest

\* IndexInv of ChainState, for a reorganisation that a checkpoint forces too.
SyncIndex ==
    ~postponedFailed =>
        /\ disk.hashBestChain = Tip
        /\ pnext = disk.hashNext
        /\ ChainIs(disk, disk.hashBestChain)
        /\ pc = "reorganize" \/ step = "reorganize" => ChainIs(batch, cursor)

\* TrustInv of ChainState: what a commit adds to is what bounds the stored tip.
SyncTrust == nChainTrust[disk.hashBestChain] <= nChainTrust[Tip]

\* Under -cppolicy=strict a block that is being connected descends from the
\* checkpoint, and so does the stored chain; it contains the next one before that
\* is written.
OnBest ==
    /\ pc \in {"setbest", "reorganize", "postponed"} => hashSyncCheckpoint \in Anc[pblock]
    /\ ~postponedFailed =>
          /\ hashSyncCheckpoint \in Anc[disk.hashBestChain]
          /\ step = "write" => target \in Anc[disk.hashBestChain]

-----------------------------------------------------------------------------
(* Blocks and branches.                                                    *)

\* Of two ancestors of a block, one is the other's.
LEMMA AncChain ==
    \A b \in Blocks : \A c, e \in Anc[b] : c \in Anc[e] \/ e \in Anc[c]
<1> DEFINE S == {b \in Blocks : \A c, e \in Anc[b] : c \in Anc[e] \/ e \in Anc[c]}
<1>1. Genesis \in S
  BY TreeAssumption
<1>2. ASSUME NEW b \in Blocks \ {Genesis}, Prev[b] \in S PROVE b \in S
  <2>1. Anc[b] = Anc[Prev[b]] \cup {b} /\ b \in Anc[b]
    BY TreeAssumption
  <2> QED BY <1>2, <2>1
<1>3. S = Blocks
  <2> HIDE DEF S
  <2>1. S \in SUBSET Blocks
    BY DEF S
  <2> QED BY <1>1, <1>2, <2>1, TreeInduction
<1> QED BY <1>3

\* A block of a chain that has more trust than a descendant of c, or as much, is
\* above c when c is in that chain.
LEMMA AboveByTrust ==
    ASSUME NEW b \in Blocks, NEW c \in Anc[b], NEW e \in Anc[b],
           NEW a \in Blocks, c \in Anc[a], nChainTrust[e] > nChainTrust[a]
    PROVE  c \in Anc[e]
<1>1. c \in Blocks /\ e \in Blocks /\ nChainTrust[c] <= nChainTrust[a]
  BY AncClosed, TreeAssumption
<1>2. ~(nChainTrust[e] <= nChainTrust[c])
  BY <1>1, TreeAssumption
<1>3. e \in Anc[c] => e = c \/ nChainTrust[e] < nChainTrust[c]
  BY <1>1, AncClosed
<1> QED BY <1>1, <1>2, <1>3, AncChain, AncSelf, TreeAssumption

\* SetBestChain finds where to stop its first commit.
LEMMA IntermediateFacts ==
    ASSUME target \in Blocks, pindexBest \in Blocks
    PROVE  /\ Intermediate \in Anc[target] /\ Intermediate \in Blocks
           /\ Intermediate = target \/ nChainTrust[Intermediate] > nChainTrust[pindexBest]
<1> DEFINE T == {b \in Anc[target] : b = target \/ nChainTrust[b] > nChainTrust[pindexBest]}
           H == {nHeight[b] : b \in T}
<1>1. target \in T /\ T \subseteq Blocks
  BY AncSelf
<1>2. H \in SUBSET Nat /\ H # {}
  BY <1>1, TreeAssumption
<1>3. \E b \in T : \A c \in T : nHeight[b] <= nHeight[c]
  <2> HIDE DEF H
  <2>1. PICK n \in H : \A k \in H : n <= k
    BY <1>2, LeastNat
  <2> QED BY <2>1 DEF H
<1>4. Intermediate \in T
  BY <1>3 DEF Intermediate
<1> QED BY <1>1, <1>4

-----------------------------------------------------------------------------
(* The invariant of the block chain, with the checkpoints.                 *)

LEMMA SyncInitInv == SyncInit => SInv
<1> SUFFICES ASSUME SyncInit PROVE SInv
  OBVIOUS
<1>1. Inv
  BY InitInv DEF SyncInit
<1>2. SyncTypeOK
  BY CheckpointAssumption, TreeAssumption DEF SyncInit, Init, SyncTypeOK, SyncSteps
<1>3. SyncControl
  BY CheckpointAssumption DEF SyncInit, SyncControl, Taking
<1> QED BY <1>1, <1>2, <1>3 DEF SInv

\* AcceptBlock adds to the index only, and queues the block it has accepted.
LEMMA AcceptSyncInv ==
    ASSUME Inv, NEW b \in Blocks \ {Genesis}, Prev[b] \in mapBlockIndex, AcceptBlockSync(b),
           mapOrphanBlocks' \subseteq Blocks, setStakeSeenOrphan' \subseteq Stakes
    PROVE  /\ Inv'
           /\ mapBlockIndex \subseteq mapBlockIndex'
           /\ pc' = "orphans" \/ vWorkQueue' = vWorkQueue
<1>1. CASE AcceptBlock(b)
  <2>1. Inv'
    BY <1>1, AcceptBlockInv
  <2>2. mapBlockIndex \subseteq mapBlockIndex' /\ (pc' = "orphans" \/ vWorkQueue' = vWorkQueue)
    BY <1>1 DEF AcceptBlock, AddToBlockIndex, Accepted, Refused, memory
  <2> QED BY <2>1, <2>2
<1>2. CASE Refused /\ UNCHANGED <<disk, memory, postponedFailed, restarts>>
  <2>1. Inv'
    BY <1>2, RefusedInv
  <2> QED BY <1>2, <2>1 DEF Refused, memory
<1> QED BY <1>1, <1>2 DEF AcceptBlockSync

\* A step of ProcessBlock keeps the invariant; a checkpoint is looked for after it
\* only when a block was queued.
LEMMA BlockStepInv ==
    ASSUME SInv, BlockStep, UNCHANGED checkpoints
    PROVE  SInv'
<1>0. /\ Inv /\ step = "none" /\ target = None
      /\ UNCHANGED <<diskSyncCheckpoint, hashes, target>>
      /\ step' = IF Len(vWorkQueue') > Len(vWorkQueue) THEN "pending" ELSE "none"
  BY DEF SInv, SyncTypeOK, BlockStep
<1> DEFINE Good == /\ Inv'
                   /\ mapBlockIndex \subseteq mapBlockIndex'
                   /\ Len(vWorkQueue') > Len(vWorkQueue) => pc' = "orphans"
<1>1. ASSUME NEW b \in Blocks, HoldOrphanSync(b) PROVE Good
  <2>1. TypeOK'
    BY <1>0, <1>1, TxAssumption DEF Inv, TypeOK, HoldOrphanSync, ProofsOf, db, memory
  <2>2. IndexOK' /\ ControlOK'
    BY <1>0, <1>1 DEF Inv, IndexOK, ControlOK, HoldOrphanSync, Arrives, db, memory
  <2>3. mapBlockIndex' = mapBlockIndex /\ vWorkQueue' = vWorkQueue /\ vWorkQueue \in Seq(Blocks)
    BY <1>0, <1>1 DEF HoldOrphanSync, memory, Inv, TypeOK
  <2> QED BY <2>1, <2>2, <2>3 DEF Inv
<1>2. ASSUME NEW b \in Blocks, ProcessBlockSync(b) PROVE Good
  <2>1. b # Genesis /\ Prev[b] \in mapBlockIndex /\ AcceptBlockSync(b)
    BY <1>0, <1>2 DEF ProcessBlockSync, Arrives, Inv, IndexOK
  <2>2. mapOrphanBlocks' \subseteq Blocks /\ setStakeSeenOrphan' \subseteq Stakes
    BY <1>0, <1>2 DEF ProcessBlockSync, orphan, Inv, TypeOK
  <2>3. vWorkQueue \in Seq(Blocks)
    BY <1>0 DEF Inv, TypeOK
  <2> QED BY <1>0, <2>1, <2>2, <2>3, AcceptSyncInv
<1>3. ASSUME NEW b \in Blocks, ProcessOrphanSync(b) PROVE Good
  <2>1. Head(vWorkQueue) \in mapBlockIndex /\ vWorkQueue \in Seq(Blocks)
    BY <1>0, <1>3 DEF ProcessOrphanSync, Inv, ControlOK, TypeOK
  <2>2. b # Genesis /\ Prev[b] \in mapBlockIndex /\ AcceptBlockSync(b)
    BY <1>0, <1>3, <2>1, TreeAssumption DEF ProcessOrphanSync, Inv, TypeOK
  <2>3. mapOrphanBlocks' \subseteq Blocks /\ setStakeSeenOrphan' \subseteq Stakes
    BY <1>0, <1>3 DEF ProcessOrphanSync, Inv, TypeOK
  <2> QED BY <1>0, <2>1, <2>2, <2>3, AcceptSyncInv
<1>4. ASSUME NextInQueue PROVE Good
  <2>1. Inv'
    BY <1>0, <1>4, NextInv DEF Next
  <2>2. mapBlockIndex' = mapBlockIndex
    BY <1>4 DEF NextInQueue, memory
  <2>3. Len(vWorkQueue') > Len(vWorkQueue) => pc' = "orphans"
    <3>1. vWorkQueue \in Seq(Blocks) /\ vWorkQueue # <<>> /\ vWorkQueue' = Tail(vWorkQueue)
      BY <1>0, <1>4 DEF NextInQueue, Inv, TypeOK, ControlOK
    <3> QED BY <3>1
  <2> QED BY <2>1, <2>2, <2>3
<1>5. ASSUME SetBestChain PROVE Good
  <2>1. Inv'
    BY <1>0, <1>5, NextInv DEF Next
  <2>2. mapBlockIndex' = mapBlockIndex
    BY <1>5 DEF SetBestChain, ExtendBest, ExtendBestFails, BeginReorganize, ReorganizeDisconnect,
                ReorganizeConnect, ReorganizeFails, CommitReorganize, ConnectPostponed,
                NewBestBlock, memory
  <2>3. pc' = "orphans" \/ vWorkQueue' = vWorkQueue
    BY <1>5 DEF SetBestChain, ExtendBest, ExtendBestFails, BeginReorganize, ReorganizeDisconnect,
                ReorganizeConnect, ReorganizeFails, CommitReorganize, ConnectPostponed,
                NewBestBlock, Accepted, Refused
  <2>4. vWorkQueue \in Seq(Blocks)
    BY <1>0 DEF Inv, TypeOK
  <2>5. Len(vWorkQueue') > Len(vWorkQueue) => pc' = "orphans"
    BY <2>3, <2>4
  <2> QED BY <2>1, <2>2, <2>5
<1> HIDE DEF Good
<1>6. Good
  BY <1>1, <1>2, <1>3, <1>4, <1>5 DEF BlockStep
<1> USE DEF Good
<1>7. SyncTypeOK'
  BY <1>0, <1>6 DEF SInv, SyncTypeOK, SyncSteps, hashes
<1>8. SyncControl'
  BY <1>0, <1>6 DEF SInv, SyncControl, Taking, hashes
<1> QED BY <1>6, <1>7, <1>8 DEF SInv

\* Steps between two blocks that leave the block index and the queue alone.
LEMMA ForceFrame ==
    ASSUME Inv, pc \in {"idle", "orphans"},
           UNCHANGED <<mapBlockIndex, setStakeSeen, orphan, pc, pblock, vWorkQueue, restarts>>,
           disk' \in Database, disk'.blockindex = disk.blockindex,
           disk'.hashBestChain \in mapBlockIndex, pindexBest' \in mapBlockIndex,
           batch' \in Database, pnext' \in [Blocks -> Blocks \cup {None}],
           cursor' \in Blocks \cup {None}, postponedFailed' \in BOOLEAN
    PROVE  Inv'
<1>1. TypeOK'
  BY DEF Inv, TypeOK, orphan
<1>2. IndexOK'
  BY DEF Inv, IndexOK
<1>3. ControlOK'
  BY DEF Inv, ControlOK
<1> QED BY <1>1, <1>2, <1>3 DEF Inv

\* What is known while a checkpoint is taken up.
LEMMA TakingFacts ==
    ASSUME SInv, Taking
    PROVE  /\ Inv /\ pc \in {"idle", "orphans"}
           /\ target \in mapBlockIndex /\ target \in Blocks /\ Anc[target] \subseteq mapBlockIndex
           /\ hashSyncCheckpoint = diskSyncCheckpoint /\ hashSyncCheckpoint \in Anc[target]
           /\ pindexBest \in Blocks /\ pindexBest \in mapBlockIndex
           /\ disk \in Database /\ disk.hashBestChain \in mapBlockIndex /\ batch \in Database
           /\ pnext \in [Blocks -> Blocks \cup {None}] /\ postponedFailed \in BOOLEAN
           /\ cursor \in Blocks \cup {None}
           /\ Intermediate \in Anc[target] /\ Intermediate \in Blocks
           /\ step \in {"reorganize", "postponed"} => cursor \in Blocks
<1>1. /\ Inv /\ pc \in {"idle", "orphans"}
      /\ target \in mapBlockIndex /\ target \in Blocks
      /\ pindexBest \in Blocks /\ pindexBest \in mapBlockIndex
      /\ hashSyncCheckpoint = diskSyncCheckpoint /\ hashSyncCheckpoint \in Anc[target]
      /\ disk \in Database /\ disk.hashBestChain \in mapBlockIndex /\ batch \in Database
      /\ pnext \in [Blocks -> Blocks \cup {None}] /\ postponedFailed \in BOOLEAN
      /\ cursor \in Blocks \cup {None}
  BY DEF SInv, SyncTypeOK, SyncControl, Taking, Inv, TypeOK, IndexOK
<1>2. Anc[target] \subseteq mapBlockIndex
  BY <1>1, AncIndexed
<1>3. Intermediate \in Anc[target] /\ Intermediate \in Blocks
  BY <1>1, IntermediateFacts
<1>4. step \in {"reorganize", "postponed"} => cursor \in Blocks
  BY <1>1, <1>3, AncSelf DEF SInv, SyncControl
<1> QED BY <1>1, <1>2, <1>3, <1>4

\* A step of the batch.
LEMMA ForceBatch ==
    ASSUME SInv, step = "reorganize", UNCHANGED checkpoints,
           NEW d \in Database, NEW c \in Anc[pindexBest] \cup Anc[Intermediate],
           c \in Blocks, d.blockindex = batch.blockindex,
           Anc[pindexBest] \cap Anc[Intermediate] \subseteq Anc[c],
           batch' = d, cursor' = c,
           UNCHANGED <<disk, memory, orphan, pc, pblock, vWorkQueue, postponedFailed, restarts,
                       diskSyncCheckpoint, hashes, step, target>>
    PROVE  SInv'
<1>0. Taking
  BY DEF Taking
<1>1. Inv'
  BY <1>0, TakingFacts, ForceFrame DEF memory
<1>2. Intermediate' = Intermediate /\ Taking' = Taking
  BY DEF Intermediate, Taking, memory
<1>3. SyncTypeOK'
  BY DEF SInv, SyncTypeOK, memory, hashes
<1>4. SyncControl'
  BY <1>2 DEF SInv, SyncControl, memory, hashes
<1> QED BY <1>1, <1>3, <1>4 DEF SInv

\* The end of SetBestChain, or its failure.
LEMMA ForceReturns ==
    ASSUME SInv, UNCHANGED <<mapBlockIndex, checkpoints, diskSyncCheckpoint, hashSyncCheckpoint,
                             hashPendingCheckpoint>>,
           hashInvalidCheckpoint' \in Blocks \cup {None},
           \/ step' = "none" /\ target' = None
           \/ Taking /\ step' = "write" /\ target' = target,
           Inv', pc' \in {"idle", "orphans"}
    PROVE  SInv'
<1>1. SyncTypeOK'
  BY DEF SInv, SyncTypeOK, SyncSteps, Taking
<1>2. SyncControl'
  BY DEF SInv, SyncControl, Taking
<1> QED BY <1>1, <1>2 DEF SInv

LEMMA ForceInv ==
    ASSUME SInv, ForceSetBestChain, UNCHANGED checkpoints
    PROVE  SInv'
<1>0. Taking
  BY DEF ForceSetBestChain, ForceExtend, ForceReorganize, ForceDisconnect, ForceConnect,
         ForceCommit, ForceFails, ForcePostponed, ForceNewBest, Taking
<1>1. CASE ForceExtend
  <2>1. SetBestChainInner(target) /\ pindexBest' = target
    BY <1>1 DEF ForceExtend
  <2>2. /\ disk' \in Database /\ disk'.blockindex = disk.blockindex
        /\ disk'.hashBestChain = target /\ pnext' \in [Blocks -> Blocks \cup {None}]
    BY <1>0, <2>1, TakingFacts, InnerType
  <2>3. Inv'
    BY <1>0, <1>1, <2>1, <2>2, TakingFacts, ForceFrame DEF ForceExtend
  <2>4. hashInvalidCheckpoint \in Blocks \cup {None}
    BY DEF SInv, SyncTypeOK
  <2> QED BY <1>0, <1>1, <2>3, <2>4, TakingFacts, ForceReturns DEF ForceExtend, hashes
<1>2. CASE ForceReorganize
  <2>1. Inv'
    BY <1>0, <1>2, TakingFacts, ForceFrame DEF ForceReorganize, memory
  <2>2. SyncTypeOK'
    BY <1>0, <1>2, TakingFacts DEF ForceReorganize, SInv, SyncTypeOK, SyncSteps, memory, hashes
  <2>3. pindexBest \in Anc[pindexBest]
    BY <1>0, TakingFacts, AncSelf
  <2>4. SyncControl'
    BY <1>0, <1>2, <2>3, TakingFacts DEF ForceReorganize, SInv, SyncControl, memory, hashes
  <2> QED BY <2>1, <2>2, <2>4 DEF SInv
<1>3. CASE ForceDisconnect
  <2>1. cursor \in Blocks /\ Intermediate \in Blocks /\ pindexBest \in Blocks
    BY <1>0, <1>3, TakingFacts DEF ForceDisconnect
  <2>2. cursor # Genesis /\ cursor \in Anc[pindexBest]
    BY <1>3, <2>1, AncSelf DEF ForceDisconnect, SInv, SyncControl
  <2>3. Prev[cursor] \in Anc[pindexBest] /\ Prev[cursor] \in Blocks
    BY <2>1, <2>2, AncClosed, TreeAssumption
  <2>4. /\ DisconnectBlock(batch, cursor) \in Database
        /\ DisconnectBlock(batch, cursor).blockindex = batch.blockindex
    BY <1>0, <2>1, TakingFacts, DisconnectBlockType
  <2>5. Anc[pindexBest] \cap Anc[Intermediate] \subseteq Anc[Prev[cursor]]
    <3>1. Anc[cursor] = Anc[Prev[cursor]] \cup {cursor}
      BY <2>1, <2>2, TreeAssumption
    <3> QED BY <1>3, <3>1 DEF ForceDisconnect, SInv, SyncControl
  <2> QED BY <1>3, <2>3, <2>4, <2>5, ForceBatch DEF ForceDisconnect
<1>4. CASE ForceConnect
  <2> DEFINE b == NextTowards(cursor, Intermediate)
  <2>1. Intermediate \in Blocks
    BY <1>0, TakingFacts
  <2>2. b \in Anc[Intermediate] /\ b \in Blocks \ {Genesis} /\ Prev[b] = cursor
    BY <1>4, <2>1, NextBlock DEF ForceConnect
  <2>3. /\ ConnectBlock(batch, b) \in Database
        /\ ConnectBlock(batch, b).blockindex = batch.blockindex
    BY <1>0, <2>2, TakingFacts, ConnectBlockType
  <2>4. Anc[pindexBest] \cap Anc[Intermediate] \subseteq Anc[b]
    <3>1. Anc[b] = Anc[cursor] \cup {b}
      BY <2>2, TreeAssumption
    <3> QED BY <1>4, <3>1 DEF ForceConnect, SInv, SyncControl
  <2> QED BY <1>4, <2>2, <2>3, <2>4, ForceBatch DEF ForceConnect
<1>5. CASE ForceCommit
  <2>1. cursor = Intermediate /\ cursor \in Blocks /\ cursor \in mapBlockIndex /\ cursor \in Anc[target]
    BY <1>0, <1>5, TakingFacts DEF ForceCommit
  <2>2. /\ disk' \in Database /\ disk'.blockindex = disk.blockindex
        /\ disk'.hashBestChain = cursor
    BY <1>0, <1>5, <2>1, TakingFacts, BestType DEF ForceCommit, SInv, SyncControl
  <2>3. pnext' \in [Blocks -> Blocks \cup {None}] /\ batch' \in Database
    BY <1>0, <1>5, <2>1, TakingFacts, RelinkedType, EmptyDatabaseType DEF ForceCommit, NoBatch
  <2>4. Inv'
    BY <1>0, <1>5, <2>1, <2>2, <2>3, TakingFacts, ForceFrame DEF ForceCommit
  <2>5. SyncTypeOK'
    BY <1>0, <1>5, TakingFacts DEF ForceCommit, SInv, SyncTypeOK, SyncSteps, hashes
  <2>6. SyncControl'
    BY <1>0, <1>5, <2>1, TakingFacts DEF ForceCommit, SInv, SyncControl, hashes
  <2> QED BY <2>4, <2>5, <2>6 DEF SInv
<1>6. CASE ForceFails
  <2>1. batch' \in Database
    BY <1>6, EmptyDatabaseType DEF ForceFails, NoBatch
  <2>2. Inv'
    BY <1>0, <1>6, <2>1, TakingFacts, ForceFrame DEF ForceFails, memory
  <2> QED BY <1>0, <1>6, <2>2, TakingFacts, ForceReturns DEF ForceFails, GiveUp, memory
<1>7. CASE ForcePostponed
  <2> DEFINE b == NextTowards(cursor, target)
  <2>1. target \in Blocks /\ cursor \in Anc[target] /\ cursor # target
    BY <1>0, <1>7, TakingFacts DEF ForcePostponed, SInv, SyncControl
  <2>2. b \in Anc[target] /\ b \in Blocks /\ b \in mapBlockIndex
    BY <1>0, <2>1, NextBlock, TakingFacts
  <2>3. /\ disk' \in Database /\ disk'.blockindex = disk.blockindex
        /\ disk'.hashBestChain = b /\ pnext' \in [Blocks -> Blocks \cup {None}]
    BY <1>0, <1>7, <2>2, InnerType, TakingFacts DEF ForcePostponed
  <2> HIDE DEF b
  <2>4. /\ cursor' = b /\ step = "postponed"
        /\ UNCHANGED <<batch, mapBlockIndex, pindexBest, setStakeSeen, orphan, pc, pblock,
                       vWorkQueue, postponedFailed, restarts, diskSyncCheckpoint, hashes, step, target>>
    BY <1>7 DEF ForcePostponed, b
  <2>5. Inv'
    BY <1>0, <2>2, <2>3, <2>4, TakingFacts, ForceFrame
  <2>6. SyncTypeOK'
    BY <2>4 DEF SInv, SyncTypeOK, hashes
  <2>7. SyncControl'
    BY <2>2, <2>4 DEF SInv, SyncControl, Taking, hashes
  <2> QED BY <2>5, <2>6, <2>7 DEF SInv
<1>8. CASE ForceNewBest
  <2>1. postponedFailed' \in BOOLEAN
    BY <1>0, <1>8, TakingFacts, Zenon DEF ForceNewBest
  <2>2. Inv'
    BY <1>0, <1>8, <2>1, TakingFacts, ForceFrame DEF ForceNewBest, db
  <2>3. hashInvalidCheckpoint \in Blocks \cup {None}
    BY DEF SInv, SyncTypeOK
  <2> QED BY <1>0, <1>8, <2>2, <2>3, TakingFacts, ForceReturns DEF ForceNewBest, hashes
<1> QED BY <1>1, <1>2, <1>3, <1>4, <1>5, <1>6, <1>7, <1>8 DEF ForceSetBestChain

\* Steps of the checkpoints' own handlers, which leave the chain alone.
LEMMA VarsFrame == Inv /\ UNCHANGED vars => Inv'
BY NextInv

\* A checkpoint that TakeUp begins with descends from the current one.
LEMMA TakeUpInv ==
    ASSUME SInv, NEW c \in mapBlockIndex, ValidateSyncCheckpoint(c), TakeUp(c),
           pc \in {"idle", "orphans"}, UNCHANGED <<vars, diskSyncCheckpoint, hashes, checkpoints>>
    PROVE  SInv'
<1>1. Inv' /\ mapBlockIndex' = mapBlockIndex /\ pc' = pc
  BY VarsFrame DEF SInv, vars, memory
<1>2. target' = c /\ step' \in {"write", "setbest"}
  BY DEF TakeUp
<1>3. SyncTypeOK'
  BY <1>1, <1>2 DEF SInv, SyncTypeOK, SyncSteps, hashes
<1>4. SyncControl'
  BY <1>1, <1>2 DEF SInv, SyncControl, Taking, ValidateSyncCheckpoint, hashes
<1> QED BY <1>1, <1>3, <1>4 DEF SInv

LEMMA SyncNextInv == SInv /\ [SyncNext]_syncVars => SInv'
<1> SUFFICES ASSUME SInv, [SyncNext]_syncVars PROVE SInv'
  OBVIOUS
<1>0. Inv /\ SyncTypeOK /\ SyncControl
  BY DEF SInv
<1>1. CASE BlockStep /\ UNCHANGED checkpoints
  BY <1>1, BlockStepInv
<1>2. CASE AcceptPendingSyncCheckpoint /\ UNCHANGED checkpoints
  <2>1. pc \in {"idle", "orphans"} /\ step = "pending" /\ UNCHANGED <<vars, diskSyncCheckpoint>>
    BY <1>0, <1>2 DEF AcceptPendingSyncCheckpoint, SyncControl
  <2>2. Inv' /\ mapBlockIndex' = mapBlockIndex /\ pc' = pc
    BY <1>0, <2>1, VarsFrame DEF vars, memory
  <2>3. CASE /\ hashPendingCheckpoint \in mapBlockIndex
             /\ ValidateSyncCheckpoint(hashPendingCheckpoint)
             /\ TakeUp(hashPendingCheckpoint)
             /\ UNCHANGED hashes
    BY <1>2, <2>1, <2>3, TakeUpInv
  <2>4. CASE GiveUp /\ hashSyncCheckpoint' = hashSyncCheckpoint
             /\ {hashPendingCheckpoint', hashInvalidCheckpoint'} \subseteq Blocks \cup {None}
    <3>1. SyncTypeOK'
      BY <1>0, <2>1, <2>2, <2>4 DEF SyncTypeOK, SyncSteps, GiveUp
    <3>2. SyncControl'
      BY <1>0, <1>2, <2>1, <2>2, <2>4 DEF SyncControl, Taking, GiveUp
    <3> QED BY <2>2, <3>1, <3>2 DEF SInv
  <2>5. {hashPendingCheckpoint, hashInvalidCheckpoint} \subseteq Blocks \cup {None}
    BY <1>0 DEF SyncTypeOK
  <2> QED BY <1>2, <2>3, <2>4, <2>5 DEF AcceptPendingSyncCheckpoint, hashes
<1>3. ASSUME NEW c \in checkpoints, ProcessSyncCheckpoint(c), UNCHANGED checkpoints PROVE SInv'
  <2>1. /\ pc = "idle" /\ step = "none" /\ UNCHANGED <<vars, diskSyncCheckpoint>> /\ c \in Blocks
    BY <1>0, <1>3 DEF ProcessSyncCheckpoint, SyncControl
  <2>2. Inv' /\ mapBlockIndex' = mapBlockIndex /\ pc' = pc
    BY <1>0, <2>1, VarsFrame DEF vars, memory
  <2>3. CASE c \in mapBlockIndex /\ ValidateSyncCheckpoint(c) /\ TakeUp(c) /\ UNCHANGED hashes
    BY <1>3, <2>1, <2>3, TakeUpInv
  <2>4. CASE UNCHANGED <<hashSyncCheckpoint, step, target>>
             /\ {hashPendingCheckpoint', hashInvalidCheckpoint'} \subseteq Blocks \cup {None}
    <3>1. SyncTypeOK'
      BY <1>0, <2>1, <2>2, <2>4 DEF SyncTypeOK
    <3>2. SyncControl'
      BY <1>0, <1>3, <2>1, <2>2, <2>4 DEF SyncControl, Taking
    <3> QED BY <2>2, <3>1, <3>2 DEF SInv
  <2>5. {hashPendingCheckpoint, hashInvalidCheckpoint} \subseteq Blocks \cup {None}
    BY <1>0 DEF SyncTypeOK
  <2> QED BY <1>3, <2>1, <2>3, <2>4, <2>5 DEF ProcessSyncCheckpoint
<1>4. CASE ForceSetBestChain /\ UNCHANGED checkpoints
  BY <1>4, ForceInv
<1>5. CASE WriteSyncCheckpoint /\ UNCHANGED checkpoints
  <2>1. /\ Taking /\ UNCHANGED <<vars, hashInvalidCheckpoint>> /\ diskSyncCheckpoint' = target
        /\ hashSyncCheckpoint' = target /\ hashPendingCheckpoint' = None
        /\ step' = "none" /\ target' = None
    BY <1>5 DEF WriteSyncCheckpoint, Taking, GiveUp
  <2>2. Inv' /\ mapBlockIndex' = mapBlockIndex
    BY <1>0, <2>1, VarsFrame DEF vars, memory
  <2>3. SyncTypeOK'
    BY <1>0, <2>1, <2>2, TakingFacts DEF SyncTypeOK, SyncSteps
  <2>4. SyncControl'
    BY <1>0, <1>5, <2>1 DEF SyncControl, Taking
  <2> QED BY <2>2, <2>3, <2>4 DEF SInv
<1>6. CASE SyncRestart /\ UNCHANGED checkpoints
  <2>1. Restart /\ hashSyncCheckpoint' = diskSyncCheckpoint /\ diskSyncCheckpoint' = diskSyncCheckpoint
        /\ hashPendingCheckpoint' = None /\ hashInvalidCheckpoint' = None
        /\ step' = "none" /\ target' = None
    BY <1>6 DEF SyncRestart, GiveUp
  <2>2. Inv'
    BY <1>0, <2>1, NextInv DEF Next
  <2>3. mapBlockIndex' = mapBlockIndex
    BY <1>0, <2>1 DEF Restart, Inv, IndexOK
  <2>4. SyncTypeOK'
    BY <1>0, <2>1, <2>3 DEF SyncTypeOK, SyncSteps
  <2>5. SyncControl'
    BY <1>0, <1>6, <2>1 DEF SyncControl, Taking
  <2> QED BY <2>2, <2>4, <2>5 DEF SInv
<1>7. CASE UNCHANGED syncVars
  <2>1. UNCHANGED <<vars, diskSyncCheckpoint, hashes, step, target, checkpoints>>
    BY <1>7 DEF syncVars
  <2>2. Inv'
    BY <1>0, <2>1, VarsFrame
  <2>3. mapBlockIndex' = mapBlockIndex /\ batch' = batch /\ disk' = disk /\ cursor' = cursor
        /\ pindexBest' = pindexBest /\ pc' = pc
    BY <2>1 DEF vars, memory, db
  <2>4. SyncTypeOK' /\ SyncControl'
    BY <1>0, <2>1, <2>3 DEF SyncTypeOK, SyncControl, Taking, Intermediate, hashes
  <2> QED BY <2>2, <2>4 DEF SInv
<1> QED BY <1>1, <1>2, <1>3, <1>4, <1>5, <1>6, <1>7 DEF SyncNext

-----------------------------------------------------------------------------
\* The stored checkpoint never goes back and never changes to another branch, for
\* every order of messages, blocks, pending checkpoints and crashes
\* (ValidateSyncCheckpoint, AcceptPendingSyncCheckpoint, WriteSyncCheckpoint).
THEOREM CheckpointsAdvance == SyncSpec => CheckpointAdvances
<1>1. SInv /\ [SyncNext]_syncVars => [(diskSyncCheckpoint \in Anc[diskSyncCheckpoint'])]_syncVars
  <2> SUFFICES ASSUME SInv, [SyncNext]_syncVars PROVE diskSyncCheckpoint \in Anc[diskSyncCheckpoint']
    OBVIOUS
  <2>1. diskSyncCheckpoint \in Blocks /\ diskSyncCheckpoint \in Anc[diskSyncCheckpoint]
    BY AncSelf DEF SInv, SyncTypeOK, Inv, TypeOK
  <2>2. CASE WriteSyncCheckpoint
    <3>1. Taking /\ diskSyncCheckpoint' = target
      BY <2>2 DEF WriteSyncCheckpoint, Taking
    <3> QED BY <3>1, TakingFacts
  <2>3. ~WriteSyncCheckpoint => diskSyncCheckpoint' = diskSyncCheckpoint
    BY DEF SyncNext, BlockStep, AcceptPendingSyncCheckpoint, ProcessSyncCheckpoint, ForceSetBestChain,
           ForceExtend, ForceReorganize, ForceDisconnect, ForceConnect, ForceCommit, ForceFails,
           ForcePostponed, ForceNewBest, SyncRestart, syncVars
  <2> QED BY <2>1, <2>2, <2>3
<1> QED BY SyncInitInv, SyncNextInv, <1>1, PTL DEF SyncSpec, CheckpointAdvances

-----------------------------------------------------------------------------
(* The trust of the stored chain.                                          *)

\* What the commits of a step may do to the stored chain.
SyncTrustStep ==
    /\ SyncTrust'
    /\ nChainTrust[disk'.hashBestChain] < nChainTrust[disk.hashBestChain] =>
          (disk'.hashBestChain = target /\ hashSyncCheckpoint \in Anc[target])

\* AcceptBlock leaves both tips where they are.
LEMMA AcceptTips ==
    ASSUME Inv, NEW b \in Blocks, AcceptBlockSync(b)
    PROVE  disk'.hashBestChain = disk.hashBestChain /\ pindexBest' = pindexBest
           /\ pc' \notin {"reorganize", "postponed"}
<1>1. CASE AddToBlockIndex(b)
  <2>1. disk \in Database
    BY DEF Inv, TypeOK
  <2> QED BY <1>1, <2>1 DEF AddToBlockIndex, Accepted, Database
<1>2. CASE Refused /\ UNCHANGED <<disk, memory, postponedFailed, restarts>>
  BY <1>2 DEF Refused, memory
<1> QED BY <1>1, <1>2 DEF AcceptBlockSync, AcceptBlock

LEMMA SyncNextTrust == SInv /\ SyncTrust /\ [SyncNext]_syncVars => SyncTrustStep
<1> SUFFICES ASSUME SInv, SyncTrust, [SyncNext]_syncVars PROVE SyncTrustStep
  OBVIOUS
<1>0. /\ Inv /\ disk.hashBestChain \in Blocks /\ pindexBest \in Blocks
      /\ \A b \in Blocks : nChainTrust[b] \in Nat
  BY TreeAssumption DEF SInv, Inv, TypeOK, Database
\* Steps that leave both tips where they are.
<1>1. ASSUME disk'.hashBestChain = disk.hashBestChain, Tip' = Tip PROVE SyncTrustStep
  BY <1>0, <1>1 DEF SyncTrustStep, SyncTrust
<1>2. ASSUME disk'.hashBestChain = disk.hashBestChain, pindexBest' = pindexBest,
             pc # "postponed", pc' # "postponed", step # "postponed", step' # "postponed"
      PROVE  SyncTrustStep
  BY <1>1, <1>2 DEF Tip
<1>3. CASE BlockStep
  <2>1. step = "none" /\ step' \in {"none", "pending"}
    BY <1>3 DEF BlockStep
  <2>2. ASSUME NEW b \in Blocks, HoldOrphanSync(b) PROVE SyncTrustStep
    BY <1>2, <2>1, <2>2 DEF HoldOrphanSync, Arrives, db, memory
  <2>3. ASSUME NEW b \in Blocks, ProcessBlockSync(b) \/ ProcessOrphanSync(b) PROVE SyncTrustStep
    <3>1. pc \in {"idle", "orphans"} /\ AcceptBlockSync(b)
      BY <2>3 DEF ProcessBlockSync, ProcessOrphanSync, Arrives
    <3> QED BY <1>0, <1>2, <2>1, <3>1, AcceptTips
  <2>4. CASE NextInQueue \/ SetBestChain
    <3>1. TrustInv
      BY <2>1 DEF SyncTrust, Tip, TrustInv
    <3>2. TrustStep
      BY <1>0, <2>4, <3>1, NextTrust DEF Next
    <3>3. SyncTrust'
      BY <2>1, <3>2 DEF TrustStep, TrustInv, SyncTrust, Tip
    <3>4. disk'.hashBestChain \in Blocks
      BY <1>0, <2>4, NextInv DEF Next, Inv, TypeOK, Database
    <3>5. ~(nChainTrust[disk'.hashBestChain] < nChainTrust[disk.hashBestChain])
      BY <1>0, <3>2, <3>4 DEF TrustStep
    <3> QED BY <3>3, <3>5 DEF SyncTrustStep
  <2> QED BY <1>3, <2>2, <2>3, <2>4 DEF BlockStep
<1>4. CASE AcceptPendingSyncCheckpoint \/ (\E c \in checkpoints : ProcessSyncCheckpoint(c))
           \/ WriteSyncCheckpoint
  <2>1. UNCHANGED vars /\ step \in {"none", "pending", "write"}
        /\ step' \in {"none", "setbest", "write"}
    BY <1>4 DEF AcceptPendingSyncCheckpoint, ProcessSyncCheckpoint, WriteSyncCheckpoint,
                TakeUp, GiveUp
  <2>2. disk' = disk /\ pindexBest' = pindexBest /\ pc' = pc /\ cursor' = cursor
    BY <2>1 DEF vars, db, memory
  <2> QED BY <1>1, <2>1, <2>2 DEF Tip
<1>5. CASE SyncRestart
  <2>1. disk' = disk /\ pindexBest' = disk.hashBestChain /\ pc' = "idle" /\ step' = "none"
    BY <1>5 DEF SyncRestart, Restart, GiveUp
  <2> QED BY <1>0, <2>1 DEF SyncTrustStep, SyncTrust, Tip
<1>6. ASSUME Taking
      PROVE  pc \in {"idle", "orphans"} /\ target \in Blocks /\ hashSyncCheckpoint \in Anc[target]
  BY <1>6, TakingFacts
<1>7. CASE ForceReorganize \/ ForceDisconnect \/ ForceConnect \/ ForceFails
  <2>1. /\ step \in {"setbest", "reorganize"} /\ step' \in {"reorganize", "none"}
        /\ disk' = disk /\ pindexBest' = pindexBest /\ pc' = pc
    BY <1>7 DEF ForceReorganize, ForceDisconnect, ForceConnect, ForceFails, GiveUp, memory
  <2> QED BY <1>2, <1>6, <2>1 DEF Taking
<1>8. CASE ForceExtend
  <2>1. /\ step = "setbest" /\ Prev[target] = pindexBest /\ SetBestChainInner(target)
        /\ pindexBest' = target /\ step' = "write" /\ pc' = pc
    BY <1>8 DEF ForceExtend
  <2>2. target \in Blocks \ {Genesis} /\ pc \in {"idle", "orphans"}
    BY <1>0, <1>6, <2>1, TreeAssumption DEF Taking
  <2>3. disk'.hashBestChain = target
    BY <1>0, <2>1, <2>2, InnerType
  <2>4. nChainTrust[disk.hashBestChain] < nChainTrust[target]
    BY <1>0, <2>1, <2>2, TreeAssumption DEF SyncTrust, Tip
  <2> QED BY <1>0, <2>1, <2>2, <2>3, <2>4 DEF SyncTrustStep, SyncTrust, Tip
<1>9. CASE ForceCommit
  <2>1. /\ step = "reorganize" /\ cursor = Intermediate /\ step' = "postponed"
        /\ cursor' = cursor /\ disk' = WriteHashBestChain(batch, cursor)
    BY <1>9 DEF ForceCommit
  <2>2. cursor \in Blocks /\ batch \in Database /\ target \in Blocks /\ pc \in {"idle", "orphans"}
        /\ hashSyncCheckpoint \in Anc[target]
    BY <2>1, TakingFacts DEF Taking
  <2>3. disk'.hashBestChain = cursor
    BY <2>1, <2>2, BestType
  <2>4. cursor = target \/ nChainTrust[cursor] > nChainTrust[pindexBest]
    BY <1>0, <2>1, <2>2, IntermediateFacts
  <2> QED BY <1>0, <2>1, <2>2, <2>3, <2>4 DEF SyncTrustStep, SyncTrust, Tip
<1>10. CASE ForcePostponed
  <2> DEFINE b == NextTowards(cursor, target)
  <2>1. /\ step = "postponed" /\ cursor # target /\ SetBestChainInner(b)
        /\ cursor' = b /\ step' = "postponed"
    BY <1>10 DEF ForcePostponed
  <2>2. target \in Blocks /\ cursor \in Blocks /\ cursor \in Anc[target]
    BY <2>1, TakingFacts DEF Taking, SInv, SyncControl
  <2>3. b \in Blocks \ {Genesis} /\ Prev[b] = cursor
    BY <2>1, <2>2, NextBlock
  <2> HIDE DEF b
  <2>4. nChainTrust[b] > nChainTrust[cursor]
    BY <2>3, TreeAssumption
  <2>5. disk'.hashBestChain = b
    BY <1>0, <2>1, <2>3, InnerType
  <2> QED BY <1>0, <2>1, <2>2, <2>3, <2>4, <2>5 DEF SyncTrustStep, SyncTrust, Tip
<1>11. CASE ForceNewBest
  <2>1. /\ step = "postponed" /\ pindexBest' = target /\ disk' = disk /\ step' = "write"
        /\ pc' = pc
    BY <1>11 DEF ForceNewBest, db
  <2>2. target \in Blocks /\ cursor \in Blocks /\ cursor \in Anc[target] /\ pc \in {"idle", "orphans"}
    BY <2>1, TakingFacts DEF Taking, SInv, SyncControl
  <2>3. nChainTrust[cursor] <= nChainTrust[target]
    BY <1>0, <2>2, AncClosed
  <2> QED BY <1>0, <2>1, <2>2, <2>3 DEF SyncTrustStep, SyncTrust, Tip
<1>12. CASE UNCHANGED syncVars
  <2>1. disk' = disk /\ Tip' = Tip
    BY <1>12 DEF syncVars, vars, db, memory, Tip
  <2> QED BY <1>1, <2>1
<1> QED BY <1>3, <1>4, <1>5, <1>7, <1>8, <1>9, <1>10, <1>11, <1>12
        DEF SyncNext, ForceSetBestChain

\* The stored chain becomes lighter only when a checkpoint forces it, and then it
\* ends in the checkpoint, a descendant of the current one: not by a first commit
\* that stops below it, a postponed block, a failure or a crash (SetBestChain
\* called from checkpoints.cpp).
THEOREM TrustDrops == SyncSpec => TrustDropsForCheckpoint
<1>1. SyncInit => SyncTrust
  BY TreeAssumption DEF SyncInit, Init, SyncTrust, Tip, EmptyDatabase
<1>2. SInv /\ SyncTrust /\ [SyncNext]_syncVars => SyncTrust'
  BY SyncNextTrust DEF SyncTrustStep
<1>3. SInv /\ SyncTrust /\ [SyncNext]_syncVars
        => [nChainTrust[disk'.hashBestChain] < nChainTrust[disk.hashBestChain] =>
              (disk'.hashBestChain = target /\ hashSyncCheckpoint \in Anc[target])]_syncVars
  BY SyncNextTrust DEF SyncTrustStep
<1> QED BY SyncInitInv, SyncNextInv, <1>1, <1>2, <1>3, PTL DEF SyncSpec, TrustDropsForCheckpoint

-----------------------------------------------------------------------------
(* The transaction index and the links.                                    *)

\* Outside SetBestChain's forced reorganisation this is ChainState's invariant.
LEMMA SyncIndexIs == step \notin {"reorganize", "postponed"} => (SyncIndex <=> IndexInv)
BY DEF SyncIndex, Tip, IndexInv, TipsAgree, LinksOK, ChainInv, ChainIs

LEMMA BlockStepIndex ==
    ASSUME ZeroValue = {}, SInv, IndexInv, BlockStep
    PROVE  IndexInv'
<1>0. Inv
  BY DEF SInv
<1>1. ASSUME NEW b \in Blocks, HoldOrphanSync(b) PROVE IndexInv'
  <2>1. disk' = disk /\ pnext' = pnext /\ pindexBest' = pindexBest
        /\ postponedFailed' = postponedFailed /\ pc = "idle" /\ pc' = "idle"
    BY <1>1 DEF HoldOrphanSync, Arrives, db, memory
  <2> QED BY <2>1, IndexFrame
<1>2. ASSUME NEW b \in Blocks, ProcessBlockSync(b) \/ ProcessOrphanSync(b) PROVE IndexInv'
  <2>1. pc \in {"idle", "orphans"} /\ AcceptBlockSync(b)
    BY <1>2 DEF ProcessBlockSync, ProcessOrphanSync, Arrives
  <2>2. CASE AcceptBlock(b)
    BY <1>0, <2>1, <2>2, AcceptIndex
  <2>3. CASE Refused /\ UNCHANGED <<disk, memory, postponedFailed, restarts>>
    <3>1. /\ disk' = disk /\ pnext' = pnext /\ pindexBest' = pindexBest
          /\ postponedFailed' = postponedFailed /\ pc' \in {"idle", "orphans"}
      BY <2>3 DEF memory, Refused
    <3> QED BY <2>1, <3>1, IndexFrame
  <2> QED BY <2>1, <2>2, <2>3 DEF AcceptBlockSync
<1>3. CASE NextInQueue \/ SetBestChain
  BY <1>0, <1>3, NextIndex DEF Next
<1> QED BY <1>1, <1>2, <1>3 DEF BlockStep

LEMMA ForceIndex ==
    ASSUME ZeroValue = {}, SInv, SyncIndex, ForceSetBestChain
    PROVE  SyncIndex'
<1>0. Taking
  BY DEF ForceSetBestChain, ForceExtend, ForceReorganize, ForceDisconnect, ForceConnect,
         ForceCommit, ForceFails, ForcePostponed, ForceNewBest, Taking
<1>00. /\ Inv /\ pc \in {"idle", "orphans"} /\ target \in mapBlockIndex /\ target \in Blocks
       /\ Anc[target] \subseteq mapBlockIndex /\ pindexBest \in Blocks
       /\ disk \in Database /\ batch \in Database /\ pnext \in [Blocks -> Blocks \cup {None}]
       /\ Intermediate \in Anc[target] /\ Intermediate \in Blocks
       /\ step \in {"reorganize", "postponed"} => cursor \in Blocks
  BY <1>0, TakingFacts
<1>1. CASE ForceExtend
  <2>1. /\ step = "setbest" /\ Prev[target] = pindexBest /\ SetBestChainInner(target)
        /\ pindexBest' = target /\ step' = "write" /\ postponedFailed' = postponedFailed /\ pc' = pc
    BY <1>1 DEF ForceExtend
  <2>2. target \in mapBlockIndex \ {Genesis}
    BY <1>00, <2>1, TreeAssumption
  <2>3. ~postponedFailed => pindexBest = disk.hashBestChain
    BY <1>00, <2>1 DEF SyncIndex, Tip
  <2>4. ~postponedFailed =>
           ChainIs(disk', target) /\ disk'.hashBestChain = target /\ pnext' = disk'.hashNext
    BY <1>00, <2>1, <2>2, <2>3, IndexInner DEF SyncIndex
  <2> QED BY <1>00, <2>1, <2>4 DEF SyncIndex, Tip
<1>2. CASE ForceReorganize
  <2>1. /\ disk' = disk /\ batch' = disk /\ cursor' = pindexBest /\ step = "setbest"
        /\ step' = "reorganize" /\ pnext' = pnext /\ pindexBest' = pindexBest
        /\ postponedFailed' = postponedFailed /\ pc' = pc
    BY <1>2 DEF ForceReorganize, memory
  <2> QED BY <1>00, <2>1 DEF SyncIndex, Tip
<1>3. ASSUME ~postponedFailed => ChainIs(batch', cursor'), step = "reorganize",
             UNCHANGED <<disk, memory, pc, step, postponedFailed>>
      PROVE  SyncIndex'
  <2>1. /\ disk' = disk /\ pnext' = pnext /\ pindexBest' = pindexBest
        /\ pc' = pc /\ step' = step /\ postponedFailed' = postponedFailed
    BY <1>3 DEF memory
  <2> QED BY <1>00, <1>3, <2>1 DEF SyncIndex, Tip
<1>4. CASE ForceDisconnect
  <2>1. cursor \in Blocks \ {Genesis} /\ step = "reorganize"
    BY <1>00, <1>4, AncSelf DEF ForceDisconnect
  <2>2. ~postponedFailed => ChainIs(DisconnectBlock(batch, cursor), Prev[cursor])
    BY <1>00, <2>1, DisconnectChain DEF SyncIndex
  <2> QED BY <1>3, <1>4, <2>1, <2>2 DEF ForceDisconnect
<1>5. CASE ForceConnect
  <2> DEFINE b == NextTowards(cursor, Intermediate)
  <2>1. /\ step = "reorganize" /\ cursor \in Anc[Intermediate] /\ cursor # Intermediate
        /\ Connects(batch, b) /\ batch' = ConnectBlock(batch, b) /\ cursor' = b
        /\ UNCHANGED <<disk, memory, pc, step, postponedFailed>>
    BY <1>5 DEF ForceConnect
  <2>2. b \in Anc[Intermediate] /\ b \in Blocks \ {Genesis} /\ Prev[b] = cursor
    BY <1>00, <2>1, NextBlock
  <2>3. b \in mapBlockIndex
    BY <1>00, <2>2, AncClosed
  <2>4. Anc[b] \cap Rejected = {}
    BY <1>00, <2>3, AncIndexed DEF Inv, IndexOK
  <2>5. b \notin Anc[pindexBest]
    <3>1. b \notin Anc[cursor]
      BY <2>2, TreeAssumption
    <3> QED BY <2>1, <2>2, <3>1 DEF SInv, SyncControl
  <2>6. ~postponedFailed => pnext[b] = None
    <3>1. ~postponedFailed => LinksAre(pnext, pindexBest)
      BY <1>00, <2>1 DEF SyncIndex, Tip, ChainIs
    <3> QED BY <1>00, <2>2, <2>5, <3>1, NoLink
  <2>7. ~postponedFailed => ChainIs(batch, Prev[b])
    BY <2>1, <2>2 DEF SyncIndex
  <2> HIDE DEF b
  <2>8. ~postponedFailed => ChainIs(batch', cursor')
    BY <1>00, <2>1, <2>2, <2>4, <2>6, <2>7, ConnectChain
  <2> QED BY <1>3, <2>1, <2>8
<1>6. CASE ForceCommit
  <2>1. /\ disk' = WriteHashBestChain(batch, cursor) /\ step = "reorganize" /\ step' = "postponed"
        /\ pnext' = Relinked(pindexBest, cursor)
        /\ cursor' = cursor /\ postponedFailed' = postponedFailed /\ cursor \in Blocks /\ pc' = pc
    BY <1>00, <1>6 DEF ForceCommit
  <2>2. /\ disk'.hashBestChain = cursor /\ disk'.hashNext = batch.hashNext
        /\ disk'.txPos = batch.txPos /\ disk'.vSpent = batch.vSpent
    BY <1>00, <2>1, BestType
  <2>3. ~postponedFailed => ChainIs(disk', cursor)
    BY <2>1, <2>2 DEF SyncIndex, ChainIs, TxIndexIs
  <2>4. ~postponedFailed => pnext' = disk'.hashNext
    <3> SUFFICES ASSUME ~postponedFailed PROVE pnext' = disk'.hashNext
      OBVIOUS
    <3>1. LinksAre(pnext, pindexBest)
      BY <1>00, <2>1 DEF SyncIndex, Tip, ChainIs
    <3>2. LinksAre(pnext', cursor) /\ pnext' \in [Blocks -> Blocks \cup {None}]
      BY <1>00, <2>1, <3>1, RelinkedMemory, RelinkedType
    <3>3. LinksAre(batch.hashNext, cursor) /\ batch.hashNext \in [Blocks -> Blocks \cup {None}]
      BY <1>00, <2>1 DEF SyncIndex, ChainIs, Database
    <3> QED BY <2>1, <2>2, <3>2, <3>3, LinksUnique
  <2> QED BY <1>00, <2>1, <2>2, <2>3, <2>4 DEF SyncIndex, Tip
<1>7. CASE ForceFails
  <2>1. /\ step \in {"setbest", "reorganize"} /\ step' = "none" /\ disk' = disk /\ pnext' = pnext
        /\ pindexBest' = pindexBest /\ pc' = pc /\ postponedFailed' = postponedFailed
    BY <1>7 DEF ForceFails, GiveUp, memory
  <2> QED BY <1>00, <2>1 DEF SyncIndex, Tip
<1>8. CASE ForcePostponed
  <2> DEFINE b == NextTowards(cursor, target)
  <2>1. /\ step = "postponed" /\ step' = "postponed" /\ cursor # target /\ SetBestChainInner(b)
        /\ cursor' = b /\ postponedFailed' = postponedFailed /\ pc' = pc
    BY <1>8 DEF ForcePostponed
  <2>2. cursor \in Anc[target]
    BY <2>1 DEF SInv, SyncControl
  <2>3. b \in mapBlockIndex \ {Genesis} /\ Prev[b] = cursor
    BY <1>00, <2>1, <2>2, NextBlock
  <2> HIDE DEF b
  <2>4. ~postponedFailed => Prev[b] = disk.hashBestChain
    BY <2>1, <2>3 DEF SyncIndex, Tip
  <2>5. ~postponedFailed =>
           ChainIs(disk', b) /\ disk'.hashBestChain = b /\ pnext' = disk'.hashNext
    BY <1>00, <2>1, <2>3, <2>4, IndexInner DEF SyncIndex
  <2> QED BY <1>00, <2>1, <2>5 DEF SyncIndex, Tip
<1>9. CASE ForceNewBest
  <2>1. /\ disk' = disk /\ pnext' = pnext /\ pindexBest' = target
        /\ step = "postponed" /\ step' = "write" /\ pc' = pc
    BY <1>9 DEF ForceNewBest, db
  <2>2. CASE cursor = target /\ postponedFailed' = postponedFailed
    BY <1>00, <2>1, <2>2 DEF SyncIndex, Tip
  <2>3. CASE postponedFailed' = TRUE
    BY <2>3 DEF SyncIndex
  <2> QED BY <1>9, <2>2, <2>3 DEF ForceNewBest
<1> QED BY <1>1, <1>2, <1>4, <1>5, <1>6, <1>7, <1>8, <1>9 DEF ForceSetBestChain

LEMMA SyncNextIndex ==
    ASSUME ZeroValue = {}
    PROVE  SInv /\ SyncIndex /\ [SyncNext]_syncVars => SyncIndex'
<1> SUFFICES ASSUME SInv, SyncIndex, [SyncNext]_syncVars PROVE SyncIndex'
  OBVIOUS
<1>1. CASE BlockStep
  <2>1. step = "none" /\ step' \in {"none", "pending"}
    BY <1>1 DEF BlockStep
  <2>2. IndexInv'
    BY <1>1, <2>1, SyncIndexIs, BlockStepIndex
  <2> QED BY <2>1, <2>2 DEF SyncIndex, Tip, IndexInv, TipsAgree, LinksOK, ChainInv
<1>2. ASSUME UNCHANGED vars, step' = step \/ {step, step'} \cap {"reorganize", "postponed"} = {}
      PROVE  SyncIndex'
  <2>1. disk' = disk /\ pnext' = pnext /\ pindexBest' = pindexBest /\ batch' = batch
        /\ cursor' = cursor /\ pc' = pc /\ postponedFailed' = postponedFailed
    BY <1>2 DEF vars, db, memory
  <2> QED BY <1>2, <2>1 DEF SyncIndex, Tip
<1>3. CASE AcceptPendingSyncCheckpoint \/ (\E c \in checkpoints : ProcessSyncCheckpoint(c))
           \/ WriteSyncCheckpoint
  <2>1. UNCHANGED vars /\ step \in {"none", "pending", "write"}
        /\ step' \in {"none", "setbest", "write"}
    BY <1>3 DEF AcceptPendingSyncCheckpoint, ProcessSyncCheckpoint, WriteSyncCheckpoint,
                TakeUp, GiveUp
  <2> QED BY <1>2, <2>1
<1>4. CASE ForceSetBestChain
  BY <1>4, ForceIndex
<1>5. CASE SyncRestart
  <2>1. /\ disk' = disk /\ pnext' = disk.hashNext /\ pindexBest' = disk.hashBestChain
        /\ postponedFailed' = postponedFailed /\ pc' = "idle" /\ step' = "none"
    BY <1>5 DEF SyncRestart, Restart, GiveUp
  <2> QED BY <2>1 DEF SyncIndex, Tip
<1>6. CASE UNCHANGED syncVars
  BY <1>2, <1>6 DEF syncVars
<1> QED BY <1>1, <1>3, <1>4, <1>5, <1>6 DEF SyncNext

LEMMA SyncInitIndex == SyncInit => SyncIndex
BY InitIndex, SyncIndexIs DEF SyncInit

\* When every output is worth something, the transaction index and the links on
\* disk describe the stored chain at every commit, through the reorganisations that
\* a checkpoint forces to a branch with less trust too, and the checkpoint's hashes
\* stay in the block index (Reorganize, SetBestChain, WriteSyncCheckpoint).
THEOREM DatabaseCorrect ==
    ASSUME ZeroValue = {}
    PROVE  SyncSpec => []DatabaseOK
<1>1. SInv /\ SyncIndex /\ [SyncNext]_syncVars => (SInv /\ SyncIndex)'
  BY SyncNextInv, SyncNextIndex
<1>2. SInv /\ SyncIndex => DatabaseOK
  BY DEF SInv, SyncIndex, DatabaseOK, TxIndexOK, LinksOK, ChainIs
<1> QED BY SyncInitInv, SyncInitIndex, <1>1, <1>2, PTL DEF SyncSpec

-----------------------------------------------------------------------------
(* The checkpoint in the stored chain.                                     *)

\* A block that CheckSync lets through and that is new descends from the checkpoint.
LEMMA CheckedDescends ==
    ASSUME SInv, NEW b \in Blocks, b \notin mapBlockIndex, CheckSync(b)
    PROVE  hashSyncCheckpoint \in Anc[b]
<1>1. hashSyncCheckpoint \in mapBlockIndex /\ hashSyncCheckpoint \in Blocks
      /\ Genesis \in mapBlockIndex
  BY DEF SInv, SyncTypeOK, Inv, TypeOK, IndexOK
<1>2. b # Genesis /\ nHeight[b] \in Nat /\ nHeight[hashSyncCheckpoint] \in Nat
  BY <1>1, TreeAssumption
<1>3. nHeight[b] > nHeight[hashSyncCheckpoint]
  BY <1>1, <1>2 DEF CheckSync
<1>4. hashSyncCheckpoint \in Anc[Prev[b]]
  BY <1>3 DEF CheckSync
<1> QED BY <1>2, <1>4, TreeAssumption

\* What a step of ProcessBlock has to show.
LEMMA OnBestBlock ==
    ASSUME CheckpointsMode = "strict", SInv, SyncIndex, OnBest, BlockStep
    PROVE  OnBest'
<1>0. /\ Inv /\ step = "none" /\ step' # "write" /\ hashSyncCheckpoint' = hashSyncCheckpoint
      /\ disk \in Database /\ disk.hashBestChain \in Blocks /\ hashSyncCheckpoint \in Blocks
  BY DEF SInv, BlockStep, hashes, Inv, TypeOK, Database, SyncTypeOK
\* Steps that leave the tip on disk, and end or go on with the same block.
<1>1. ASSUME disk'.hashBestChain = disk.hashBestChain, postponedFailed' = postponedFailed,
             pc' \in {"setbest", "reorganize", "postponed"} => hashSyncCheckpoint \in Anc[pblock']
      PROVE  OnBest'
  BY <1>0, <1>1 DEF OnBest
<1>2. ASSUME NEW b \in Blocks, HoldOrphanSync(b) PROVE OnBest'
  BY <1>1, <1>2 DEF HoldOrphanSync, Arrives, db
<1>3. ASSUME NEW b \in Blocks, ProcessBlockSync(b) \/ ProcessOrphanSync(b) PROVE OnBest'
  <2>1. AcceptBlockSync(b)
    BY <1>3 DEF ProcessBlockSync, ProcessOrphanSync
  <2>2. CASE CheckSync(b) /\ PassesAcceptBlock(b) /\ AddToBlockIndex(b)
    <3>1. disk'.hashBestChain = disk.hashBestChain
      BY <1>0, <2>2 DEF AddToBlockIndex, Database
    <3>2. hashSyncCheckpoint \in Anc[b]
      BY <2>2, CheckedDescends DEF PassesAcceptBlock
    <3>3. postponedFailed' = postponedFailed /\ ((pc' = "setbest" /\ pblock' = b) \/ pc' = "orphans")
      BY <2>2 DEF AddToBlockIndex, Accepted
    <3> QED BY <1>1, <3>1, <3>2, <3>3
  <2>3. CASE Refused /\ UNCHANGED <<disk, memory, postponedFailed, restarts>>
    BY <1>1, <2>3 DEF Refused
  <2> QED BY <2>1, <2>2, <2>3 DEF AcceptBlockSync, AcceptBlock
<1>4. CASE NextInQueue \/ ExtendBestFails \/ ReorganizeFails
  BY <1>1, <1>4 DEF NextInQueue, ExtendBestFails, ReorganizeFails, Refused, db
<1>5. CASE BeginReorganize \/ ReorganizeDisconnect \/ ReorganizeConnect
  <2>1. /\ disk' = disk /\ postponedFailed' = postponedFailed /\ pblock' = pblock
        /\ pc \in {"setbest", "reorganize"}
    BY <1>5 DEF BeginReorganize, ReorganizeDisconnect, ReorganizeConnect
  <2> QED BY <1>1, <2>1 DEF OnBest
<1>6. CASE ExtendBest
  <2>1. /\ pc = "setbest" /\ pc' = "orphans" /\ SetBestChainInner(pblock)
        /\ postponedFailed' = postponedFailed
    BY <1>6 DEF ExtendBest, Accepted
  <2>2. disk'.hashBestChain = pblock
    BY <1>0, <2>1, ReorganizeFacts, InnerType
  <2> QED BY <1>0, <2>1, <2>2 DEF OnBest
<1>7. CASE CommitReorganize
  <2>1. /\ pc = "reorganize" /\ cursor = pindexIntermediate /\ pc' = "postponed"
        /\ disk' = WriteHashBestChain(batch, cursor) /\ pblock' = pblock
        /\ postponedFailed' = postponedFailed
    BY <1>7 DEF CommitReorganize
  <2>2. /\ pblock \in Blocks /\ cursor \in Blocks /\ cursor \in Anc[pblock] /\ batch \in Database
        /\ nChainTrust[cursor] > nChainTrust[pindexBest] /\ hashSyncCheckpoint \in Anc[pblock]
    BY <1>0, <2>1, IntermediateBlock DEF Inv, ControlOK, TypeOK, OnBest
  <2>3. disk'.hashBestChain = cursor
    BY <2>1, <2>2, BestType
  <2>4. ~postponedFailed => hashSyncCheckpoint \in Anc[cursor]
    <3> SUFFICES ASSUME ~postponedFailed PROVE hashSyncCheckpoint \in Anc[cursor]
      OBVIOUS
    <3>1. disk.hashBestChain = pindexBest /\ hashSyncCheckpoint \in Anc[disk.hashBestChain]
      BY <1>0, <2>1 DEF SyncIndex, Tip, OnBest
    <3> QED BY <1>0, <2>2, <3>1, AboveByTrust
  <2> QED BY <1>0, <2>1, <2>2, <2>3, <2>4 DEF OnBest
<1>8. CASE ConnectPostponed
  <2> DEFINE b == NextTowards(cursor, pblock)
  <2>1. /\ pc = "postponed" /\ cursor # pblock /\ SetBestChainInner(b) /\ pblock' = pblock
        /\ pc' = "postponed" /\ postponedFailed' = postponedFailed
    BY <1>8 DEF ConnectPostponed
  <2>2. pblock \in Blocks /\ cursor \in Anc[pblock]
    BY <1>0, <2>1, ReorganizeFacts DEF Inv, ControlOK
  <2>3. b \in Blocks \ {Genesis} /\ Prev[b] = cursor
    BY <2>1, <2>2, NextBlock
  <2> HIDE DEF b
  <2>4. disk'.hashBestChain = b
    BY <1>0, <2>1, <2>3, InnerType
  <2>5. ~postponedFailed => disk.hashBestChain = Prev[b]
    BY <2>1, <2>3 DEF SyncIndex, Tip
  <2>6. Anc[Prev[b]] \subseteq Anc[b]
    BY <2>3, TreeAssumption
  <2> QED BY <1>0, <2>1, <2>4, <2>5, <2>6 DEF OnBest
<1>9. CASE NewBestBlock
  <2>1. disk' = disk /\ pc' = "orphans" /\ (postponedFailed' = postponedFailed \/ postponedFailed' = TRUE)
    BY <1>9 DEF NewBestBlock, Accepted
  <2> QED BY <1>0, <2>1 DEF OnBest
<1> QED BY <1>2, <1>3, <1>4, <1>5, <1>6, <1>7, <1>8, <1>9 DEF BlockStep, SetBestChain

\* A checkpoint that is in the main chain in memory is in the chain on disk.
LEMMA TakeUpOnBest ==
    ASSUME SInv, SyncIndex, OnBest, step \in {"none", "pending"}, pc \in {"idle", "orphans"},
           NEW c \in mapBlockIndex, TakeUp(c), UNCHANGED <<vars, hashes>>
    PROVE  OnBest'
<1>1. /\ disk' = disk /\ postponedFailed' = postponedFailed /\ pc' = pc /\ target' = c
      /\ hashSyncCheckpoint' = hashSyncCheckpoint
  BY DEF vars, db, hashes, TakeUp
<1>2. ~postponedFailed /\ step' = "write" => c \in Anc[disk.hashBestChain]
  <2> SUFFICES ASSUME ~postponedFailed, step' = "write" PROVE c \in Anc[disk.hashBestChain]
    OBVIOUS
  <2>1. c \in Blocks /\ disk.hashBestChain \in Blocks
    BY DEF SInv, Inv, TypeOK, Database
  <2>2. disk.hashBestChain = pindexBest /\ LinksAre(pnext, disk.hashBestChain)
    BY DEF SyncIndex, Tip, ChainIs
  <2>3. pnext[c] # None \/ c = pindexBest
    BY DEF TakeUp, IsInMainChain
  <2> QED BY <2>1, <2>2, <2>3, NoLink, AncSelf
<1> QED BY <1>1, <1>2 DEF OnBest

LEMMA ForceOnBest ==
    ASSUME SInv, SyncIndex, OnBest, ForceSetBestChain
    PROVE  OnBest'
<1>0. Taking
  BY DEF ForceSetBestChain, ForceExtend, ForceReorganize, ForceDisconnect, ForceConnect,
         ForceCommit, ForceFails, ForcePostponed, ForceNewBest, Taking
<1>1. /\ Inv /\ pc \in {"idle", "orphans"} /\ target \in Blocks
      /\ hashSyncCheckpoint \in Anc[target] /\ target \in Anc[target]
      /\ pindexBest \in Blocks /\ disk \in Database /\ batch \in Database
      /\ Intermediate \in Anc[target] /\ Intermediate \in Blocks
      /\ step \in {"reorganize", "postponed"} => cursor \in Blocks
  BY <1>0, TakingFacts, AncSelf
<1>2. pc' = pc /\ hashSyncCheckpoint' = hashSyncCheckpoint
  BY DEF ForceSetBestChain, ForceExtend, ForceReorganize, ForceDisconnect, ForceConnect,
         ForceCommit, ForceFails, ForcePostponed, ForceNewBest, hashes
<1>3. CASE ForceReorganize \/ ForceDisconnect \/ ForceConnect \/ ForceFails
  <2>1. disk' = disk /\ postponedFailed' = postponedFailed /\ step' # "write"
    BY <1>3 DEF ForceReorganize, ForceDisconnect, ForceConnect, ForceFails, GiveUp
  <2> QED BY <1>1, <1>2, <2>1 DEF OnBest
<1>4. CASE ForceExtend
  <2>1. SetBestChainInner(target) /\ target' = target
    BY <1>4 DEF ForceExtend
  <2>2. disk'.hashBestChain = target
    BY <1>1, <2>1, InnerType
  <2> QED BY <1>1, <1>2, <2>1, <2>2 DEF OnBest
<1>5. CASE ForceCommit
  <2>1. /\ step = "reorganize" /\ cursor = Intermediate /\ step' = "postponed"
        /\ disk' = WriteHashBestChain(batch, cursor) /\ postponedFailed' = postponedFailed
    BY <1>5 DEF ForceCommit
  <2>2. disk'.hashBestChain = Intermediate
    BY <1>1, <2>1, BestType
  <2>3. ~postponedFailed => hashSyncCheckpoint \in Anc[Intermediate]
    <3> SUFFICES ASSUME ~postponedFailed PROVE hashSyncCheckpoint \in Anc[Intermediate]
      OBVIOUS
    <3>1. disk.hashBestChain = pindexBest /\ hashSyncCheckpoint \in Anc[pindexBest]
      BY <1>1, <2>1 DEF SyncIndex, Tip, OnBest
    <3>2. Intermediate = target \/ nChainTrust[Intermediate] > nChainTrust[pindexBest]
      BY <1>1, IntermediateFacts
    <3> QED BY <1>1, <3>1, <3>2, AboveByTrust
  <2> QED BY <1>1, <1>2, <2>1, <2>2, <2>3 DEF OnBest
<1>6. CASE ForcePostponed
  <2> DEFINE b == NextTowards(cursor, target)
  <2>1. /\ step = "postponed" /\ cursor # target /\ SetBestChainInner(b) /\ step' = "postponed"
        /\ postponedFailed' = postponedFailed
    BY <1>6 DEF ForcePostponed
  <2>2. cursor \in Anc[target]
    BY <2>1 DEF SInv, SyncControl
  <2>3. b \in Blocks \ {Genesis} /\ Prev[b] = cursor
    BY <1>1, <2>1, <2>2, NextBlock
  <2> HIDE DEF b
  <2>4. disk'.hashBestChain = b
    BY <1>1, <2>1, <2>3, InnerType
  <2>5. ~postponedFailed => disk.hashBestChain = Prev[b]
    BY <2>1, <2>3 DEF SyncIndex, Tip
  <2>6. Anc[Prev[b]] \subseteq Anc[b]
    BY <2>3, TreeAssumption
  <2> QED BY <1>1, <1>2, <2>1, <2>4, <2>5, <2>6 DEF OnBest
<1>7. CASE ForceNewBest
  <2>1. disk' = disk /\ step = "postponed" /\ target' = target
        /\ ((cursor = target /\ postponedFailed' = postponedFailed) \/ postponedFailed' = TRUE)
    BY <1>7 DEF ForceNewBest, db
  <2>2. ~postponedFailed => disk.hashBestChain = cursor
    BY <2>1 DEF SyncIndex, Tip
  <2> QED BY <1>1, <1>2, <2>1, <2>2 DEF OnBest
<1> QED BY <1>3, <1>4, <1>5, <1>6, <1>7 DEF ForceSetBestChain

LEMMA SyncNextOnBest ==
    ASSUME CheckpointsMode = "strict"
    PROVE  SInv /\ SyncIndex /\ OnBest /\ [SyncNext]_syncVars => OnBest'
<1> SUFFICES ASSUME SInv, SyncIndex, OnBest, [SyncNext]_syncVars PROVE OnBest'
  OBVIOUS
<1>1. CASE BlockStep
  BY <1>1, OnBestBlock
\* Steps that leave the chain and the checkpoint, and write none next.
<1>2. ASSUME UNCHANGED <<vars, hashSyncCheckpoint>>, step' # "write" PROVE OnBest'
  <2>1. disk' = disk /\ postponedFailed' = postponedFailed /\ pc' = pc /\ pblock' = pblock
    BY <1>2 DEF vars, db
  <2> QED BY <1>2, <2>1 DEF OnBest
<1>3. CASE AcceptPendingSyncCheckpoint
  <2>1. pc \in {"idle", "orphans"} /\ step = "pending"
    BY <1>3 DEF AcceptPendingSyncCheckpoint, SInv, SyncControl
  <2> QED BY <1>2, <1>3, <2>1, TakeUpOnBest DEF AcceptPendingSyncCheckpoint, GiveUp, hashes
<1>4. ASSUME NEW c \in checkpoints, ProcessSyncCheckpoint(c) PROVE OnBest'
  BY <1>2, <1>4, TakeUpOnBest DEF ProcessSyncCheckpoint, hashes
<1>5. CASE ForceSetBestChain
  BY <1>5, ForceOnBest
<1>6. CASE WriteSyncCheckpoint
  <2>1. step = "write" /\ UNCHANGED vars /\ hashSyncCheckpoint' = target /\ step' = "none"
    BY <1>6 DEF WriteSyncCheckpoint, GiveUp
  <2>2. disk' = disk /\ postponedFailed' = postponedFailed /\ pc' = pc
    BY <2>1 DEF vars, db
  <2>3. pc \in {"idle", "orphans"}
    BY <2>1 DEF SInv, SyncControl
  <2> QED BY <2>1, <2>2, <2>3 DEF OnBest
<1>7. CASE SyncRestart
  <2>1. /\ disk' = disk /\ postponedFailed' = postponedFailed /\ pc' = "idle" /\ step' = "none"
        /\ hashSyncCheckpoint' = diskSyncCheckpoint
    BY <1>7 DEF SyncRestart, Restart, GiveUp
  <2> QED BY <2>1 DEF OnBest, SInv, SyncControl
<1>8. CASE UNCHANGED syncVars
  <2>1. disk' = disk /\ postponedFailed' = postponedFailed /\ pc' = pc /\ pblock' = pblock
        /\ step' = step /\ target' = target /\ hashSyncCheckpoint' = hashSyncCheckpoint
    BY <1>8 DEF syncVars, vars, db, hashes
  <2> QED BY <2>1 DEF OnBest
<1> QED BY <1>1, <1>3, <1>4, <1>5, <1>6, <1>7, <1>8 DEF SyncNext

\* Under -cppolicy=strict, and when every output is worth something, the stored
\* chain contains the stored checkpoint at every commit until a postponed block
\* fails, although the two are written separately and the process may die between
\* them (CheckSync, AcceptBlock, SetBestChain, WriteSyncCheckpoint).
THEOREM CheckpointStaysOnBest ==
    ASSUME ZeroValue = {}, CheckpointsMode = "strict"
    PROVE  SyncSpec => []CheckpointOnBest
<1>1. SyncInit => OnBest
  BY AncSelf, TreeAssumption DEF SyncInit, Init, OnBest, EmptyDatabase
<1>2. SInv /\ SyncIndex /\ OnBest /\ [SyncNext]_syncVars => (SInv /\ SyncIndex /\ OnBest)'
  BY SyncNextInv, SyncNextIndex, SyncNextOnBest
<1>3. SInv /\ OnBest => CheckpointOnBest
  BY DEF SInv, SyncControl, OnBest, CheckpointOnBest
<1> QED BY SyncInitInv, SyncInitIndex, <1>1, <1>2, <1>3, PTL DEF SyncSpec

-----------------------------------------------------------------------------
(* The pending checkpoint.                                                 *)

\* A pending checkpoint whose block is there, and valid, is being dealt with:
\* AcceptBlock is not yet at its end, or it is the one being taken up.
PendingInv ==
    ~postponedFailed /\ hashPendingCheckpoint \in mapBlockIndex \cap ValidBlocks =>
        \/ step = "pending"
        \/ step = "none" /\ InSetBestChain /\ pblock = hashPendingCheckpoint
        \/ Taking /\ target = hashPendingCheckpoint

\* SetBestChain does not fail for a valid checkpoint.
LEMMA ForceFailsInvalid ==
    ASSUME SInv, SyncIndex, ~postponedFailed, ForceFails
    PROVE  target \notin ValidBlocks
<1>0. Taking
  BY DEF ForceFails, Taking
<1>1. /\ target \in Blocks /\ pc \in {"idle", "orphans"} /\ disk \in Database /\ batch \in Database
      /\ Intermediate \in Anc[target] /\ Intermediate \in Blocks
      /\ step \in {"reorganize", "postponed"} => cursor \in Blocks
      /\ pindexBest \in Blocks
  BY <1>0, TakingFacts
<1>2. CASE step = "setbest" /\ Prev[target] = pindexBest /\ ~Connects(disk, target)
  <2>1. target # Genesis /\ target \in Anc[target]
    BY <1>1, <1>2, AncSelf, TreeAssumption
  <2>2. TxIndexIs(disk, Prev[target])
    BY <1>1, <1>2 DEF SyncIndex, Tip, ChainIs
  <2> QED BY <1>1, <1>2, <2>1, <2>2, ValidConnects
<1>3. CASE step = "reorganize" /\ cursor \notin Anc[Intermediate] /\ ~Disconnects(batch, cursor)
  <2>1. cursor \in Blocks \ {Genesis} /\ ChainIs(batch, cursor)
    BY <1>1, <1>3, AncSelf DEF SyncIndex
  <2> QED BY <1>1, <1>3, <2>1, ChainDisconnects
<1>4. CASE /\ step = "reorganize" /\ cursor \in Anc[Intermediate] \ {Intermediate}
           /\ ~Connects(batch, NextTowards(cursor, Intermediate))
  <2> DEFINE b == NextTowards(cursor, Intermediate)
  <2>1. b \in Anc[Intermediate] /\ b \in Blocks \ {Genesis} /\ Prev[b] = cursor
    BY <1>1, <1>4, NextBlock
  <2>2. ~Connects(batch, b)
    BY <1>4
  <2> HIDE DEF b
  <2>3. b \in Anc[target]
    BY <1>1, <2>1, AncClosed
  <2>4. TxIndexIs(batch, Prev[b])
    BY <1>4, <2>1 DEF SyncIndex, ChainIs
  <2> QED BY <1>1, <2>1, <2>2, <2>3, <2>4, ValidConnects
<1> QED BY <1>2, <1>3, <1>4 DEF ForceFails

LEMMA BlockStepPending ==
    ASSUME SInv, IndexInv, PendingInv, BlockStep
    PROVE  PendingInv'
<1>0. /\ Inv /\ step = "none" /\ ~Taking /\ hashPendingCheckpoint' = hashPendingCheckpoint
      /\ vWorkQueue \in Seq(Blocks)
      /\ step' = IF Len(vWorkQueue') > Len(vWorkQueue) THEN "pending" ELSE "none"
  BY DEF SInv, BlockStep, hashes, Taking, Inv, TypeOK
\* A block is accepted.
<1>1. ASSUME NEW b \in Blocks, Accepted(b) PROVE PendingInv'
  <2>1. Len(vWorkQueue') = Len(vWorkQueue) + 1 /\ Len(vWorkQueue) \in Nat
    BY <1>0, <1>1 DEF Accepted
  <2>2. step' = "pending"
    BY <1>0, <2>1
  <2> QED BY <2>2 DEF PendingInv
\* The block in SetBestChain, if there is one, stays there or is invalid.
<1>2. ASSUME mapBlockIndex' = mapBlockIndex, postponedFailed' = postponedFailed,
             Len(vWorkQueue') <= Len(vWorkQueue), Len(vWorkQueue') \in Nat,
             ~postponedFailed /\ InSetBestChain =>
                 \/ InSetBestChain' /\ pblock' = pblock
                 \/ pblock \notin ValidBlocks
      PROVE  PendingInv'
  <2>1. step' = "none"
    BY <1>0, <1>2
  <2> QED BY <1>0, <1>2, <2>1 DEF PendingInv
<1>3. ASSUME NEW b \in Blocks, HoldOrphanSync(b) PROVE PendingInv'
  <2>1. mapBlockIndex' = mapBlockIndex /\ postponedFailed' = postponedFailed
        /\ vWorkQueue' = vWorkQueue /\ pc = "idle"
    BY <1>3 DEF HoldOrphanSync, Arrives, memory
  <2> QED BY <1>0, <1>2, <2>1 DEF InSetBestChain
<1>4. ASSUME Refused, mapBlockIndex' = mapBlockIndex, postponedFailed' = postponedFailed,
             ~postponedFailed /\ InSetBestChain => pblock \notin ValidBlocks
      PROVE  PendingInv'
  <2>1. vWorkQueue' = vWorkQueue
    BY <1>4 DEF Refused
  <2> QED BY <1>0, <1>2, <1>4, <2>1
<1>5. ASSUME NEW b \in Blocks, ProcessBlockSync(b) \/ ProcessOrphanSync(b) PROVE PendingInv'
  <2>1. pc \in {"idle", "orphans"} /\ AcceptBlockSync(b)
    BY <1>5 DEF ProcessBlockSync, ProcessOrphanSync, Arrives
  <2>2. ~InSetBestChain
    BY <2>1 DEF InSetBestChain
  <2>3. CASE Refused /\ UNCHANGED <<disk, memory, postponedFailed, restarts>>
    BY <1>4, <2>2, <2>3 DEF memory
  <2>4. CASE AddToBlockIndex(b)
    <3>1. CASE pc' = "setbest" /\ pblock' = b /\ vWorkQueue' = vWorkQueue
      <4>1. mapBlockIndex' = mapBlockIndex \cup {b} /\ postponedFailed' = postponedFailed
        BY <2>4 DEF AddToBlockIndex
      <4>2. step' = "none" /\ InSetBestChain'
        BY <1>0, <3>1 DEF InSetBestChain
      <4> QED BY <1>0, <2>2, <3>1, <4>1, <4>2 DEF PendingInv
    <3> QED BY <1>1, <2>4, <3>1 DEF AddToBlockIndex
  <2> QED BY <2>1, <2>3, <2>4 DEF AcceptBlockSync, AcceptBlock
<1>6. CASE NextInQueue
  <2>1. /\ pc = "orphans" /\ vWorkQueue' = Tail(vWorkQueue)
        /\ mapBlockIndex' = mapBlockIndex /\ postponedFailed' = postponedFailed
    BY <1>6 DEF NextInQueue, memory
  <2>2. vWorkQueue # <<>>
    BY <1>0, <2>1 DEF Inv, ControlOK
  <2>3. Len(vWorkQueue') = Len(vWorkQueue) - 1 /\ Len(vWorkQueue) \in Nat /\ Len(vWorkQueue') \in Nat
    BY <1>0, <2>1, <2>2
  <2> QED BY <1>2, <2>1, <2>3 DEF InSetBestChain
<1>7. CASE ExtendBestFails \/ ReorganizeFails
  <2>1. Refused /\ mapBlockIndex' = mapBlockIndex /\ postponedFailed' = postponedFailed
    BY <1>7 DEF ExtendBestFails, ReorganizeFails, memory
  <2>2. ~postponedFailed => pblock \notin ValidBlocks
    BY <1>0, <1>7, RefusedInvalid
  <2> QED BY <1>4, <2>1, <2>2
<1>8. CASE ExtendBest \/ NewBestBlock
  <2>1. Accepted(pblock) /\ pblock \in Blocks
    BY <1>0, <1>8 DEF ExtendBest, NewBestBlock, Inv, ControlOK, TypeOK
  <2> QED BY <1>1, <2>1
<1>9. CASE \/ BeginReorganize \/ ReorganizeDisconnect \/ ReorganizeConnect
           \/ CommitReorganize \/ ConnectPostponed
  <2>1. /\ mapBlockIndex' = mapBlockIndex /\ pblock' = pblock /\ vWorkQueue' = vWorkQueue
        /\ postponedFailed' = postponedFailed /\ pc' \in {"setbest", "reorganize", "postponed"}
    BY <1>9 DEF BeginReorganize, ReorganizeDisconnect, ReorganizeConnect, CommitReorganize,
                ConnectPostponed, memory
  <2> QED BY <1>0, <1>2, <2>1 DEF InSetBestChain
<1> QED BY <1>3, <1>5, <1>6, <1>7, <1>8, <1>9 DEF BlockStep, SetBestChain

LEMMA SyncNextPending == SInv /\ SyncIndex /\ PendingInv /\ [SyncNext]_syncVars => PendingInv'
<1> SUFFICES ASSUME SInv, SyncIndex, PendingInv, [SyncNext]_syncVars PROVE PendingInv'
  OBVIOUS
<1>0. None \notin Blocks /\ mapBlockIndex \subseteq Blocks
  BY TreeAssumption DEF SInv, Inv, TypeOK
<1>1. CASE BlockStep
  <2>1. IndexInv
    BY <1>1, SyncIndexIs DEF BlockStep
  <2> QED BY <1>1, <2>1, BlockStepPending
<1>2. ASSUME UNCHANGED vars PROVE /\ mapBlockIndex' = mapBlockIndex
                                  /\ postponedFailed' = postponedFailed
                                  /\ pblock' = pblock /\ pc' = pc
  BY <1>2 DEF vars, memory
<1>3. ASSUME hashPendingCheckpoint' = None PROVE PendingInv'
  BY <1>0, <1>3 DEF PendingInv, ValidBlocks
<1>4. CASE AcceptPendingSyncCheckpoint
  <2>1. CASE hashPendingCheckpoint \in mapBlockIndex /\ TakeUp(hashPendingCheckpoint)
             /\ UNCHANGED <<vars, hashes>>
    <3>1. target' = hashPendingCheckpoint /\ hashPendingCheckpoint' = hashPendingCheckpoint /\ Taking'
      BY <2>1 DEF TakeUp, hashes, Taking
    <3> QED BY <3>1 DEF PendingInv
  <2>2. CASE hashPendingCheckpoint \notin mapBlockIndex /\ UNCHANGED <<vars, hashes>>
    <3>1. hashPendingCheckpoint' \notin mapBlockIndex'
      BY <1>2, <2>2 DEF hashes
    <3> QED BY <3>1 DEF PendingInv
  <2> QED BY <1>3, <1>4, <2>1, <2>2 DEF AcceptPendingSyncCheckpoint
<1>5. ASSUME NEW c \in checkpoints, ProcessSyncCheckpoint(c) PROVE PendingInv'
  <2>1. /\ step = "none" /\ pc = "idle" /\ UNCHANGED vars
        /\ \/ hashPendingCheckpoint' = hashPendingCheckpoint
           \/ c \notin mapBlockIndex /\ hashPendingCheckpoint' = c
    BY <1>5 DEF ProcessSyncCheckpoint, hashes
  <2>2. ~Taking /\ ~InSetBestChain
    BY <2>1 DEF Taking, InSetBestChain
  <2>3. ~postponedFailed => hashPendingCheckpoint \notin mapBlockIndex \cap ValidBlocks
    BY <2>1, <2>2 DEF PendingInv
  <2> QED BY <1>2, <2>1, <2>3 DEF PendingInv
<1>6. CASE ForceSetBestChain
  <2>0. /\ Taking /\ step # "none" /\ step # "pending"
        /\ mapBlockIndex' = mapBlockIndex /\ hashPendingCheckpoint' = hashPendingCheckpoint
    BY <1>6 DEF ForceSetBestChain, ForceExtend, ForceReorganize, ForceDisconnect, ForceConnect,
           ForceCommit, ForceFails, ForcePostponed, ForceNewBest, Taking, hashes, memory
  <2>1. CASE ForceFails
    <3>1. postponedFailed' = postponedFailed
      BY <2>1 DEF ForceFails
    <3>2. ~postponedFailed => target \notin ValidBlocks
      BY <2>1, ForceFailsInvalid
    <3> QED BY <2>0, <3>1, <3>2 DEF PendingInv
  <2>2. CASE target' = target /\ Taking' /\ (postponedFailed' = postponedFailed \/ postponedFailed')
    BY <2>0, <2>2 DEF PendingInv
  <2>3. CASE \/ ForceExtend \/ ForceReorganize \/ ForceDisconnect \/ ForceConnect
             \/ ForceCommit \/ ForcePostponed \/ ForceNewBest
    <3>1. target' = target /\ Taking' /\ (postponedFailed' = postponedFailed \/ postponedFailed')
      BY <2>3 DEF ForceExtend, ForceReorganize, ForceDisconnect, ForceConnect,
                  ForceCommit, ForcePostponed, ForceNewBest, Taking
    <3> QED BY <2>2, <3>1
  <2> QED BY <1>6, <2>1, <2>3 DEF ForceSetBestChain
<1>7. CASE WriteSyncCheckpoint \/ SyncRestart
  BY <1>3, <1>7 DEF WriteSyncCheckpoint, SyncRestart
<1>8. CASE UNCHANGED syncVars
  <2>1. /\ UNCHANGED vars /\ step' = step /\ target' = target
        /\ hashPendingCheckpoint' = hashPendingCheckpoint
    BY <1>8 DEF syncVars, hashes
  <2> QED BY <1>2, <2>1 DEF PendingInv, Taking, InSetBestChain
<1> QED BY <1>1, <1>4, <1>5, <1>6, <1>7, <1>8 DEF SyncNext

\* When every output is worth something, a pending checkpoint with a valid chain
\* never outlasts the call that accepts its block, whichever orphan it was and
\* whatever other checkpoint came in between, until a postponed block fails
\* (AcceptPendingSyncCheckpoint at the end of AcceptBlock).
THEOREM PendingResolved ==
    ASSUME ZeroValue = {}
    PROVE  SyncSpec => []PendingTakenUp
<1>1. SyncInit => PendingInv
  <2> SUFFICES ASSUME SyncInit PROVE PendingInv
    OBVIOUS
  <2>1. hashPendingCheckpoint = Hardened /\ mapBlockIndex = {Genesis}
    BY DEF SyncInit, Init
  <2>2. Hardened # Genesis
    BY CheckpointAssumption, TreeAssumption
  <2> QED BY <2>1, <2>2 DEF PendingInv
<1>2. SInv /\ SyncIndex /\ PendingInv /\ [SyncNext]_syncVars => (SInv /\ SyncIndex /\ PendingInv)'
  BY SyncNextInv, SyncNextIndex, SyncNextPending
<1>3. PendingInv => PendingTakenUp
  BY DEF PendingInv, PendingTakenUp, Taking, InSetBestChain
<1> QED BY SyncInitInv, SyncInitIndex, <1>1, <1>2, <1>3, PTL DEF SyncSpec
=============================================================================

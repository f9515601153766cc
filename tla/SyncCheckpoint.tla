--------------------------- MODULE SyncCheckpoint ---------------------------
(***************************************************************************)
(* Synchronised checkpoints (checkpoints.cpp) on top of ChainState: signed *)
(* messages name a block that the best chain has to contain.  A message    *)
(* may come before its block and is then pending; when the block is there, *)
(* SetBestChain is forced to it, whatever its trust, and the checkpoint is *)
(* written by a commit of its own.  ProcessBlock is ChainState's with the  *)
(* three places where it consults the checkpoints.                         *)
(***************************************************************************)
EXTENDS ChainState

CONSTANTS
    Plans,              \* sets of blocks: what the master's messages may come to name
    Hardened,           \* the last of mapCheckpoints; None if that is Genesis, or fTestNet
    CheckpointsMode     \* "strict", "advisory" or "permissive" (-cppolicy)

ASSUME CheckpointAssumption ==
    /\ Plans \subseteq SUBSET Blocks
    /\ Hardened \in (Blocks \ {Genesis}) \cup {None}
    /\ CheckpointsMode \in {"strict", "advisory", "permissive"}

VARIABLES
    diskSyncCheckpoint,         \* the checkpoint in the database
    hashSyncCheckpoint, hashPendingCheckpoint, hashInvalidCheckpoint,
    step, target,               \* where the handler is, and the checkpoint it takes up
    checkpoints                 \* the plan of the master, who does not change it

hashes   == <<hashSyncCheckpoint, hashPendingCheckpoint, hashInvalidCheckpoint>>
syncVars == <<vars, diskSyncCheckpoint, hashes, step, target, checkpoints>>

SyncSteps == {"none", "pending", "setbest", "reorganize", "postponed", "write"}

-----------------------------------------------------------------------------
(* What blocks and messages are checked against.                           *)

IsInMainChain(b) == pnext[b] # None \/ b = pindexBest

\* Only descendants of the checkpoint pass, and blocks already accepted.
CheckSync(b) ==
    /\ nHeight[b] > nHeight[hashSyncCheckpoint] => hashSyncCheckpoint \in Anc[Prev[b]]
    /\ nHeight[b] = nHeight[hashSyncCheckpoint] => b = hashSyncCheckpoint
    /\ nHeight[b] < nHeight[hashSyncCheckpoint] => b \in mapBlockIndex

\* Mutant: an older checkpoint of the same chain is taken too.
ValidateOlder(c) == c \in Anc[hashSyncCheckpoint] \/ hashSyncCheckpoint \in Anc[c]

\* The received checkpoint is a descendant of the current one.
ValidateSyncCheckpoint(c) ==
    /\ nHeight[c] > nHeight[hashSyncCheckpoint]
    /\ hashSyncCheckpoint \in Anc[c]

Conflicting(c) == c \notin Anc[hashSyncCheckpoint] /\ hashSyncCheckpoint \notin Anc[c]

\* Mutant: nothing is let through.
WantedNever(b) == FALSE

\* The pending checkpoint, or the first block missing below it.
WantedByPendingSyncCheckpoint(b) ==
    /\ hashPendingCheckpoint # None
    /\ \/ b = hashPendingCheckpoint
       \/ /\ hashPendingCheckpoint \in mapOrphanBlocks
          /\ b \in Anc[hashPendingCheckpoint] \ mapOrphanBlocks
          /\ \A c \in Anc[hashPendingCheckpoint] \ Anc[b] : c \in mapOrphanBlocks

-----------------------------------------------------------------------------
(* ProcessBlock.                                                           *)

\* Mutant: the checkpoint is not consulted.
AcceptAnyway(b) == AcceptBlock(b)

\* AcceptBlock with its check of the synchronised checkpoint, which only
\* -cppolicy=strict enforces.
AcceptBlockSync(b) ==
    \/ /\ CheckpointsMode = "strict" => CheckSync(b)
       /\ AcceptBlock(b)
    \/ /\ CheckpointsMode = "strict" /\ ~CheckSync(b)
       /\ Refused
       /\ UNCHANGED <<disk, memory, postponedFailed, restarts>>

\* A block the node does not have, for a stake not seen or not refused.
Arrives(b) ==
    /\ pc = "idle"
    /\ b \notin mapBlockIndex \cup mapOrphanBlocks
    /\ DuplicateStake(b, setStakeSeen) => WantedByPendingSyncCheckpoint(b)

HoldOrphanSync(b) ==
    /\ Arrives(b)
    /\ Prev[b] \notin mapBlockIndex
    /\ DuplicateStake(b, setStakeSeenOrphan) => WantedByPendingSyncCheckpoint(b)
    /\ mapOrphanBlocks' = mapOrphanBlocks \cup {b}
    /\ setStakeSeenOrphan' = setStakeSeenOrphan \cup ProofsOf({b})
    /\ UNCHANGED <<db, memory, pc, pblock, cursor, vWorkQueue, postponedFailed, restarts>>

ProcessBlockSync(b) ==
    /\ Arrives(b)
    /\ Prev[b] \in mapBlockIndex
    /\ AcceptBlockSync(b)
    /\ UNCHANGED orphan

ProcessOrphanSync(b) ==
    /\ pc = "orphans"
    /\ b \in mapOrphanBlocks
    /\ Prev[b] = Head(vWorkQueue)
    /\ AcceptBlockSync(b)
    /\ mapOrphanBlocks' = mapOrphanBlocks \ {b}
    /\ setStakeSeenOrphan' = setStakeSeenOrphan \ {Proof[b]}

\* Mutant: only a block that came by itself looks for the pending checkpoint.
CheckpointNotForOrphans ==
    /\ step = "none"
    /\ \/ \E b \in Blocks : HoldOrphanSync(b) \/ ProcessBlockSync(b) \/ ProcessOrphanSync(b)
       \/ NextInQueue
       \/ SetBestChain
    /\ step' = IF Len(vWorkQueue) = 0 /\ Len(vWorkQueue') = 1 THEN "pending" ELSE "none"
    /\ UNCHANGED <<diskSyncCheckpoint, hashes, target>>

\* A step of ProcessBlock; when AcceptBlock has added a block, the pending
\* checkpoint is looked at before it returns.
BlockStep ==
    /\ step = "none"
    /\ \/ \E b \in Blocks : HoldOrphanSync(b) \/ ProcessBlockSync(b) \/ ProcessOrphanSync(b)
       \/ NextInQueue
       \/ SetBestChain
    /\ step' = IF Len(vWorkQueue') > Len(vWorkQueue) THEN "pending" ELSE "none"
    /\ UNCHANGED <<diskSyncCheckpoint, hashes, target>>

-----------------------------------------------------------------------------
(* Taking up a checkpoint.                                                 *)

\* A valid checkpoint is forced into the best chain unless it is in it.
TakeUp(c) ==
    /\ target' = c
    /\ step' = IF IsInMainChain(c) THEN "write" ELSE "setbest"

GiveUp == target' = None /\ step' = "none"

\* The end of AcceptBlock.
AcceptPendingSyncCheckpoint ==
    /\ step = "pending"
    /\ \/ /\ hashPendingCheckpoint \in mapBlockIndex
          /\ ValidateSyncCheckpoint(hashPendingCheckpoint)
          /\ TakeUp(hashPendingCheckpoint)
          /\ UNCHANGED hashes
       \/ /\ hashPendingCheckpoint \in mapBlockIndex
          /\ ~ValidateSyncCheckpoint(hashPendingCheckpoint)
          /\ hashPendingCheckpoint' = None
          /\ hashInvalidCheckpoint' = IF Conflicting(hashPendingCheckpoint) THEN hashPendingCheckpoint
                                                                            ELSE hashInvalidCheckpoint
          /\ GiveUp
          /\ UNCHANGED hashSyncCheckpoint
       \/ /\ hashPendingCheckpoint \notin mapBlockIndex
          /\ GiveUp
          /\ UNCHANGED hashes
    /\ UNCHANGED <<vars, diskSyncCheckpoint>>

\* A checkpoint message from a peer, or the master's own.
ProcessSyncCheckpoint(c) ==
    /\ step = "none" /\ pc = "idle"
    /\ \/ /\ c \notin mapBlockIndex
          /\ hashPendingCheckpoint' = c
          /\ UNCHANGED <<hashSyncCheckpoint, hashInvalidCheckpoint, step, target>>
       \/ /\ c \in mapBlockIndex /\ ~ValidateSyncCheckpoint(c)
          /\ hashInvalidCheckpoint' = IF Conflicting(c) THEN c ELSE hashInvalidCheckpoint
          /\ UNCHANGED <<hashSyncCheckpoint, hashPendingCheckpoint, step, target>>
       \/ /\ c \in mapBlockIndex /\ ValidateSyncCheckpoint(c)
          /\ TakeUp(c)
          /\ UNCHANGED hashes
    /\ UNCHANGED <<vars, diskSyncCheckpoint>>

\* Mutant: every block of the branch is postponed but the first.
IntermediateAtFork == CHOOSE b \in Branch(pindexBest, target) : Prev[b] \in Anc[pindexBest]

\* Where SetBestChain stops its first commit: the first block of the branch with
\* more trust than the best chain, or the checkpoint, which may have less.
Intermediate ==
    LET above == {b \in Anc[target] : b = target \/ nChainTrust[b] > nChainTrust[pindexBest]}
    IN  CHOOSE b \in above : \A c \in above : nHeight[b] <= nHeight[c]

\* SetBestChain(target) when it extends the best chain.
ForceExtend ==
    /\ step = "setbest"
    /\ Prev[target] = pindexBest
    /\ SetBestChainInner(target)
    /\ pindexBest' = target
    /\ step' = "write"
    /\ UNCHANGED <<batch, mapBlockIndex, setStakeSeen, orphan, pc, pblock, cursor, vWorkQueue,
                   postponedFailed, restarts, diskSyncCheckpoint, hashes, target>>

\* SetBestChain(target) when it is on another branch: Reorganize, in a batch, down to
\* the fork and up to the first commit.
ForceReorganize ==
    /\ step = "setbest"
    /\ Prev[target] # pindexBest
    /\ step' = "reorganize"
    /\ batch' = disk
    /\ cursor' = pindexBest
    /\ UNCHANGED <<disk, memory, orphan, pc, pblock, vWorkQueue, postponedFailed, restarts,
                   diskSyncCheckpoint, hashes, target>>

\* Mutant: the blocks of the old branch stay connected.
ForceKeepsConnected ==
    /\ step = "reorganize"
    /\ cursor \notin Anc[Intermediate]
    /\ cursor' = Prev[cursor]
    /\ UNCHANGED <<db, memory, orphan, pc, pblock, vWorkQueue, postponedFailed, restarts,
                   diskSyncCheckpoint, hashes, step, target>>

ForceDisconnect ==
    /\ step = "reorganize"
    /\ cursor \notin Anc[Intermediate]
    /\ Disconnects(batch, cursor)
    /\ batch' = DisconnectBlock(batch, cursor)
    /\ cursor' = Prev[cursor]
    /\ UNCHANGED <<disk, memory, orphan, pc, pblock, vWorkQueue, postponedFailed, restarts,
                   diskSyncCheckpoint, hashes, step, target>>

ForceConnect ==
    LET b == NextTowards(cursor, Intermediate)
    IN  /\ step = "reorganize"
        /\ cursor \in Anc[Intermediate] \ {Intermediate}
        /\ Connects(batch, b)
        /\ batch' = ConnectBlock(batch, b)
        /\ cursor' = b
        /\ UNCHANGED <<disk, memory, orphan, pc, pblock, vWorkQueue, postponedFailed, restarts,
                       diskSyncCheckpoint, hashes, step, target>>

ForceCommit ==
    /\ step = "reorganize"
    /\ cursor = Intermediate
    /\ disk' = WriteHashBestChain(batch, cursor)
    /\ pnext' = Relinked(pindexBest, cursor)
    /\ step' = "postponed"
    /\ batch' = NoBatch
    /\ UNCHANGED <<mapBlockIndex, pindexBest, setStakeSeen, orphan, pc, pblock, cursor, vWorkQueue,
                   postponedFailed, restarts, diskSyncCheckpoint, hashes, target>>

\* SetBestChain(target) fails before the first commit: a pending checkpoint stays
\* pending.
ForceFails ==
    /\ \/ step = "setbest" /\ Prev[target] = pindexBest /\ ~Connects(disk, target)
       \/ step = "reorganize" /\ cursor \notin Anc[Intermediate] /\ ~Disconnects(batch, cursor)
       \/ /\ step = "reorganize" /\ cursor \in Anc[Intermediate] \ {Intermediate}
          /\ ~Connects(batch, NextTowards(cursor, Intermediate))
    /\ hashInvalidCheckpoint' = target
    /\ GiveUp
    /\ batch' = NoBatch /\ cursor' = None
    /\ UNCHANGED <<disk, memory, orphan, pc, pblock, vWorkQueue, postponedFailed, restarts,
                   diskSyncCheckpoint, hashSyncCheckpoint, hashPendingCheckpoint>>

\* The postponed blocks, one commit each.
ForcePostponed ==
    LET b == NextTowards(cursor, target)
    IN  /\ step = "postponed"
        /\ cursor # target
        /\ SetBestChainInner(b)
        /\ cursor' = b
        /\ UNCHANGED <<batch, mapBlockIndex, pindexBest, setStakeSeen, orphan, pc, pblock, vWorkQueue,
                       postponedFailed, restarts, diskSyncCheckpoint, hashes, step, target>>

ForceNewBest ==
    /\ step = "postponed"
    /\ \/ cursor = target /\ UNCHANGED postponedFailed
       \/ /\ cursor # target
          /\ ~Connects(disk, NextTowards(cursor, target))
          /\ postponedFailed' = TRUE
    /\ pindexBest' = target
    /\ cursor' = None
    /\ step' = "write"
    /\ UNCHANGED <<db, mapBlockIndex, pnext, setStakeSeen, orphan, pc, pblock, vWorkQueue,
                   restarts, diskSyncCheckpoint, hashes, target>>

ForceSetBestChain ==
    \/ ForceExtend \/ ForceReorganize \/ ForceDisconnect \/ ForceConnect \/ ForceCommit
    \/ ForceFails \/ ForcePostponed \/ ForceNewBest

\* The checkpoint's own commit.
WriteSyncCheckpoint ==
    /\ step = "write"
    /\ diskSyncCheckpoint' = target
    /\ hashSyncCheckpoint' = target
    /\ hashPendingCheckpoint' = None
    /\ GiveUp
    /\ UNCHANGED <<vars, hashInvalidCheckpoint>>

-----------------------------------------------------------------------------
(* LoadBlockIndex on the first start, when the master's key is new and     *)
(* ResetSyncCheckpoint waits for the last hardened checkpoint, and later.  *)

SyncInit ==
    /\ Init
    /\ diskSyncCheckpoint = Genesis
    /\ hashSyncCheckpoint = Genesis
    /\ hashPendingCheckpoint = Hardened
    /\ hashInvalidCheckpoint = None
    /\ step = "none" /\ target = None
    /\ checkpoints \in Plans

\* Only the accepted checkpoint survives.
SyncRestart ==
    /\ Restart
    /\ hashSyncCheckpoint' = diskSyncCheckpoint
    /\ hashPendingCheckpoint' = None
    /\ hashInvalidCheckpoint' = None
    /\ GiveUp
    /\ UNCHANGED diskSyncCheckpoint

SyncNext ==
    /\ \/ BlockStep
       \/ AcceptPendingSyncCheckpoint
       \/ \E c \in checkpoints : ProcessSyncCheckpoint(c)
       \/ ForceSetBestChain
       \/ WriteSyncCheckpoint
       \/ SyncRestart
    /\ UNCHANGED checkpoints

SyncSpec == SyncInit /\ [][SyncNext]_syncVars

\* The steps of a call under cs_main, once begun; a peer's answer to AskFor of
\* the wanted block, and some block while peers have any; the checkpoint again
\* with every connection (the version handler) and every block of the master.
SyncFairSpec ==
    /\ SyncSpec
    /\ WF_syncVars(UNCHANGED checkpoints /\ (AcceptPendingSyncCheckpoint \/ ForceSetBestChain \/ WriteSyncCheckpoint))
    /\ WF_syncVars(UNCHANGED checkpoints /\ BlockStep /\ pc # "idle")
    /\ WF_syncVars(UNCHANGED checkpoints /\ BlockStep /\ pc = "idle")
    /\ \A c \in UNION Plans :
          WF_syncVars(UNCHANGED checkpoints /\ c \in checkpoints /\ ProcessSyncCheckpoint(c))

-----------------------------------------------------------------------------
(* Properties.                                                             *)

\* Types of the checkpoint's hashes and of the handler's locals.
SyncTypeOK ==
    /\ {diskSyncCheckpoint, hashSyncCheckpoint} \subseteq mapBlockIndex
    /\ {hashPendingCheckpoint, hashInvalidCheckpoint} \subseteq Blocks \cup {None}
    /\ step \in SyncSteps
    /\ IF step \in {"none", "pending"} THEN target = None ELSE target \in mapBlockIndex

\* Under -cppolicy=strict the stored best chain contains the stored checkpoint at
\* every commit, and so after a crash at any point: whatever branch is heavier,
\* whichever message or block comes first, and although the reorganisation and the
\* checkpoint are written separately.  CheckSync's "sync-checkpoint should always be
\* accepted block", and more.
CheckpointOnBest ==
    ~postponedFailed =>
        /\ hashSyncCheckpoint = diskSyncCheckpoint
        /\ diskSyncCheckpoint \in Anc[disk.hashBestChain]

\* "Only descendant of current sync-checkpoint is allowed": the stored checkpoint
\* never goes back or to another branch, for pending messages that were
\* overtaken by others too (ValidateSyncCheckpoint, AcceptPendingSyncCheckpoint).
CheckpointAdvances == [][(diskSyncCheckpoint \in Anc[diskSyncCheckpoint'])]_syncVars

\* Only a checkpoint makes the stored best chain lighter, and then the chain ends
\* in that checkpoint (SetBestChain called from checkpoints.cpp).
TrustDropsForCheckpoint ==
    [][nChainTrust[disk'.hashBestChain] < nChainTrust[disk.hashBestChain] =>
          (disk'.hashBestChain = target /\ hashSyncCheckpoint \in Anc[target])]_syncVars

\* When all checkpoints of the master are on one chain, each is at last contained
\* in the best chain for good, although its blocks come in any order, were refused
\* as duplicate stakes before, or the process dies at any point of taking it up.
CheckpointTaken ==
    <>[]((\A c, d \in checkpoints : c \in Anc[d] \/ d \in Anc[c])
            => \A c \in checkpoints : c \in Anc[disk.hashBestChain] \cap Anc[diskSyncCheckpoint])

\* Through reorganisations that a checkpoint forces to less trust, what is stored
\* describes the stored best chain and the checkpoint is in the block index.
DatabaseOK == SyncTypeOK /\ TxIndexOK /\ LinksOK

\* A pending checkpoint is taken up, or dropped, before the call that accepts its
\* block returns, also when the block was an orphan: it stays pending only if its
\* chain is invalid (the end of AcceptBlock), or a postponed block has failed before.
PendingTakenUp ==
    pc = "idle" /\ step = "none" /\ ~postponedFailed =>
        hashPendingCheckpoint \notin mapBlockIndex \cap ValidBlocks
=============================================================================

----------------------------- MODULE ChainState -----------------------------
(***************************************************************************)
(* The block chain of one node: the block index, the transaction index,    *)
(* the best chain and the blocks that wait for their parent (main.cpp,     *)
(* txdb-leveldb.cpp).  ProcessBlock runs under cs_main, so one block is    *)
(* handled at a time; what makes it hard is that a block is written to     *)
(* disk by several LevelDB batches, and the process may die between them.  *)
(*                                                                         *)
(* Each action is the code from one commit to the next; Restart is a crash *)
(* at any such point followed by LoadBlockIndex.  Blocks and transactions  *)
(* are model values: their tree, their inputs and the verdicts of the      *)
(* context-free rules are constants.                                       *)
(***************************************************************************)
EXTENDS Integers, FiniteSets, Sequences

CONSTANTS
    Blocks,                 \* every block a peer may send
    Genesis,
    None,                   \* a null hash or pointer
    Prev,                   \* hashPrevBlock
    Anc,                    \* a block and all its ancestors
    nHeight,
    nChainTrust,
    Tx,
    vtx,                    \* the transactions of a block, in order
    vin,                    \* the outpoints a transaction spends
    OutPoints,              \* <<t, n>>: the outputs of the transactions
    CoinBases,              \* IsCoinBase()
    CoinStakes,             \* IsCoinStake()
    ZeroValue,              \* outpoints with nValue = 0
    Proof,                  \* GetProofOfStake(): <<kernel outpoint, nTime>>, or None
    BadBlocks,              \* refused by ConnectBlock whatever the tx index says
    Rejected,               \* refused by AcceptBlock whatever the tx index says
    nCoinbaseMaturity,
    nStakeMinConfirmations,
    MaxRestarts             \* bound: crashes in one behaviour

TxsOf(b) == {vtx[b][i] : i \in DOMAIN vtx[b]}

\* What a stake is known by: the same coin at another time is another stake.
Stakes == OutPoints \X Nat

\* hashPrevBlock links the blocks into a tree rooted at the genesis block,
\* along which height and trust grow (AddToBlockIndex, GetBlockTrust).
ASSUME TreeAssumption ==
    /\ Genesis \in Blocks
    /\ None \notin Blocks
    /\ Prev \in [Blocks -> Blocks \cup {None}]
    /\ Prev[Genesis] = None
    /\ \A b \in Blocks \ {Genesis} : Prev[b] \in Blocks
    /\ Anc \in [Blocks -> SUBSET Blocks]
    /\ Anc[Genesis] = {Genesis}
    /\ \A b \in Blocks \ {Genesis} :
          /\ b \notin Anc[Prev[b]]
          /\ Anc[b] = Anc[Prev[b]] \cup {b}
    /\ nHeight \in [Blocks -> Nat]
    /\ nChainTrust \in [Blocks -> Nat]
    /\ \A b \in Blocks \ {Genesis} :
          /\ nHeight[b] = nHeight[Prev[b]] + 1
          /\ nChainTrust[b] > nChainTrust[Prev[b]]

ASSUME TxAssumption ==
    /\ None \notin Tx
    /\ OutPoints \subseteq Tx \X Nat
    /\ vtx \in [Blocks -> Seq(Tx)]
    /\ vin \in [Tx -> SUBSET OutPoints]
    /\ CoinBases \subseteq Tx /\ CoinStakes \subseteq Tx
    /\ \A t \in Tx : t \in CoinBases <=> vin[t] = {}
    /\ \A t \in Tx : \E o \in OutPoints : o[1] = t
    /\ ZeroValue \subseteq OutPoints
    /\ None \notin OutPoints \cup Stakes
    /\ Proof \in [Blocks -> Stakes \cup {None}]
    /\ BadBlocks \subseteq Blocks \ {Genesis}
    /\ Rejected \subseteq Blocks \ {Genesis}
    /\ nCoinbaseMaturity \in Nat /\ nStakeMinConfirmations \in Nat
    /\ MaxRestarts \in Nat

\* AcceptBlock makes every coinbase start with the height of its block, so that
\* no coinbase is in two blocks of different heights.
ASSUME CoinBaseAssumption ==
    \A b, c \in Blocks \ Rejected : \A t \in CoinBases :
        t \in TxsOf(b) \cap TxsOf(c) => nHeight[b] = nHeight[c]

VARIABLES
    \* On disk: the LevelDB database, and the batch between TxnBegin and
    \* TxnCommit, which reads go through.
    disk, batch,
    \* In memory.
    mapBlockIndex, pnext, pindexBest,
    mapOrphanBlocks, setStakeSeen, setStakeSeenOrphan,
    \* Where ProcessBlock is: the block in AcceptBlock, the tip that the batch
    \* or the postponed connects have reached, the orphans' work queue.
    pc, pblock, cursor, vWorkQueue,
    \* History: a postponed block has failed to connect; crashes so far.
    postponedFailed, restarts

db     == <<disk, batch>>
memory == <<mapBlockIndex, pnext, pindexBest, setStakeSeen>>
orphan == <<mapOrphanBlocks, setStakeSeenOrphan>>
vars   == <<db, memory, orphan, pc, pblock, cursor, vWorkQueue, postponedFailed, restarts>>

-----------------------------------------------------------------------------
(* The database.                                                           *)

Database == [blockindex    : SUBSET Blocks,
             hashNext      : [Blocks -> Blocks \cup {None}],
             hashBestChain : Blocks,
             txPos         : [Tx -> Blocks \cup {None}],
             vSpent        : [OutPoints -> Tx \cup {None}]]

\* The database LoadBlockIndex creates with the genesis block, whose
\* transactions are never put in the transaction index.
EmptyDatabase == [blockindex    |-> {Genesis},
                  hashNext      |-> [b \in Blocks |-> None],
                  hashBestChain |-> Genesis,
                  txPos         |-> [t \in Tx |-> None],
                  vSpent        |-> [o \in OutPoints |-> None]]

\* The positions in vtx[b] of the transactions that spend o.
Spenders(b, o) == {i \in DOMAIN vtx[b] : o \in vin[vtx[b][i]]}

\* mapQueuedChanges holds p when ConnectBlock reaches the i-th transaction of b.
Queued(b, i, p) == \E j \in 1 .. i - 1 : vtx[b][j] = p

\* The block that holds p, as the i-th transaction of b sees it, or None
\* (FetchInputs).
PosOf(d, b, i, p) == IF Queued(b, i, p) THEN b ELSE d.txPos[p]

\* p's outputs are coinbase or coinstake outputs less than the maturity deep.
Immature(d, b, i, p) ==
    /\ p \in CoinBases \cup CoinStakes
    /\ PosOf(d, b, i, p) \in Anc[b]
    /\ nHeight[b] - nHeight[PosOf(d, b, i, p)] < nCoinbaseMaturity

\* Mutant: only the block's own transactions are looked at.
AlreadySpentInBlock(d, b, i, o) == \E j \in Spenders(b, o) : j < i

\* o is spent when the i-th transaction of b looks at it.
AlreadySpent(d, b, i, o) ==
    \/ \E j \in Spenders(b, o) : j < i
    \/ ~Queued(b, i, o[1]) /\ d.vSpent[o] # None

\* Every check ConnectInputs makes of one input; an output worth nothing may
\* be spent again.
InputOK(d, b, i, o) ==
    /\ PosOf(d, b, i, o[1]) # None
    /\ ~Immature(d, b, i, o[1])
    /\ AlreadySpent(d, b, i, o) => o \in ZeroValue

\* BIP30: b does not overwrite a transaction that still has an unspent output.
NoOverwrite(d, b) ==
    \A t \in TxsOf(b) :
        d.txPos[t] # None => \A o \in OutPoints : o[1] = t => d.vSpent[o] # None

\* What ConnectBlock checks.
Connects(d, b) ==
    /\ b \notin BadBlocks
    /\ NoOverwrite(d, b)
    /\ \A i \in DOMAIN vtx[b] : \A o \in vin[vtx[b][i]] : InputOK(d, b, i, o)

LastOf(S) == CHOOSE i \in S : \A j \in S : j <= i

\* The transaction index after the inputs of b's transactions are connected.
ConnectInputs(d, b) ==
    [d EXCEPT
        !.txPos  = [t \in Tx |-> IF t \in TxsOf(b) THEN b ELSE @[t]],
        !.vSpent = [o \in OutPoints |->
                      CASE Spenders(b, o) # {} -> vtx[b][LastOf(Spenders(b, o))]
                        [] Spenders(b, o) = {} /\ o[1] \in TxsOf(b) -> None
                        [] OTHER -> @[o]]]

\* What ConnectBlock writes: the transaction index, the block's own index entry
\* as memory has it, and the link from its parent.
ConnectBlock(d, b) ==
    [ConnectInputs(d, b) EXCEPT !.hashNext = [@ EXCEPT ![b] = pnext[b], ![Prev[b]] = b]]

\* DisconnectInputs fails when the transaction an input spends is not indexed.
Disconnects(d, b) ==
    \A t \in TxsOf(b) : \A o \in vin[t] : d.txPos[o[1]] # None

\* Mutant: the block's transactions stay in the index.
DisconnectKeepsTx(d, b) ==
    [d EXCEPT
        !.hashNext = [@ EXCEPT ![Prev[b]] = None],
        !.vSpent   = [o \in OutPoints |-> IF Spenders(b, o) # {} THEN None ELSE @[o]]]

\* Mutant: the parent keeps its link to the block.
DisconnectKeepsLink(d, b) ==
    [d EXCEPT
        !.txPos  = [t \in Tx |-> IF t \in TxsOf(b) THEN None ELSE @[t]],
        !.vSpent = [o \in OutPoints |->
                      IF Spenders(b, o) # {} \/ o[1] \in TxsOf(b) THEN None ELSE @[o]]]

DisconnectBlock(d, b) ==
    [d EXCEPT
        !.hashNext = [@ EXCEPT ![Prev[b]] = None],
        !.txPos    = [t \in Tx |-> IF t \in TxsOf(b) THEN None ELSE @[t]],
        !.vSpent   = [o \in OutPoints |->
                        IF Spenders(b, o) # {} \/ o[1] \in TxsOf(b) THEN None ELSE @[o]]]

WriteHashBestChain(d, b) == [d EXCEPT !.hashBestChain = b]

\* What batch holds while no transaction is open.
NoBatch == EmptyDatabase

-----------------------------------------------------------------------------
(* The start.                                                              *)

Init ==
    /\ disk = EmptyDatabase
    /\ batch = NoBatch
    /\ mapBlockIndex = {Genesis}
    /\ pnext = [b \in Blocks |-> None]
    /\ pindexBest = Genesis
    /\ mapOrphanBlocks = {}
    /\ setStakeSeen = {}
    /\ setStakeSeenOrphan = {}
    /\ pc = "idle"
    /\ pblock = None
    /\ cursor = None
    /\ vWorkQueue = <<>>
    /\ postponedFailed = FALSE
    /\ restarts = 0

\* Mutant: blocks that are not proof of stake are entered too.
ProofsOfAll(S) == {Proof[b] : b \in S}

ProofsOf(S) == {Proof[b] : b \in S} \ {None}

\* The process dies, whatever it is doing, and starts again: LoadBlockIndex
\* rebuilds the block index from the disk and trusts the stored best block.
Restart ==
    /\ restarts < MaxRestarts
    /\ restarts' = restarts + 1
    /\ mapBlockIndex' = disk.blockindex
    /\ pnext' = disk.hashNext
    /\ pindexBest' = disk.hashBestChain
    /\ setStakeSeen' = ProofsOf(disk.blockindex)
    /\ mapOrphanBlocks' = {}
    /\ setStakeSeenOrphan' = {}
    /\ pc' = "idle"
    /\ vWorkQueue' = <<>>
    /\ pblock' = None /\ cursor' = None /\ batch' = NoBatch
    /\ UNCHANGED <<disk, postponedFailed>>

-----------------------------------------------------------------------------
(* AcceptBlock and AddToBlockIndex.                                        *)

\* The end of AcceptBlock: an open batch is gone, committed or aborted.
Returned == /\ pblock' = None
            /\ cursor' = None
            /\ batch' = NoBatch

\* An accepted block's orphan children are processed next; a failure ends
\* ProcessBlock unless the block was itself an orphan.
Accepted(b) == /\ pc' = "orphans"
               /\ vWorkQueue' = Append(vWorkQueue, b)
               /\ Returned

Refused == /\ pc' = IF vWorkQueue = <<>> THEN "idle" ELSE "orphans"
           /\ UNCHANGED vWorkQueue
           /\ Returned

\* CheckProofOfStake: the kernel's transaction is in the main chain and, seen
\* from the block's own parent, deep enough.
KernelOK(b) ==
    LET from == disk.txPos[Proof[b][1][1]]
    IN  Proof[b] # None =>
          /\ from # None
          /\ from \in Anc[b] =>
                nHeight[Prev[b]] - nHeight[from] >= nStakeMinConfirmations - 1

PassesAcceptBlock(b) == b \notin mapBlockIndex \cup Rejected /\ KernelOK(b)

\* Mutant: the longer chain wins, not the one with more trust.
AddLongest(b) ==
    /\ mapBlockIndex' = mapBlockIndex \cup {b}
    /\ setStakeSeen' = setStakeSeen \cup ProofsOf({b})
    /\ disk' = [disk EXCEPT !.blockindex = @ \cup {b},
                            !.hashNext = [@ EXCEPT ![b] = None]]
    /\ \/ /\ nHeight[b] > nHeight[pindexBest]
          /\ pc' = "setbest"
          /\ pblock' = b
          /\ UNCHANGED <<batch, cursor, vWorkQueue>>
       \/ nHeight[b] <= nHeight[pindexBest] /\ Accepted(b)
    /\ UNCHANGED <<pnext, pindexBest, postponedFailed, restarts>>

\* The block joins the index, in memory and in one commit on disk, before
\* anything is known of its transactions.
AddToBlockIndex(b) ==
    /\ mapBlockIndex' = mapBlockIndex \cup {b}
    /\ setStakeSeen' = setStakeSeen \cup ProofsOf({b})
    /\ disk' = [disk EXCEPT !.blockindex = @ \cup {b},
                            !.hashNext = [@ EXCEPT ![b] = None]]
    /\ \/ /\ nChainTrust[b] > nChainTrust[pindexBest]
          /\ pc' = "setbest"
          /\ pblock' = b
          /\ UNCHANGED <<batch, cursor, vWorkQueue>>
       \/ nChainTrust[b] <= nChainTrust[pindexBest] /\ Accepted(b)
    /\ UNCHANGED <<pnext, pindexBest, postponedFailed, restarts>>

AcceptBlock(b) ==
    \/ /\ PassesAcceptBlock(b)
       /\ AddToBlockIndex(b)
    \/ /\ ~PassesAcceptBlock(b)
       /\ Refused
       /\ UNCHANGED <<disk, memory, postponedFailed, restarts>>

-----------------------------------------------------------------------------
(* ProcessBlock.                                                           *)

HasOrphanChild(b) == \E o \in mapOrphanBlocks : Prev[o] = b

\* Mutant: a stake already seen is never accepted again.
StakeSeen(b, seen) == Proof[b] \in seen

\* A stake already seen is accepted again only for the parent of an orphan.
DuplicateStake(b, seen) == Proof[b] \in seen /\ ~HasOrphanChild(b)

\* A block the node does not have is delivered.
NewBlock(b) ==
    /\ pc = "idle"
    /\ b \notin mapBlockIndex \cup mapOrphanBlocks
    /\ ~DuplicateStake(b, setStakeSeen)

\* Its parent is unknown: it is held until the parent comes.
HoldOrphan(b) ==
    /\ NewBlock(b)
    /\ Prev[b] \notin mapBlockIndex
    /\ ~DuplicateStake(b, setStakeSeenOrphan)
    /\ mapOrphanBlocks' = mapOrphanBlocks \cup {b}
    /\ setStakeSeenOrphan' = setStakeSeenOrphan \cup ProofsOf({b})
    /\ UNCHANGED <<db, memory, pc, pblock, cursor, vWorkQueue, postponedFailed, restarts>>

ProcessBlock(b) ==
    /\ NewBlock(b)
    /\ Prev[b] \in mapBlockIndex
    /\ AcceptBlock(b)
    /\ UNCHANGED orphan

\* The next orphan whose parent heads the work queue.
ProcessOrphan(b) ==
    /\ pc = "orphans"
    /\ b \in mapOrphanBlocks
    /\ Prev[b] = Head(vWorkQueue)
    /\ AcceptBlock(b)
    /\ mapOrphanBlocks' = mapOrphanBlocks \ {b}
    /\ setStakeSeenOrphan' = setStakeSeenOrphan \ {Proof[b]}

\* Everything else a peer sends is dropped: a block the node has or holds, or
\* another block for a stake it has seen.
DropBlock(b) ==
    /\ pc = "idle"
    /\ \/ b \in mapBlockIndex \cup mapOrphanBlocks
       \/ DuplicateStake(b, setStakeSeen)
       \/ Prev[b] \notin mapBlockIndex /\ DuplicateStake(b, setStakeSeenOrphan)
    /\ UNCHANGED vars

\* Mutant: only the orphans of the first block are processed.
FirstInQueueOnly ==
    /\ pc = "orphans"
    /\ ~HasOrphanChild(Head(vWorkQueue))
    /\ vWorkQueue' = <<>>
    /\ pc' = "idle"
    /\ UNCHANGED <<db, memory, orphan, pblock, cursor, postponedFailed, restarts>>

\* The head of the queue has no orphan left.
NextInQueue ==
    /\ pc = "orphans"
    /\ ~HasOrphanChild(Head(vWorkQueue))
    /\ vWorkQueue' = Tail(vWorkQueue)
    /\ pc' = IF Tail(vWorkQueue) = <<>> THEN "idle" ELSE "orphans"
    /\ UNCHANGED <<db, memory, orphan, pblock, cursor, postponedFailed, restarts>>

-----------------------------------------------------------------------------
(* SetBestChain.                                                           *)

\* SetBestChainInner: connect one block on top of the current best, commit,
\* then link it in memory.
SetBestChainInner(b) ==
    /\ Connects(disk, b)
    /\ disk' = WriteHashBestChain(ConnectBlock(disk, b), b)
    /\ pnext' = [pnext EXCEPT ![Prev[b]] = b]

\* The block extends the best chain.
ExtendBest ==
    /\ pc = "setbest"
    /\ Prev[pblock] = pindexBest
    /\ SetBestChainInner(pblock)
    /\ pindexBest' = pblock
    /\ Accepted(pblock)
    /\ UNCHANGED <<mapBlockIndex, setStakeSeen, orphan, postponedFailed, restarts>>

ExtendBestFails ==
    /\ pc = "setbest"
    /\ Prev[pblock] = pindexBest
    /\ ~Connects(disk, pblock)
    /\ Refused
    /\ UNCHANGED <<disk, memory, orphan, postponedFailed, restarts>>

\* Mutant: Reorganize stops at the first block above the fork.
FirstOfBranch ==
    CHOOSE b \in Anc[pblock] \ Anc[pindexBest] : Prev[b] \in Anc[pindexBest]

\* The first block of the new branch that has more trust than the best chain.
pindexIntermediate ==
    CHOOSE b \in Anc[pblock] :
        /\ nChainTrust[b] > nChainTrust[pindexBest]
        /\ b # Genesis => nChainTrust[Prev[b]] <= nChainTrust[pindexBest]

\* The blocks above a on the way to b, and the first of them.
Branch(a, b) == Anc[b] \ Anc[a]
NextTowards(a, b) == CHOOSE c \in Anc[b] : Prev[c] = a

\* Another branch: TxnBegin, and Reorganize works in the batch.
BeginReorganize ==
    /\ pc = "setbest"
    /\ Prev[pblock] # pindexBest
    /\ pc' = "reorganize"
    /\ batch' = disk
    /\ cursor' = pindexBest
    /\ UNCHANGED <<disk, memory, orphan, pblock, vWorkQueue, postponedFailed, restarts>>

\* Disconnect the shorter branch, down to the fork.
ReorganizeDisconnect ==
    /\ pc = "reorganize"
    /\ cursor \notin Anc[pindexIntermediate]
    /\ Disconnects(batch, cursor)
    /\ batch' = DisconnectBlock(batch, cursor)
    /\ cursor' = Prev[cursor]
    /\ UNCHANGED <<disk, memory, orphan, pc, pblock, vWorkQueue, postponedFailed, restarts>>

\* Connect the longer branch, up to the first block with more trust.
ReorganizeConnect ==
    LET b == NextTowards(cursor, pindexIntermediate)
    IN  /\ pc = "reorganize"
        /\ cursor \in Anc[pindexIntermediate] \ {pindexIntermediate}
        /\ Connects(batch, b)
        /\ batch' = ConnectBlock(batch, b)
        /\ cursor' = b
        /\ UNCHANGED <<disk, memory, orphan, pc, pblock, vWorkQueue, postponedFailed, restarts>>

\* A block of either branch fails: TxnAbort.
ReorganizeFails ==
    /\ pc = "reorganize"
    /\ \/ cursor \notin Anc[pindexIntermediate] /\ ~Disconnects(batch, cursor)
       \/ /\ cursor \in Anc[pindexIntermediate] \ {pindexIntermediate}
          /\ ~Connects(batch, NextTowards(cursor, pindexIntermediate))
    /\ Refused
    /\ UNCHANGED <<disk, memory, orphan, postponedFailed, restarts>>

\* The links in memory when the best chain has moved from the block a to b: the
\* blocks of a's branch lose theirs, those of b's get them.
Relinked(a, b) ==
    LET down == Branch(b, a)
        up   == Branch(a, b)
    IN  [c \in Blocks |->
            CASE \E e \in up : Prev[e] = c -> CHOOSE e \in up : Prev[e] = c
              [] ~(\E e \in up : Prev[e] = c) /\ (\E e \in down : Prev[e] = c) -> None
              [] OTHER -> pnext[c]]

\* The batch is committed, then the links in memory follow it.
CommitReorganize ==
    /\ pc = "reorganize"
    /\ cursor = pindexIntermediate
    /\ disk' = WriteHashBestChain(batch, cursor)
    /\ pnext' = Relinked(pindexBest, cursor)
    /\ pc' = "postponed"
    /\ batch' = NoBatch
    /\ UNCHANGED <<mapBlockIndex, pindexBest, setStakeSeen, orphan, pblock, cursor,
                   vWorkQueue, postponedFailed, restarts>>

\* The postponed blocks are connected one commit at a time.
ConnectPostponed ==
    LET b == NextTowards(cursor, pblock)
    IN  /\ pc = "postponed"
        /\ cursor # pblock
        /\ SetBestChainInner(b)
        /\ cursor' = b
        /\ UNCHANGED <<batch, mapBlockIndex, pindexBest, setStakeSeen, orphan, pc, pblock,
                       vWorkQueue, postponedFailed, restarts>>

\* Mutant: the tip in memory stays where it was before the reorganisation.
KeepBestBlock ==
    /\ pc = "postponed"
    /\ cursor = pblock
    /\ Accepted(pblock)
    /\ UNCHANGED <<disk, mapBlockIndex, pnext, pindexBest, setStakeSeen, orphan,
                   postponedFailed, restarts>>

\* The last of them is connected, or one of them fails and the rest is given
\* up: in both cases the new block becomes the best one in memory.
NewBestBlock ==
    /\ pc = "postponed"
    /\ \/ cursor = pblock /\ UNCHANGED postponedFailed
       \/ /\ cursor # pblock
          /\ ~Connects(disk, NextTowards(cursor, pblock))
          /\ postponedFailed' = TRUE
    /\ pindexBest' = pblock
    /\ Accepted(pblock)
    /\ UNCHANGED <<disk, mapBlockIndex, pnext, setStakeSeen, orphan, restarts>>

-----------------------------------------------------------------------------
SetBestChain ==
    \/ ExtendBest \/ ExtendBestFails
    \/ BeginReorganize \/ ReorganizeDisconnect \/ ReorganizeConnect
    \/ ReorganizeFails \/ CommitReorganize
    \/ ConnectPostponed \/ NewBestBlock

Next ==
    \/ \E b \in Blocks : HoldOrphan(b) \/ ProcessBlock(b) \/ ProcessOrphan(b) \/ DropBlock(b)
    \/ NextInQueue
    \/ SetBestChain
    \/ Restart

Spec == Init /\ [][Next]_vars

\* A peer delivers a block the node does not have.
Delivery == \E b \in Blocks : HoldOrphan(b) \/ ProcessBlock(b)

\* What a peer's delivery starts is finished: ProcessBlock is one call under
\* cs_main.  While peers have a block the node lacks, some such block comes
\* (they answer getblocks and getdata); which one, and in what order, is open.
FairSpec ==
    /\ Spec
    /\ WF_vars(SetBestChain)
    /\ WF_vars(NextInQueue \/ \E b \in Blocks : ProcessOrphan(b))
    /\ WF_vars(Delivery)

-----------------------------------------------------------------------------
(* Properties.                                                             *)

Steps == {"idle", "orphans", "setbest", "reorganize", "postponed"}

\* Every variable has the type of the member or database record it models: the
\* tips and the links are blocks, the stakes seen are real outpoints.
TypeOK ==
    /\ disk \in Database /\ batch \in Database
    /\ mapBlockIndex \subseteq Blocks
    /\ pnext \in [Blocks -> Blocks \cup {None}]
    /\ pindexBest \in Blocks
    /\ mapOrphanBlocks \subseteq Blocks
    /\ setStakeSeen \subseteq Stakes /\ setStakeSeenOrphan \subseteq Stakes
    /\ pc \in Steps
    /\ pblock \in Blocks \cup {None} /\ cursor \in Blocks \cup {None}
    /\ vWorkQueue \in Seq(Blocks)
    /\ postponedFailed \in BOOLEAN
    /\ restarts \in 0 .. MaxRestarts

\* The block index is the same in memory and on disk, and holds the parent of
\* every block in it and both tips.
IndexOK ==
    /\ mapBlockIndex = disk.blockindex
    /\ Genesis \in mapBlockIndex
    /\ mapBlockIndex \cap Rejected = {}
    /\ \A b \in mapBlockIndex \ {Genesis} : Prev[b] \in mapBlockIndex
    /\ pindexBest \in mapBlockIndex
    /\ disk.hashBestChain \in mapBlockIndex

\* Where ProcessBlock is determines what its locals hold.
ControlOK ==
    /\ vWorkQueue \in Seq(mapBlockIndex)
    /\ pc = "orphans" => vWorkQueue # <<>>
    /\ pc = "idle" => vWorkQueue = <<>>
    /\ pc \in {"setbest", "reorganize", "postponed"} =>
          /\ pblock \in mapBlockIndex \ {Genesis}
          /\ nChainTrust[pblock] > nChainTrust[pindexBest]
    /\ pc = "reorganize" =>
          /\ batch.blockindex = disk.blockindex
          /\ cursor \in Anc[pindexBest] \cup Anc[pindexIntermediate]
          /\ Anc[pindexBest] \cap Anc[pindexIntermediate] \subseteq Anc[cursor]
    /\ pc = "postponed" => cursor \in Anc[pblock]

\* The transactions the chain that ends in b has connected.
ChainTxs(b) == UNION {TxsOf(c) : c \in Anc[b] \ {Genesis}}

\* d's transaction index describes the chain that ends in b.
TxIndexIs(d, b) ==
    /\ \A c \in Anc[b] \ {Genesis} : \A t \in TxsOf(c) : d.txPos[t] = c
    /\ \A t \in Tx : d.txPos[t] # None => t \in ChainTxs(b)
    /\ \A o \in OutPoints :
          IF d.vSpent[o] = None THEN \A t \in ChainTxs(b) : o \notin vin[t]
                                ELSE d.vSpent[o] \in ChainTxs(b) /\ o \in vin[d.vSpent[o]]

\* At every commit, and so after a crash at any point, the transaction index on
\* disk describes the chain that ends in the stored hashBestChain: what the
\* checks of levels 2 to 5 in LoadBlockIndex look for.
TxIndexOK == ~postponedFailed => TxIndexIs(disk, disk.hashBestChain)

\* The forward links are the path from the genesis block to b.
LinksAre(next, b) ==
    \A c \in Blocks :
        IF \E e \in Anc[b] : Prev[e] = c
        THEN next[c] \in Anc[b] /\ Prev[next[c]] = c
        ELSE next[c] = None

\* hashNext on disk is the path to hashBestChain, and pnext in memory agrees.
LinksOK ==
    ~postponedFailed =>
        /\ LinksAre(disk.hashNext, disk.hashBestChain)
        /\ pnext = disk.hashNext

\* Between two commits of SetBestChain and when ProcessBlock is done, the tip in
\* memory is the tip on disk: the next block is checked against the chain that
\* the transaction index describes.
TipsAgree ==
    ~postponedFailed =>
        disk.hashBestChain = IF pc = "postponed" THEN cursor ELSE pindexBest

\* The trust of the stored best chain never goes down: not by a commit in the
\* middle of SetBestChain, not by a crash, not by a failed reorganisation.
BestTrustGrows ==
    [][nChainTrust[disk'.hashBestChain] >= nChainTrust[disk.hashBestChain]]_vars

\* No transaction is twice in the chain that ends in b.
NoDuplicates(b) ==
    \A c \in Anc[b] \ {Genesis} : TxsOf(c) \cap ChainTxs(Prev[c]) = {}

\* In that chain every input spends an output of the chain and, if it is worth
\* anything, is the only one to spend it.
SpentOnce(b) ==
    \A c \in Anc[b] \ {Genesis} : \A i \in DOMAIN vtx[c] : \A o \in vin[vtx[c][i]] :
        /\ o[1] \in ChainTxs(c)
        /\ o \notin ZeroValue =>
              /\ \A u \in ChainTxs(Prev[c]) : o \notin vin[u]
              /\ Spenders(c, o) = {i}

\* Whatever the order in which blocks arrive, branches are connected and
\* disconnected and the process dies, no coin is spent twice or out of nothing
\* in the best chain (ConnectInputs, DisconnectInputs, Reorganize).
NoDoubleSpend == ~postponedFailed => SpentOnce(disk.hashBestChain)

\* The state of a reorganisation: the batch describes the chain it has reached.
ChainIs(d, b) == TxIndexIs(d, b) /\ LinksAre(d.hashNext, b) /\ NoDuplicates(b) /\ SpentOnce(b)

ChainInv ==
    ~postponedFailed =>
        /\ ChainIs(disk, disk.hashBestChain)
        /\ pc = "reorganize" => ChainIs(batch, cursor)

\* The transaction index that a chain should have, whatever came before it: each
\* of its transactions in its block, and the outpoints they spend.
IndexOf ==
    [a \in Blocks |->
        [EmptyDatabase EXCEPT
            !.txPos  = [t \in Tx |->
                          IF t \in ChainTxs(a) THEN CHOOSE c \in Anc[a] \ {Genesis} : t \in TxsOf(c)
                                               ELSE None],
            !.vSpent = [o \in OutPoints |->
                          IF \E t \in ChainTxs(a) : o \in vin[t]
                          THEN CHOOSE t \in ChainTxs(a) : o \in vin[t]
                          ELSE None]]]

\* The blocks whose chain is valid: each block of it connects to the ones below.
ValidBlocks ==
    {b \in Blocks : \A c \in Anc[b] \ {Genesis} : c \notin Rejected /\ Connects(IndexOf[Prev[c]], c)}

\* When no block is being processed, and the process has not died on the way, the
\* best chain is the heaviest valid chain the index holds, in whatever order its
\* blocks came (AddToBlockIndex, SetBestChain, the orphans' work queue of
\* ProcessBlock).  After a postponed block has failed, valid blocks are checked
\* against an index that belongs to another chain, and nothing is promised.
BestIsHeaviest ==
    pc = "idle" /\ restarts = 0 /\ ~postponedFailed =>
        \A b \in mapBlockIndex \cap ValidBlocks : nChainTrust[b] <= nChainTrust[pindexBest]

\* When no block is being processed, no orphan is held whose parent is in the
\* index, unless the parent's chain is invalid: ProcessBlock's work queue takes
\* up every orphan that a new block makes acceptable.
NoStrandedOrphan ==
    pc = "idle" /\ ~postponedFailed =>
        \A o \in mapOrphanBlocks : Prev[o] \notin mapBlockIndex \cap ValidBlocks
=============================================================================

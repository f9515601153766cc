------------------------- MODULE AliasIndex_proofs --------------------------
(***************************************************************************)
(* The alias index, for every tree of blocks: what is in it comes from a   *)
(* block of the index, and from one of the best chain as long as nothing   *)
(* was missed; and then it is complete, before, after and between scans.   *)
(***************************************************************************)
EXTENDS AliasIndex, ChainState_proofs

\* Every step is one of the chain, or leaves the chain as it is.
LEMMA AliasStepIsChainStep == [AliasNext]_aliasAll => [Next]_vars
<1> SUFFICES ASSUME [AliasNext]_aliasAll PROVE [Next]_vars
  OBVIOUS
<1>1. CASE FilterTx \/ FilterEnd \/ UNCHANGED aliasAll
  BY <1>1 DEF FilterTx, FilterEnd, aliasAll
<1>2. CASE ConnectAndFilter
  BY <1>2 DEF ConnectAndFilter, Next, SetBestChain
<1>3. CASE ReorganizeAliases
  BY <1>3 DEF ReorganizeAliases, Next, SetBestChain
<1>4. CASE AliasChainStep
  BY <1>4 DEF AliasChainStep, Next, SetBestChain
<1>5. CASE \E xscan, upgradewallet \in BOOLEAN : Start(xscan, upgradewallet)
  BY <1>5 DEF Start, Next
<1> QED
  BY <1>1, <1>2, <1>3, <1>4, <1>5 DEF AliasNext

\* The chain is not disturbed by its alias index.
THEOREM AliasImplementsChain == AliasSpec => Spec
<1>1. AliasInit => Init
  BY DEF AliasInit
<1> QED
  BY <1>1, AliasStepIsChainStep, PTL DEF AliasSpec, Spec

-----------------------------------------------------------------------------
(* The links that xsc follows.                                             *)

\* Links lead to blocks of the index, in memory, on disk and in the batch.
LinksIndexed ==
    \A c \in Blocks :
        /\ pnext[c] \in mapBlockIndex \cup {None}
        /\ disk.hashNext[c] \in mapBlockIndex \cup {None}
        /\ batch.hashNext[c] \in mapBlockIndex \cup {None}

LEMMA ConnectLinks ==
    ASSUME NEW d \in Database, NEW b \in Blocks \ {Genesis}, pnext \in [Blocks -> Blocks \cup {None}]
    PROVE  /\ ConnectBlock(d, b) \in Database
           /\ \A c \in Blocks : ConnectBlock(d, b).hashNext[c] \in {d.hashNext[c], pnext[c], b}
<1>1. ConnectInputs(d, b) \in Database /\ ConnectInputs(d, b).hashNext = d.hashNext
  BY ConnectInputsType
<1>2. ConnectBlock(d, b).hashNext = [d.hashNext EXCEPT ![b] = pnext[b], ![Prev[b]] = b]
  BY <1>1 DEF ConnectBlock, Database
<1>3. d.hashNext \in [Blocks -> Blocks \cup {None}] /\ Prev[b] \in Blocks
  BY TreeAssumption DEF Database
<1>4. ConnectBlock(d, b) \in Database
  BY ConnectBlockType
<1> QED
  BY <1>2, <1>3, <1>4

LEMMA NoLinks == \A c \in Blocks : NoBatch.hashNext[c] = None
BY DEF NoBatch, EmptyDatabase

LEMMA InnerLinks ==
    ASSUME Inv, LinksIndexed, NEW b \in mapBlockIndex \ {Genesis}, SetBestChainInner(b),
           mapBlockIndex' = mapBlockIndex, batch' \in {batch, NoBatch}
    PROVE  LinksIndexed'
<1>1. /\ b \in Blocks \ {Genesis} /\ disk \in Database /\ pnext \in [Blocks -> Blocks \cup {None}]
      /\ Prev[b] \in Blocks
  BY TreeAssumption DEF Inv, TypeOK
<1>2. /\ ConnectBlock(disk, b) \in Database
      /\ \A c \in Blocks : ConnectBlock(disk, b).hashNext[c] \in {disk.hashNext[c], pnext[c], b}
  BY <1>1, ConnectLinks
<1>3. disk'.hashNext = ConnectBlock(disk, b).hashNext
  BY <1>1, <1>2, BestType DEF SetBestChainInner
<1>4. \A c \in Blocks : pnext'[c] \in {pnext[c], b}
  BY <1>1 DEF SetBestChainInner
<1> QED
  BY <1>2, <1>3, <1>4, NoLinks DEF LinksIndexed

LEMMA LinksStep == Inv /\ LinksIndexed /\ [Next]_vars => LinksIndexed'
<1> SUFFICES ASSUME Inv, LinksIndexed, [Next]_vars PROVE LinksIndexed'
  OBVIOUS
<1>0. /\ disk \in Database /\ batch \in Database /\ pnext \in [Blocks -> Blocks \cup {None}]
      /\ mapBlockIndex \subseteq Blocks /\ mapBlockIndex = disk.blockindex
  BY DEF Inv, TypeOK, IndexOK
\* Steps that leave the links as they are.
<1>1. ASSUME pnext' = pnext, disk' = disk, mapBlockIndex' = mapBlockIndex, batch' \in {batch, NoBatch, disk}
      PROVE  LinksIndexed'
  BY <1>1, NoLinks DEF LinksIndexed
<1>2. ASSUME NEW b \in Blocks, HoldOrphan(b) \/ DropBlock(b) PROVE LinksIndexed'
  BY <1>1, <1>2 DEF HoldOrphan, DropBlock, vars, db, memory
<1>3. ASSUME NEW b \in Blocks, ProcessBlock(b) \/ ProcessOrphan(b) PROVE LinksIndexed'
  <2>1. AcceptBlock(b)
    BY <1>3 DEF ProcessBlock, ProcessOrphan
  <2>2. CASE AddToBlockIndex(b)
    <3>1. /\ pnext' = pnext /\ mapBlockIndex' = mapBlockIndex \cup {b}
          /\ disk' = [disk EXCEPT !.blockindex = @ \cup {b}, !.hashNext = [@ EXCEPT ![b] = None]]
          /\ batch' \in {batch, NoBatch}
      BY <2>2 DEF AddToBlockIndex, Accepted, Returned
    <3>2. disk'.hashNext = [disk.hashNext EXCEPT ![b] = None] /\ disk.hashNext \in [Blocks -> Blocks \cup {None}]
      BY <1>0, <3>1 DEF Database
    <3> QED
      BY <3>1, <3>2, NoLinks DEF LinksIndexed
  <2>3. CASE Refused /\ UNCHANGED <<disk, memory>>
    BY <1>1, <2>3 DEF Refused, Returned, memory
  <2> QED
    BY <2>1, <2>2, <2>3 DEF AcceptBlock
<1>4. CASE NextInQueue
  BY <1>1, <1>4 DEF NextInQueue, db, memory
<1>5. CASE ExtendBest
  <2>1. pblock \in mapBlockIndex \ {Genesis} /\ SetBestChainInner(pblock)
    BY <1>5 DEF ExtendBest, Inv, ControlOK
  <2> QED
    BY <1>5, <2>1, InnerLinks DEF ExtendBest, Accepted, Returned
<1>6. CASE ExtendBestFails \/ ReorganizeFails
  BY <1>1, <1>6 DEF ExtendBestFails, ReorganizeFails, Refused, Returned, memory
<1>7. CASE BeginReorganize
  BY <1>1, <1>7 DEF BeginReorganize, memory
<1>8. CASE ReorganizeDisconnect
  <2>1. /\ batch' = DisconnectBlock(batch, cursor) /\ disk' = disk /\ pnext' = pnext
        /\ mapBlockIndex' = mapBlockIndex
    BY <1>8 DEF ReorganizeDisconnect, memory
  <2>2. batch'.hashNext = [batch.hashNext EXCEPT ![Prev[cursor]] = None]
    BY <1>0, <2>1 DEF DisconnectBlock, Database
  <2>3. batch.hashNext \in [Blocks -> Blocks \cup {None}]
    BY <1>0 DEF Database
  <2>4. \A c \in Blocks : batch'.hashNext[c] \in {batch.hashNext[c], None}
    BY <2>2, <2>3
  <2> QED
    BY <2>1, <2>4 DEF LinksIndexed
<1>9. CASE ReorganizeConnect
  <2> DEFINE b == NextTowards(cursor, pindexIntermediate)
  <2>1. /\ pindexIntermediate \in Anc[pblock] /\ pindexIntermediate \in Blocks
        /\ cursor \in Anc[pindexIntermediate] /\ cursor # pindexIntermediate /\ pblock \in mapBlockIndex
    BY <1>9, ReorganizeFacts DEF ReorganizeConnect, Inv, ControlOK
  <2>2. b \in Anc[pindexIntermediate] /\ b \in Blocks \ {Genesis}
    BY <2>1, NextBlock
  <2>3. b \in mapBlockIndex
    BY <2>1, <2>2, AncIndexed
  <2>4. batch' = ConnectBlock(batch, b) /\ disk' = disk /\ pnext' = pnext /\ mapBlockIndex' = mapBlockIndex
    BY <1>9 DEF ReorganizeConnect, memory
  <2> HIDE DEF b
  <2>5. \A c \in Blocks : batch'.hashNext[c] \in {batch.hashNext[c], pnext[c], b}
    BY <1>0, <2>2, <2>4, ConnectLinks
  <2> QED
    BY <2>3, <2>4, <2>5 DEF LinksIndexed
<1>10. CASE CommitReorganize
  <2>1. /\ disk' = WriteHashBestChain(batch, cursor) /\ pnext' = Relinked(pindexBest, cursor)
        /\ batch' = NoBatch /\ mapBlockIndex' = mapBlockIndex /\ cursor = pindexIntermediate
        /\ pc = "reorganize"
    BY <1>10 DEF CommitReorganize
  <2>2. cursor \in Blocks /\ cursor \in Anc[pblock] /\ pblock \in mapBlockIndex
    BY <2>1, ReorganizeFacts DEF Inv, ControlOK
  <2>3. disk'.hashNext = batch.hashNext
    BY <1>0, <2>1, <2>2, BestType
  <2>4. cursor \in mapBlockIndex
    BY <2>2, AncIndexed
  <2>5. \A e \in Branch(pindexBest, cursor) : e \in mapBlockIndex
    BY <2>4, AncIndexed DEF Branch
  <2>6. \A c \in Blocks : pnext'[c] \in Branch(pindexBest, cursor) \cup {None, pnext[c]}
    BY <2>1 DEF Relinked
  <2> QED
    BY <2>1, <2>3, <2>5, <2>6, NoLinks DEF LinksIndexed
<1>11. CASE ConnectPostponed
  <2> DEFINE b == NextTowards(cursor, pblock)
  <2>1. pblock \in mapBlockIndex /\ pblock \in Blocks /\ cursor \in Anc[pblock] /\ cursor # pblock
    BY <1>0, <1>11 DEF ConnectPostponed, Inv, ControlOK
  <2>2. b \in Anc[pblock] /\ b \in Blocks \ {Genesis}
    BY <2>1, NextBlock
  <2>3. b \in mapBlockIndex \ {Genesis}
    BY <2>1, <2>2, AncIndexed
  <2>4. SetBestChainInner(b) /\ batch' = batch /\ mapBlockIndex' = mapBlockIndex
    BY <1>11 DEF ConnectPostponed
  <2> HIDE DEF b
  <2> QED
    BY <2>3, <2>4, InnerLinks
<1>12. CASE NewBestBlock
  BY <1>1, <1>12 DEF NewBestBlock, Accepted, Returned
<1>13. CASE Restart
  BY <1>0, <1>13, NoLinks DEF Restart, LinksIndexed
<1>14. CASE UNCHANGED vars
  BY <1>1, <1>14 DEF vars, db, memory
<1> QED
  BY <1>2, <1>3, <1>4, <1>5, <1>6, <1>7, <1>8, <1>9, <1>10, <1>11, <1>12, <1>13, <1>14 DEF Next, SetBestChain

LEMMA LinksInit == Init => LinksIndexed
BY NoLinks DEF Init, LinksIndexed, EmptyDatabase


-----------------------------------------------------------------------------
(* The entries.                                                            *)

\* Where filter is: at a block of the index, and of the best chain unless
\* something was missed.
FilterOK ==
    /\ ln1Db \in [Aliases -> [block : Blocks, tx : Tx] \cup {None}]
    /\ iTxn \in Nat \ {0} /\ scanning \in BOOLEAN /\ stale \in BOOLEAN
    /\ pfilter \in mapBlockIndex \cup {None}
    /\ pfilter # None /\ ~stale /\ ~postponedFailed => pfilter \in Anc[disk.hashBestChain]

EntriesInv == FilterOK /\ AliasEntriesOK

\* Chain steps that leave the index alone keep it right when the best chain
\* keeps the blocks that have aliases.
LEMMA EntriesFrame ==
    ASSUME EntriesInv, ln1Db' = ln1Db, mapBlockIndex \subseteq mapBlockIndex',
           iTxn' = 1 \/ iTxn' = iTxn, scanning' \in BOOLEAN, stale' \in BOOLEAN,
           pfilter' \in mapBlockIndex' \cup {None},
           ~stale' /\ ~postponedFailed' =>
              /\ ~stale /\ ~postponedFailed
              /\ \A b \in Anc[disk.hashBestChain] : AliasTxs(b) # {} => b \in Anc[disk'.hashBestChain]
              /\ pfilter' # None => pfilter' \in Anc[disk'.hashBestChain]
    PROVE  EntriesInv'
<1>1. FilterOK'
  BY DEF EntriesInv, FilterOK
<1>2. AliasEntriesOK'
  <2> SUFFICES ASSUME NEW a \in Aliases, ln1Db[a] # None
               PROVE  /\ ln1Db[a].block \in mapBlockIndex'
                      /\ ln1Db[a].tx \in AliasTxs(ln1Db[a].block) /\ AliasOf[ln1Db[a].tx] = a
                      /\ ~stale' /\ ~postponedFailed' => ln1Db[a].block \in Anc[disk'.hashBestChain]
    BY DEF AliasEntriesOK, AliasTxs, TxsOf
  <2>1. /\ ln1Db[a].block \in mapBlockIndex
        /\ ln1Db[a].tx \in AliasTxs(ln1Db[a].block) /\ AliasOf[ln1Db[a].tx] = a
        /\ ~stale /\ ~postponedFailed => ln1Db[a].block \in Anc[disk.hashBestChain]
    BY DEF EntriesInv, AliasEntriesOK
  <2> QED
    BY <2>1
<1> QED
  BY <1>1, <1>2 DEF EntriesInv

LEMMA EntriesInit == AliasInit => EntriesInv
<1> SUFFICES ASSUME AliasInit PROVE EntriesInv
  OBVIOUS
<1>1. AliasEntriesOK
  BY DEF AliasInit, NoAliases, AliasEntriesOK
<1>2. FilterOK
  <2>1. ln1Db \in [Aliases -> [block : Blocks, tx : Tx] \cup {None}]
    BY DEF AliasInit, NoAliases
  <2>2. pfilter = None /\ iTxn = 1 /\ scanning \in BOOLEAN /\ stale \in BOOLEAN
    BY DEF AliasInit
  <2> QED
    BY <2>1, <2>2 DEF FilterOK
<1> QED
  BY <1>1, <1>2 DEF EntriesInv

\* One transaction of the block at which filter is.
LEMMA EntriesFilterTx == ASSUME Inv, EntriesInv, FilterTx PROVE EntriesInv'
<1> DEFINE t == vtx[pfilter][iTxn]
<1>1. /\ pfilter # None /\ iTxn <= Len(vtx[pfilter])
      /\ ln1Db' = IF Indexed(ln1Db, pfilter, t) THEN lPut(ln1Db, pfilter, t) ELSE ln1Db
      /\ iTxn' = iTxn + 1 /\ UNCHANGED <<vars, pfilter, scanning, stale>>
  BY DEF FilterTx
<1>2. /\ mapBlockIndex' = mapBlockIndex /\ disk' = disk /\ postponedFailed' = postponedFailed
      /\ pfilter' = pfilter /\ scanning' = scanning /\ stale' = stale
  BY <1>1 DEF vars, db, memory
<1>3. pfilter \in Blocks /\ pfilter \in mapBlockIndex /\ iTxn \in Nat \ {0} /\ vtx[pfilter] \in Seq(Tx)
  BY <1>1, TxAssumption DEF EntriesInv, FilterOK, Inv, TypeOK
<1>4. iTxn \in DOMAIN vtx[pfilter]
  BY <1>1, <1>3
<1>5. t \in Tx /\ t \in TxsOf(pfilter)
  BY <1>3, <1>4 DEF TxsOf
<1>6. CASE ~Indexed(ln1Db, pfilter, t)
  <2>1. ln1Db' = ln1Db /\ iTxn' \in Nat \ {0}
    BY <1>1, <1>3, <1>6
  <2> QED
    BY <1>2, <2>1 DEF EntriesInv, FilterOK, AliasEntriesOK, AliasTxs, TxsOf
<1>7. CASE Indexed(ln1Db, pfilter, t)
  <2>1. Op[t] # "none" /\ AliasOf[t] \in Aliases
    BY <1>5, <1>7, AliasAssumption DEF Indexed
  <2>2. t \in AliasTxs(pfilter)
    BY <1>5, <2>1 DEF AliasTxs
  <2> DEFINE e == [block |-> pfilter, tx |-> t]
  <2>3. e \in [block : Blocks, tx : Tx] /\ e.block = pfilter /\ e.tx = t
    BY <1>3, <1>5
  <2>4. ln1Db' = [ln1Db EXCEPT ![AliasOf[t]] = e]
    BY <1>1, <1>7 DEF lPut
  <2> HIDE DEF e, t
  <2>5. ln1Db \in [Aliases -> [block : Blocks, tx : Tx] \cup {None}]
    BY DEF EntriesInv, FilterOK
  <2>6. /\ ln1Db' \in [Aliases -> [block : Blocks, tx : Tx] \cup {None}]
        /\ ln1Db'[AliasOf[t]] = e /\ \A a \in Aliases : a # AliasOf[t] => ln1Db'[a] = ln1Db[a]
    BY <2>1, <2>3, <2>4, <2>5
  <2>7. iTxn' \in Nat \ {0}
    BY <1>1, <1>3
  <2>8. FilterOK'
    BY <1>2, <2>6, <2>7 DEF EntriesInv, FilterOK
  <2>9. AliasEntriesOK'
    <3> SUFFICES ASSUME NEW a \in Aliases, ln1Db'[a] # None
                 PROVE  /\ ln1Db'[a].block \in mapBlockIndex
                        /\ ln1Db'[a].tx \in AliasTxs(ln1Db'[a].block) /\ AliasOf[ln1Db'[a].tx] = a
                        /\ ~stale /\ ~postponedFailed => ln1Db'[a].block \in Anc[disk.hashBestChain]
      BY <1>2 DEF AliasEntriesOK, AliasTxs, TxsOf
    <3>1. CASE a = AliasOf[t]
      BY <1>1, <1>3, <2>2, <2>3, <2>6, <3>1 DEF EntriesInv, FilterOK
    <3>2. CASE a # AliasOf[t]
      BY <2>6, <3>2 DEF EntriesInv, AliasEntriesOK
    <3> QED
      BY <3>1, <3>2
  <2> QED
    BY <2>8, <2>9 DEF EntriesInv
<1> QED
  BY <1>6, <1>7

\* The end of a block: the next one of a scan is in the chain.
LEMMA EntriesFilterEnd == ASSUME Inv, IndexInv, LinksIndexed, EntriesInv, FilterEnd PROVE EntriesInv'
<1> DEFINE next == pnext[pfilter]
<1>1. /\ pfilter # None
      /\ pfilter' = IF scanning THEN next ELSE None
      /\ scanning' = (scanning /\ next # None)
      /\ iTxn' = IF scanning /\ next # None /\ nHeight[next] < nScanHeight THEN Len(vtx[next]) + 1 ELSE 1
      /\ UNCHANGED <<vars, ln1Db, stale>>
  BY DEF FilterEnd
<1>2. /\ mapBlockIndex' = mapBlockIndex /\ disk' = disk /\ postponedFailed' = postponedFailed
      /\ ln1Db' = ln1Db /\ stale' = stale
  BY <1>1 DEF vars, db, memory
<1>3. pfilter \in Blocks /\ mapBlockIndex \subseteq Blocks /\ disk.hashBestChain \in Blocks
  BY <1>1 DEF EntriesInv, FilterOK, Inv, TypeOK, IndexOK
<1>4. next \in mapBlockIndex \cup {None}
  BY <1>3 DEF LinksIndexed
<1>5. ~postponedFailed /\ next # None => next \in Anc[disk.hashBestChain]
  <2>1. ~postponedFailed => LinksAre(pnext, disk.hashBestChain)
    BY DEF IndexInv, LinksOK
  <2> QED
    BY <1>3, <2>1 DEF LinksAre
<1>6. iTxn' \in Nat \ {0}
  <2>1. next # None => vtx[next] \in Seq(Tx)
    BY <1>3, <1>4, TxAssumption
  <2>2. next # None => Len(vtx[next]) \in Nat
    BY <2>1
  <2> QED
    BY <1>1, <2>2
<1> HIDE DEF next
<1>7. FilterOK'
  BY <1>1, <1>2, <1>4, <1>5, <1>6 DEF EntriesInv, FilterOK
<1>8. AliasEntriesOK'
  BY <1>2 DEF EntriesInv, AliasEntriesOK, AliasTxs, TxsOf
<1> QED
  BY <1>7, <1>8 DEF EntriesInv

\* The block that is connected on top of the stored chain.
LEMMA ConnectedBlock ==
    ASSUME Inv, IndexInv, ConnectAndFilter
    PROVE  \E b \in Blocks \ {Genesis} :
              /\ b \in mapBlockIndex /\ SetBestChainInner(b) /\ pfilter' = b
              /\ mapBlockIndex' = mapBlockIndex /\ postponedFailed' = postponedFailed
              /\ ~postponedFailed => Prev[b] = disk.hashBestChain
<1>1. CASE ExtendBest /\ pfilter' = pblock
  <2>1. pblock \in mapBlockIndex \ {Genesis} /\ pc = "setbest" /\ Prev[pblock] = pindexBest
    BY <1>1 DEF ExtendBest, Inv, ControlOK
  <2>2. ~postponedFailed => disk.hashBestChain = pindexBest
    BY <2>1 DEF IndexInv, TipsAgree
  <2>3. /\ SetBestChainInner(pblock) /\ mapBlockIndex' = mapBlockIndex
        /\ postponedFailed' = postponedFailed
    BY <1>1 DEF ExtendBest
  <2> QED
    BY <1>1, <2>1, <2>2, <2>3 DEF Inv, TypeOK
<1>2. CASE ConnectPostponed /\ pfilter' = NextTowards(cursor, pblock)
  <2> DEFINE b == NextTowards(cursor, pblock)
  <2>1. pblock \in mapBlockIndex /\ pblock \in Blocks /\ cursor \in Anc[pblock] /\ cursor # pblock /\ pc = "postponed"
    BY <1>2 DEF ConnectPostponed, Inv, ControlOK, TypeOK
  <2>2. b \in Anc[pblock] /\ b \in Blocks \ {Genesis} /\ Prev[b] = cursor
    BY <2>1, NextBlock
  <2>3. b \in mapBlockIndex
    BY <2>1, <2>2, AncIndexed
  <2>4. ~postponedFailed => disk.hashBestChain = cursor
    BY <2>1 DEF IndexInv, TipsAgree
  <2>5. /\ SetBestChainInner(b) /\ mapBlockIndex' = mapBlockIndex
        /\ postponedFailed' = postponedFailed
    BY <1>2 DEF ConnectPostponed
  <2> HIDE DEF b
  <2>6. pfilter' = b
    BY <1>2 DEF b
  <2> QED
    BY <2>2, <2>3, <2>4, <2>5, <2>6
<1> QED
  BY <1>1, <1>2 DEF ConnectAndFilter

\* A block that is connected on top of the stored chain, and filter begins with it.
LEMMA EntriesConnect ==
    ASSUME Inv, EntriesInv, ConnectAndFilter, IndexInv
    PROVE  EntriesInv'
<1>1. ln1Db' = ln1Db /\ scanning' = scanning /\ stale' = stale /\ iTxn' = 1
  BY DEF ConnectAndFilter
<1>2. PICK b \in Blocks \ {Genesis} :
        /\ b \in mapBlockIndex /\ SetBestChainInner(b) /\ pfilter' = b
        /\ mapBlockIndex' = mapBlockIndex /\ postponedFailed' = postponedFailed
        /\ ~postponedFailed => Prev[b] = disk.hashBestChain
  BY ConnectedBlock
<1>3. disk'.hashBestChain = b
  BY <1>2, InnerType
<1>4. Anc[b] = Anc[Prev[b]] \cup {b}
  BY TreeAssumption
<1>5. scanning \in BOOLEAN /\ stale \in BOOLEAN
  BY DEF EntriesInv, FilterOK
<1> QED
  BY <1>1, <1>2, <1>3, <1>4, <1>5, EntriesFrame

\* A reorganisation that goes unnoticed takes no block with aliases out of the chain.
LEMMA EntriesReorganize ==
    ASSUME Inv, EntriesInv, ReorganizeAliases, IndexInv, pfilter = None
    PROVE  EntriesInv'
<1>1. /\ ln1Db' = ln1Db /\ scanning' = scanning /\ pfilter' = pfilter /\ iTxn' = iTxn
      /\ stale' = \/ stale
                  \/ \E b \in Branch(cursor, pindexBest) \cup Branch(pindexBest, cursor) : AliasTxs(b) # {}
      /\ CommitReorganize
  BY DEF ReorganizeAliases
<1>2. /\ disk' = WriteHashBestChain(batch, cursor) /\ mapBlockIndex' = mapBlockIndex
      /\ postponedFailed' = postponedFailed /\ pc = "reorganize"
  BY <1>1 DEF CommitReorganize
<1>3. cursor \in Blocks /\ batch \in Database
  BY <1>2, ReorganizeFacts DEF Inv, TypeOK
<1>4. disk'.hashBestChain = cursor
  BY <1>2, <1>3, BestType
<1>5. ~postponedFailed => disk.hashBestChain = pindexBest
  BY <1>2 DEF IndexInv, TipsAgree
<1>6. scanning' \in BOOLEAN /\ stale' \in BOOLEAN
  BY <1>1 DEF EntriesInv, FilterOK
<1>7. ~stale' /\ ~postponedFailed' =>
         \A b \in Anc[disk.hashBestChain] : AliasTxs(b) # {} => b \in Anc[disk'.hashBestChain]
  BY <1>1, <1>2, <1>4, <1>5 DEF Branch
<1> QED
  BY <1>1, <1>2, <1>6, <1>7, EntriesFrame

\* The other steps of the chain leave the stored one as it is.
LEMMA ChainStepKeeps ==
    ASSUME Inv, AliasChainStep
    PROVE  /\ mapBlockIndex \subseteq mapBlockIndex'
           /\ disk'.hashBestChain = disk.hashBestChain
           /\ postponedFailed => postponedFailed'
<1>1. ASSUME NEW b \in Blocks, HoldOrphan(b) \/ DropBlock(b)
      PROVE  mapBlockIndex' = mapBlockIndex /\ disk' = disk /\ postponedFailed' = postponedFailed
  BY <1>1 DEF HoldOrphan, DropBlock, vars, db, memory
<1>2. ASSUME NEW b \in Blocks, ProcessBlock(b) \/ ProcessOrphan(b)
      PROVE  /\ mapBlockIndex \subseteq mapBlockIndex'
             /\ disk'.hashBestChain = disk.hashBestChain /\ postponedFailed' = postponedFailed
  <2>1. AcceptBlock(b)
    BY <1>2 DEF ProcessBlock, ProcessOrphan
  <2>2. disk \in Database
    BY DEF Inv, TypeOK
  <2> QED
    BY <2>1, <2>2 DEF AcceptBlock, AddToBlockIndex, memory, Database
<1>3. CASE NextInQueue
  BY <1>3 DEF NextInQueue, db, memory
<1>4. CASE ExtendBestFails \/ BeginReorganize \/ ReorganizeDisconnect \/ ReorganizeConnect \/ ReorganizeFails
  BY <1>4 DEF ExtendBestFails, BeginReorganize, ReorganizeDisconnect, ReorganizeConnect, ReorganizeFails, memory
<1>5. CASE NewBestBlock
  BY <1>5 DEF NewBestBlock
<1> QED
  BY <1>1, <1>2, <1>3, <1>4, <1>5 DEF AliasChainStep

\* Every other step of the chain.
LEMMA EntriesChainStep == ASSUME Inv, EntriesInv, AliasChainStep, pfilter = None PROVE EntriesInv'
<1>1. UNCHANGED aliasVars
  BY DEF AliasChainStep
<1>2. /\ mapBlockIndex \subseteq mapBlockIndex'
      /\ disk'.hashBestChain = disk.hashBestChain
      /\ postponedFailed => postponedFailed'
  BY ChainStepKeeps
<1>3. stale' = stale /\ scanning' = scanning /\ pfilter' = None /\ iTxn' = iTxn /\ ln1Db' = ln1Db
  BY <1>1 DEF aliasVars
<1>4. scanning \in BOOLEAN /\ stale \in BOOLEAN
  BY DEF EntriesInv, FilterOK
<1> QED
  BY <1>2, <1>3, <1>4, EntriesFrame

LEMMA EntriesStart ==
    ASSUME Inv, EntriesInv, NEW xscan \in BOOLEAN, NEW upgradewallet \in BOOLEAN, Start(xscan, upgradewallet)
    PROVE  EntriesInv'
<1> DEFINE scan == (xscan \/ upgradewallet) /\ disk.hashBestChain # Genesis
<1>1. /\ ln1Db' = IF xscan THEN NoAliases ELSE ln1Db
      /\ pfilter' = IF scan THEN Genesis ELSE None
      /\ iTxn' = 1 /\ scanning' = scan
      /\ stale' = (~xscan /\ (stale \/ pfilter # None))
  BY DEF Start
<1>2. disk' = disk /\ mapBlockIndex' = mapBlockIndex /\ postponedFailed' = postponedFailed
  BY DEF Start, Restart, Inv, IndexOK
<1>3. Genesis \in mapBlockIndex /\ Genesis \in Anc[disk.hashBestChain]
  BY AncSelf DEF Inv, IndexOK, TypeOK
<1>4. scanning' \in BOOLEAN /\ stale' \in BOOLEAN /\ pfilter' \in {Genesis, None}
  BY <1>1
<1> HIDE DEF scan
<1>5. CASE xscan
  <2>1. ln1Db' = NoAliases
    BY <1>1, <1>5
  <2>2. AliasEntriesOK'
    BY <2>1 DEF AliasEntriesOK, NoAliases
  <2>3. ln1Db' \in [Aliases -> [block : Blocks, tx : Tx] \cup {None}]
    BY <2>1 DEF NoAliases
  <2>4. FilterOK'
    BY <1>1, <1>2, <1>3, <1>4, <2>3 DEF FilterOK
  <2> QED
    BY <2>2, <2>4 DEF EntriesInv
<1>6. CASE ~xscan
  BY <1>1, <1>2, <1>3, <1>4, <1>6, EntriesFrame
<1> QED
  BY <1>5, <1>6

LEMMA EntriesStep == Inv /\ IndexInv /\ LinksIndexed /\ EntriesInv /\ [AliasNext]_aliasAll => EntriesInv'
<1> SUFFICES ASSUME Inv, IndexInv, LinksIndexed, EntriesInv, [AliasNext]_aliasAll PROVE EntriesInv'
  OBVIOUS
<1>1. CASE UNCHANGED aliasAll
  BY <1>1 DEF aliasAll, aliasVars, vars, db, memory, EntriesInv, FilterOK, AliasEntriesOK, AliasTxs, TxsOf
<1>2. CASE AliasNext
  BY <1>2, EntriesFilterTx, EntriesFilterEnd, EntriesConnect, EntriesReorganize, EntriesChainStep, EntriesStart
     DEF AliasNext
<1> QED
  BY <1>1, <1>2

\* What is in the index of aliases comes from an alias operation of a block that
\* the node has (LocatorNodeDB::filter), and from one of the stored best chain as
\* long as no reorganisation has passed the index by, no crash has interrupted
\* filter or xsc, and no postponed block has failed.
THEOREM AliasEntriesCorrect ==
    ASSUME ZeroValue = {}
    PROVE  AliasSpec => []AliasEntriesOK
<1>1. AliasInit => Inv /\ IndexInv /\ LinksIndexed /\ EntriesInv
  BY InitInv, InitIndex, LinksInit, EntriesInit DEF AliasInit
<1>2. Inv /\ IndexInv /\ LinksIndexed /\ EntriesInv /\ [AliasNext]_aliasAll
         => (Inv /\ IndexInv /\ LinksIndexed /\ EntriesInv)'
  BY AliasStepIsChainStep, NextInv, NextIndex, LinksStep, EntriesStep
<1>3. EntriesInv => AliasEntriesOK
  BY DEF EntriesInv
<1> QED
  BY <1>1, <1>2, <1>3, PTL DEF AliasSpec

-----------------------------------------------------------------------------
(* The aliases of a chain: what the recursions of the specification        *)
(* compute.                                                                *)

Entries == [Aliases -> [block : Blocks, tx : Tx] \cup {None}]

\* Induction over the naturals.
LEMMA EveryNumber ==
    ASSUME NEW S, 0 \in S, \A n \in Nat : n \in S => n + 1 \in S
    PROVE  Nat \subseteq S
<1> DEFINE T == Nat \ S
<1> SUFFICES ASSUME T # {} PROVE FALSE
  OBVIOUS
<1>1. PICK n \in T : \A k \in T : n <= k
  <2>1. T \in SUBSET Nat
    OBVIOUS
  <2> QED BY <2>1, LeastNat
<1>2. n - 1 \in Nat /\ n - 1 < n /\ (n - 1) + 1 = n
  OBVIOUS
<1>3. n - 1 \in S
  BY <1>1, <1>2
<1> QED BY <1>2, <1>3

\* The aliases after i + 1 transactions are those after i, and one more.
LEMMA EnteredSteps ==
    ASSUME NEW d, NEW b \in Blocks
    PROVE  /\ Entered(d, b)[0] = d
           /\ \A i \in 1 .. Len(vtx[b]) : Entered(d, b)[i] = Enter(Entered(d, b)[i - 1], b, vtx[b][i])
<1> DEFINE n == Len(vtx[b])
           Rounds(g, m) ==
              /\ g = [i \in 0 .. m |-> g[i]]
              /\ g[0] = d /\ \A i \in 1 .. m : g[i] = Enter(g[i - 1], b, vtx[b][i])
           S == {m \in Nat : \E g : Rounds(g, m)}
<1>0. n \in Nat
  BY TxAssumption
<1>1. 0 \in S
  <2>1. Rounds([i \in 0 .. 0 |-> d], 0)
    OBVIOUS
  <2> QED BY <2>1
<1>2. ASSUME NEW m \in Nat, m \in S PROVE m + 1 \in S
  <2>1. PICK g : Rounds(g, m)
    BY <1>2
  <2> DEFINE h == [i \in 0 .. m + 1 |-> IF i = m + 1 THEN Enter(g[m], b, vtx[b][m + 1]) ELSE g[i]]
  <2>2. h = [i \in 0 .. m + 1 |-> h[i]]
    OBVIOUS
  <2>3. h[0] = d
    BY <2>1
  <2>4. ASSUME NEW i \in 1 .. m + 1 PROVE h[i] = Enter(h[i - 1], b, vtx[b][i])
    <3>1. CASE i = m + 1
      <4>1. h[i] = Enter(g[m], b, vtx[b][i]) /\ h[i - 1] = g[m]
        BY <3>1
      <4> HIDE DEF h
      <4> QED BY <4>1
    <3>2. CASE i # m + 1
      <4>1. i \in 1 .. m /\ h[i] = g[i] /\ h[i - 1] = g[i - 1]
        BY <3>2
      <4> HIDE DEF h
      <4> QED BY <2>1, <4>1
    <3> QED BY <3>1, <3>2
  <2> HIDE DEF h
  <2>5. Rounds(h, m + 1)
    BY <2>2, <2>3, <2>4
  <2>6. m + 1 \in Nat
    OBVIOUS
  <2> HIDE DEF Rounds
  <2> QED BY <2>5, <2>6
<1>3. Nat \subseteq S
  <2>1. \A m \in Nat : m \in S => m + 1 \in S
    BY <1>2
  <2> HIDE DEF S
  <2> QED BY <1>1, <2>1, EveryNumber
<1>4. PICK g : Rounds(g, n)
  BY <1>0, <1>3
<1> DEFINE F(u) == [i \in 0 .. n |-> IF i = 0 THEN d ELSE Enter(u[i - 1], b, vtx[b][i])]
           f == Entered(d, b)
<1>5. g = F(g)
  <2>1. g = [i \in 0 .. n |-> g[i]] /\ g[0] = d /\ \A i \in 1 .. n : g[i] = Enter(g[i - 1], b, vtx[b][i])
    BY <1>4
  <2>2. \A i \in 0 .. n : i # 0 => i \in 1 .. n
    BY <1>0
  <2>3. \A i \in 0 .. n : g[i] = IF i = 0 THEN d ELSE Enter(g[i - 1], b, vtx[b][i])
    BY <2>1, <2>2
  <2> QED BY <2>1, <2>3, Zenon
<1>6. f = CHOOSE u : u = F(u)
  BY DEF Entered
<1> HIDE DEF f
<1>7. f = F(f)
  <2> HIDE DEF F
  <2> QED BY <1>5, <1>6
<1>8. \A i \in 0 .. n : f[i] = IF i = 0 THEN d ELSE Enter(f[i - 1], b, vtx[b][i])
  BY <1>7
<1>9. f[0] = d /\ \A i \in 1 .. n : f[i] = Enter(f[i - 1], b, vtx[b][i])
  <2>1. 0 \in 0 .. n /\ \A i \in 1 .. n : i \in 0 .. n /\ i # 0
    BY <1>0
  <2> QED BY <1>8, <2>1
<1> QED BY <1>9 DEF f

\* The aliases below a block are those of its parent's chain.
Below(b) == IF b = Genesis THEN NoAliases ELSE AliasesOf[Prev[b]]

LEMMA AliasesStep == \A b \in Blocks : AliasesOf[b] = Entered(Below(b), b)[Len(vtx[b])]
<1> DEFINE Last(d, b) == Entered(d, b)[Len(vtx[b])]
           Body(g, b) == Last(IF b = Genesis THEN NoAliases ELSE g[Prev[b]], b)
           Good(g, b) == \A c \in Anc[b] : g[c] = Body(g, c)
           S == {b \in Blocks : \E g : Good(g, b)}
           U == {b \in Blocks : \A g, h : Good(g, b) /\ Good(h, b) => g[b] = h[b]}
<1> HIDE DEF Last
<1>0. /\ Genesis \in Blocks /\ Anc[Genesis] = {Genesis}
      /\ \A b \in Blocks \ {Genesis} :
            /\ Prev[b] \in Blocks /\ Anc[b] = Anc[Prev[b]] \cup {b} /\ b \notin Anc[Prev[b]]
      /\ \A b \in Blocks : Anc[b] \subseteq Blocks /\ b \in Anc[b]
      /\ \A b \in Blocks : \A c \in Anc[b] : c # Genesis => Prev[c] \in Anc[b]
  BY TreeAssumption, AncSelf, AncClosed
\* Along one chain the recursion has a solution,
<1>1. S = Blocks
  <2>1. Genesis \in S
    <3>1. Good([c \in Blocks |-> Last(NoAliases, Genesis)], Genesis)
      BY <1>0
    <3> QED BY <1>0, <3>1
  <2>2. ASSUME NEW b \in Blocks \ {Genesis}, Prev[b] \in S PROVE b \in S
    <3>1. PICK g : Good(g, Prev[b])
      BY <2>2
    <3> DEFINE h == [c \in Blocks |-> IF c = b THEN Last(g[Prev[b]], b) ELSE g[c]]
    <3>2. ASSUME NEW c \in Anc[b] PROVE h[c] = Body(h, c)
      <4>1. CASE c = b
        BY <1>0, <4>1
      <4>2. CASE c # b
        <5>1. c \in Anc[Prev[b]] /\ c \in Blocks /\ (c # Genesis => Prev[c] \in Anc[Prev[b]] /\ Prev[c] # b /\ Prev[c] \in Blocks)
          BY <1>0, <4>2
        <5> QED BY <3>1, <4>2, <5>1
      <4> QED BY <4>1, <4>2
    <3> QED BY <3>2
  <2>3. S \in SUBSET Blocks
    OBVIOUS
  <2> HIDE DEF S
  <2> QED BY <2>1, <2>2, <2>3, TreeInduction
\* and no other.
<1>2. U = Blocks
  <2>1. Genesis \in U
    BY <1>0
  <2>2. ASSUME NEW b \in Blocks \ {Genesis}, Prev[b] \in U PROVE b \in U
    <3> SUFFICES ASSUME NEW g, NEW h, Good(g, b), Good(h, b) PROVE g[b] = h[b]
      OBVIOUS
    <3>1. Good(g, Prev[b]) /\ Good(h, Prev[b])
      BY <1>0
    <3>2. g[Prev[b]] = h[Prev[b]]
      BY <2>2, <3>1
    <3>3. g[b] = Last(g[Prev[b]], b) /\ h[b] = Last(h[Prev[b]], b)
      BY <1>0
    <3> QED BY <3>2, <3>3
  <2>3. U \in SUBSET Blocks
    OBVIOUS
  <2> HIDE DEF U
  <2> QED BY <2>1, <2>2, <2>3, TreeInduction
<1> DEFINE A == [b \in Blocks |-> (CHOOSE g : Good(g, b))[b]]
           F(u) == [b \in Blocks |-> Body(u, b)]
<1>3. ASSUME NEW b \in Blocks PROVE A[b] = Body(A, b)
  <2> DEFINE g == CHOOSE g : Good(g, b)
  <2>1. Good(g, b)
    <3>1. \E h : Good(h, b)
      BY <1>1
    <3> HIDE DEF Good
    <3> QED BY <3>1
  <2>2. A[b] = g[b]
    OBVIOUS
  <2> HIDE DEF g
  <2>3. g[b] = Body(g, b)
    BY <1>0, <2>1
  <2>4. CASE b = Genesis
    BY <2>2, <2>3, <2>4
  <2>5. CASE b # Genesis
    <3> DEFINE a == Prev[b]
               h == CHOOSE h : Good(h, a)
    <3>1. a \in Blocks /\ Good(g, a)
      BY <1>0, <2>1, <2>5
    <3>2. Good(h, a)
      <4> HIDE DEF Good
      <4> QED BY <3>1
    <3>3. A[a] = h[a]
      BY <3>1
    <3> HIDE DEF h, A
    <3>4. h[a] = g[a]
      BY <1>2, <3>1, <3>2
    <3> QED BY <2>2, <2>3, <2>5, <3>3, <3>4
  <2> QED BY <2>4, <2>5
<1>4. A = F(A)
  <2>1. A = [b \in Blocks |-> A[b]]
    OBVIOUS
  <2>2. \A b \in Blocks : A[b] = Body(A, b)
    BY <1>3
  <2> HIDE DEF A, Body
  <2> QED BY <2>1, <2>2, Zenon
<1>5. AliasesOf = CHOOSE u : u = F(u)
  BY DEF AliasesOf, Last
<1> HIDE DEF A
<1>6. AliasesOf = F(AliasesOf)
  <2> HIDE DEF F
  <2> QED BY <1>4, <1>5
<1>7. \A b \in Blocks : AliasesOf[b] = Body(AliasesOf, b)
  BY <1>6
<1> QED BY <1>7 DEF Below, Last

LEMMA EnterType ==
    ASSUME NEW d \in Entries, NEW b \in Blocks, NEW t \in Tx
    PROVE  /\ Enter(d, b, t) \in Entries
           /\ \A a \in Aliases : a # AliasOf[t] => Enter(d, b, t)[a] = d[a]
           /\ \/ Enter(d, b, t)[AliasOf[t]] = d[AliasOf[t]]
              \/ Enter(d, b, t)[AliasOf[t]] # None /\ Enter(d, b, t)[AliasOf[t]].block = b
           /\ d[AliasOf[t]] # None => Enter(d, b, t)[AliasOf[t]] # None
           /\ Op[t] = "set" => Enter(d, b, t)[AliasOf[t]] # None
<1> DEFINE e == [block |-> b, tx |-> t]
<1>1. AliasOf[t] \in Aliases /\ e \in [block : Blocks, tx : Tx] /\ lPut(d, b, t) = [d EXCEPT ![AliasOf[t]] = e]
  BY AliasAssumption DEF lPut
<1>2. e # None /\ e.block = b
  BY <1>1, AliasAssumption
<1> HIDE DEF e
<1>3. /\ lPut(d, b, t) \in Entries /\ lPut(d, b, t)[AliasOf[t]] = e
      /\ \A a \in Aliases : a # AliasOf[t] => lPut(d, b, t)[a] = d[a]
  BY <1>1 DEF Entries
<1>4. Enter(d, b, t) \in {d, lPut(d, b, t)}
  BY DEF Enter
<1>5. Op[t] = "set" /\ d[AliasOf[t]] = None => Enter(d, b, t) = lPut(d, b, t)
  BY DEF Enter
<1> QED BY <1>1, <1>2, <1>3, <1>4, <1>5

\* Each transaction of b leaves what is there or puts an entry of b in its place.
LEMMA EnteredType ==
    ASSUME NEW d \in Entries, NEW b \in Blocks, NEW i \in 0 .. Len(vtx[b])
    PROVE  /\ Entered(d, b)[i] \in Entries
           /\ \A a \in Aliases :
                /\ Entered(d, b)[i][a] = d[a] \/ (Entered(d, b)[i][a] # None /\ Entered(d, b)[i][a].block = b)
                /\ d[a] # None => Entered(d, b)[i][a] # None
<1> DEFINE n == Len(vtx[b])
           f == Entered(d, b)
           OK(x) == /\ x \in Entries
                    /\ \A a \in Aliases :
                         /\ x[a] = d[a] \/ (x[a] # None /\ x[a].block = b)
                         /\ d[a] # None => x[a] # None
           S == {m \in Nat : m <= n => OK(f[m])}
<1>0. n \in Nat /\ \A m \in 1 .. n : vtx[b][m] \in Tx
  BY TxAssumption
<1>1. f[0] = d /\ \A m \in 1 .. n : f[m] = Enter(f[m - 1], b, vtx[b][m])
  BY EnteredSteps
<1> HIDE DEF n, f
<1>2. 0 \in S
  BY <1>1
<1>3. ASSUME NEW m \in Nat, m \in S PROVE m + 1 \in S
  <2> SUFFICES ASSUME m + 1 <= n PROVE OK(f[m + 1])
    OBVIOUS
  <2> DEFINE t == vtx[b][m + 1]
  <2>1. m + 1 \in 1 .. n /\ m <= n /\ (m + 1) - 1 = m
    BY <1>0
  <2>2. f[m + 1] = Enter(f[m], b, t) /\ t \in Tx /\ OK(f[m])
    BY <1>0, <1>1, <1>3, <2>1
  <2> HIDE DEF t
  <2> DEFINE x == f[m]
             y == f[m + 1]
  <2>3. x \in Entries /\ y = Enter(x, b, t)
    BY <2>2
  <2> HIDE DEF x, y
  <2>4. /\ y \in Entries
        /\ \A a \in Aliases : a # AliasOf[t] => y[a] = x[a]
        /\ y[AliasOf[t]] = x[AliasOf[t]] \/ (y[AliasOf[t]] # None /\ y[AliasOf[t]].block = b)
        /\ x[AliasOf[t]] # None => y[AliasOf[t]] # None
    BY <2>2, <2>3, EnterType
  <2>5. \A a \in Aliases : x[a] = d[a] \/ (x[a] # None /\ x[a].block = b)
    BY <2>2 DEF x
  <2>6. \A a \in Aliases : d[a] # None => x[a] # None
    BY <2>2 DEF x
  <2>7. ASSUME NEW a \in Aliases
        PROVE  /\ y[a] = d[a] \/ (y[a] # None /\ y[a].block = b)
               /\ d[a] # None => y[a] # None
    BY <2>4, <2>5, <2>6
  <2> QED BY <2>4, <2>7 DEF y
<1>4. Nat \subseteq S
  <2>1. \A m \in Nat : m \in S => m + 1 \in S
    BY <1>3
  <2> HIDE DEF S
  <2> QED BY <1>2, <2>1, EveryNumber
<1>5. i \in Nat /\ i <= n
  BY <1>0 DEF n
<1>6. OK(f[i])
  BY <1>4, <1>5
<1> QED BY <1>6 DEF f

\* A block without alias transactions changes nothing.
LEMMA EnteredNothing ==
    ASSUME NEW d \in Entries, NEW b \in Blocks, AliasTxs(b) = {}, NEW i \in 0 .. Len(vtx[b])
    PROVE  Entered(d, b)[i] = d
<1> DEFINE n == Len(vtx[b])
           f == Entered(d, b)
           S == {m \in Nat : m <= n => f[m] = d}
<1>0. n \in Nat /\ \A m \in 1 .. n : vtx[b][m] \in Tx /\ vtx[b][m] \in TxsOf(b)
  BY TxAssumption DEF TxsOf
<1>1. f[0] = d /\ \A m \in 1 .. n : f[m] = Enter(f[m - 1], b, vtx[b][m])
  BY EnteredSteps
<1> HIDE DEF n, f
<1>2. 0 \in S
  BY <1>1
<1>3. ASSUME NEW m \in Nat, m \in S PROVE m + 1 \in S
  <2> SUFFICES ASSUME m + 1 <= n PROVE f[m + 1] = d
    OBVIOUS
  <2>1. m + 1 \in 1 .. n /\ m <= n /\ (m + 1) - 1 = m
    BY <1>0
  <2> DEFINE t == vtx[b][m + 1]
  <2>2. f[m + 1] = Enter(d, b, t)
    BY <1>1, <1>3, <2>1
  <2>3. t \in Tx /\ Op[t] = "none"
    BY <1>0, <2>1 DEF AliasTxs
  <2> HIDE DEF t
  <2>4. Enter(d, b, t) = d
    BY <2>3 DEF Enter
  <2> QED BY <2>2, <2>4
<1>4. Nat \subseteq S
  <2>1. \A m \in Nat : m \in S => m + 1 \in S
    BY <1>3
  <2> HIDE DEF S
  <2> QED BY <1>2, <2>1, EveryNumber
<1>5. i \in Nat /\ i <= n
  BY <1>0 DEF n
<1> QED BY <1>4, <1>5 DEF f

\* The aliases of a chain come from its blocks.
LEMMA AliasesType ==
    \A b \in Blocks :
        /\ AliasesOf[b] \in Entries
        /\ Below(b) \in Entries
        /\ \A a \in Aliases : AliasesOf[b][a] # None => AliasesOf[b][a].block \in Anc[b]
        /\ \A a \in Aliases : Below(b)[a] # None => Below(b)[a].block \in Anc[b]
<1> DEFINE OK(d, b) == d \in Entries /\ \A a \in Aliases : d[a] # None => d[a].block \in Anc[b]
           S == {b \in Blocks : OK(AliasesOf[b], b)}
<1>1. NoAliases \in Entries /\ \A a \in Aliases : NoAliases[a] = None
  BY DEF NoAliases, Entries
<1>2. ASSUME NEW b \in Blocks, OK(Below(b), b) PROVE OK(AliasesOf[b], b)
  <2> DEFINE x == Entered(Below(b), b)[Len(vtx[b])]
  <2>1. AliasesOf[b] = x
    BY AliasesStep
  <2>2. Len(vtx[b]) \in 0 .. Len(vtx[b])
    BY TxAssumption
  <2>3. /\ x \in Entries
        /\ \A a \in Aliases : x[a] = Below(b)[a] \/ (x[a] # None /\ x[a].block = b)
    BY <1>2, <2>2, EnteredType
  <2> HIDE DEF x
  <2>4. b \in Anc[b]
    BY AncSelf
  <2> QED BY <1>2, <2>1, <2>3, <2>4
<1>3. OK(Below(Genesis), Genesis)
  BY <1>1 DEF Below
<1>4. Genesis \in S
  BY <1>2, <1>3, TreeAssumption
<1>5. ASSUME NEW b \in Blocks \ {Genesis}, Prev[b] \in S PROVE OK(Below(b), b)
  <2>1. Below(b) = AliasesOf[Prev[b]] /\ Anc[Prev[b]] \subseteq Anc[b]
    BY TreeAssumption DEF Below
  <2> QED BY <1>5, <2>1
<1>6. \A b \in Blocks \ {Genesis} : Prev[b] \in S => b \in S
  BY <1>2, <1>5
<1>7. S = Blocks
  <2>1. S \in SUBSET Blocks
    OBVIOUS
  <2> HIDE DEF S
  <2> QED BY <1>4, <1>6, <2>1, TreeInduction
<1>8. \A b \in Blocks : OK(Below(b), b)
  BY <1>3, <1>5, <1>7, TreeAssumption
<1> QED BY <1>7, <1>8

\* Where a block has no alias transactions its chain has its parent's aliases.
LEMMA AliasesKept ==
    ASSUME NEW b \in Blocks, AliasTxs(b) = {}
    PROVE  AliasesOf[b] = Below(b)
<1>1. Len(vtx[b]) \in 0 .. Len(vtx[b])
  BY TxAssumption
<1> QED BY <1>1, AliasesStep, AliasesType, EnteredNothing

LEMMA NoAliasesBelow == AliasesOf[Genesis] = NoAliases
BY AliasesKept, TreeAssumption, AliasAssumption DEF Below

\* An entry has been there since its block: the chain that ends in the block
\* has it.
LEMMA EntryStays ==
    ASSUME NEW b \in Blocks, NEW a \in Aliases, AliasesOf[b][a] # None
    PROVE  AliasesOf[AliasesOf[b][a].block][a] = AliasesOf[b][a]
<1> DEFINE S == {x \in Blocks : AliasesOf[x][a] # None => AliasesOf[AliasesOf[x][a].block][a] = AliasesOf[x][a]}
<1>1. ASSUME NEW x \in Blocks, Below(x)[a] # None => AliasesOf[Below(x)[a].block][a] = Below(x)[a]
      PROVE  x \in S
  <2>1. Len(vtx[x]) \in 0 .. Len(vtx[x])
    BY TxAssumption
  <2>2. AliasesOf[x][a] = Below(x)[a] \/ AliasesOf[x][a].block = x
    BY <2>1, AliasesStep, AliasesType, EnteredType
  <2> QED BY <1>1, <2>2
<1>2. Genesis \in S
  <2>1. Below(Genesis)[a] = None
    BY DEF Below, NoAliases
  <2> QED BY <1>1, <2>1, TreeAssumption
<1>3. ASSUME NEW x \in Blocks \ {Genesis}, Prev[x] \in S PROVE x \in S
  <2>1. Below(x) = AliasesOf[Prev[x]]
    BY DEF Below
  <2> QED BY <1>1, <1>3, <2>1
<1>4. S = Blocks
  <2>1. S \in SUBSET Blocks
    OBVIOUS
  <2> HIDE DEF S
  <2> QED BY <1>2, <1>3, <2>1, TreeInduction
<1> QED BY <1>4

\* Two chains that differ in blocks without alias transactions have the same
\* aliases.
LEMMA SameAliases ==
    ASSUME NEW b \in Blocks, NEW c \in Blocks,
           \A e \in (Anc[b] \ Anc[c]) \cup (Anc[c] \ Anc[b]) : AliasTxs(e) = {}
    PROVE  AliasesOf[b] = AliasesOf[c]
<1>0. /\ \A x \in Blocks \ {Genesis} :
            Prev[x] \in Blocks /\ Anc[x] = Anc[Prev[x]] \cup {x} /\ x \notin Anc[Prev[x]]
      /\ \A x \in Blocks : x \in Anc[x] /\ Genesis \in Anc[x]
      /\ Anc[Genesis] = {Genesis} /\ Genesis \in Blocks
  BY TreeAssumption, AncSelf
<1>1. \A x \in Blocks \ {Genesis} : AliasTxs(x) = {} => AliasesOf[x] = AliasesOf[Prev[x]]
  BY AliasesKept DEF Below
\* One above the other.
<1>2. ASSUME NEW f \in Blocks
      PROVE  \A x \in Blocks : f \in Anc[x] /\ (\A e \in Anc[x] \ Anc[f] : AliasTxs(e) = {}) =>
                AliasesOf[x] = AliasesOf[f]
  <2> DEFINE S == {x \in Blocks : f \in Anc[x] /\ (\A e \in Anc[x] \ Anc[f] : AliasTxs(e) = {}) =>
                       AliasesOf[x] = AliasesOf[f]}
  <2>1. Genesis \in S
    BY <1>0
  <2>2. ASSUME NEW x \in Blocks \ {Genesis}, Prev[x] \in S PROVE x \in S
    <3> SUFFICES ASSUME f \in Anc[x], \A e \in Anc[x] \ Anc[f] : AliasTxs(e) = {}, f # x
                 PROVE  AliasesOf[x] = AliasesOf[f]
      OBVIOUS
    <3>1. f \in Anc[Prev[x]] /\ Anc[f] \subseteq Anc[Prev[x]]
      BY <1>0, AncClosed
    <3>2. AliasTxs(x) = {} /\ \A e \in Anc[Prev[x]] \ Anc[f] : AliasTxs(e) = {}
      BY <1>0, <3>1
    <3> QED BY <1>1, <2>2, <3>1, <3>2
  <2>3. S = Blocks
    <3>1. S \in SUBSET Blocks
      OBVIOUS
    <3> HIDE DEF S
    <3> QED BY <2>1, <2>2, <3>1, TreeInduction
  <2> QED BY <2>3
\* A block outside the other chain can be taken away.
<1> DEFINE Differ(x) == (Anc[x] \ Anc[c]) \cup (Anc[c] \ Anc[x])
           S == {x \in Blocks : (\A e \in Differ(x) : AliasTxs(e) = {}) => AliasesOf[x] = AliasesOf[c]}
<1>3. ASSUME NEW x \in Anc[c] PROVE x \in S
  BY <1>2, AncSelf
<1>4. ASSUME NEW x \in Blocks \ {Genesis}, Prev[x] \in S PROVE x \in S
  <2>1. CASE x \in Anc[c]
    BY <1>3, <2>1
  <2>2. CASE x \notin Anc[c]
    <3> SUFFICES ASSUME \A e \in Differ(x) : AliasTxs(e) = {} PROVE AliasesOf[x] = AliasesOf[c]
      OBVIOUS
    <3>1. x \in Differ(x) /\ Differ(Prev[x]) \subseteq Differ(x)
      BY <1>0, <2>2
    <3>2. AliasesOf[x] = AliasesOf[Prev[x]] /\ AliasesOf[Prev[x]] = AliasesOf[c]
      BY <1>1, <1>4, <3>1
    <3> QED BY <3>2
  <2> QED BY <2>1, <2>2
<1>5. S = Blocks
  <2>1. Genesis \in S
    BY <1>0, <1>3
  <2>2. S \in SUBSET Blocks
    OBVIOUS
  <2> HIDE DEF S
  <2> QED BY <1>4, <2>1, <2>2, TreeInduction
<1> QED BY <1>5

-----------------------------------------------------------------------------
(* In the chain that the node has connected, a relay comes after what it   *)
(* relays.                                                                 *)

\* What a transaction of b spends comes before it, in b or below.
InputsFirst(b) ==
    \A i \in DOMAIN vtx[b] : \A o \in vin[vtx[b][i]] : Queued(b, i, o[1]) \/ o[1] \in ChainTxs(Prev[b])

ChainOrdered(b) == \A c \in Anc[b] \ {Genesis} : InputsFirst(c)

OrderInv ==
    ~postponedFailed =>
        /\ ChainOrdered(disk.hashBestChain)
        /\ pc = "reorganize" => ChainOrdered(cursor)

\* The same, transaction by transaction.
LEMMA RegisteredInBlock ==
    ASSUME RelaysSpend, NEW b \in Blocks \ {Genesis}, InputsFirst(b),
           \A t \in ChainTxs(Prev[b]) : Op[t] # "none" => AliasesOf[Prev[b]][AliasOf[t]] # None,
           NEW i \in 0 .. Len(vtx[b])
    PROVE  /\ \A j \in 1 .. i : Op[vtx[b][j]] # "none" => Entered(Below(b), b)[i][AliasOf[vtx[b][j]]] # None
           /\ i < Len(vtx[b]) /\ Op[vtx[b][i + 1]] = "relay" =>
                Entered(Below(b), b)[i][AliasOf[vtx[b][i + 1]]] # None
<1> DEFINE n == Len(vtx[b])
           d == Below(b)
           f == Entered(d, b)
           Known(m) == \A j \in 1 .. m : Op[vtx[b][j]] # "none" => f[m][AliasOf[vtx[b][j]]] # None
           S == {m \in Nat : m <= n => Known(m)}
<1>0. n \in Nat /\ DOMAIN vtx[b] = 1 .. n /\ \A m \in 1 .. n : vtx[b][m] \in Tx
  BY TxAssumption
<1>1. f[0] = d /\ \A m \in 1 .. n : f[m] = Enter(f[m - 1], b, vtx[b][m])
  BY EnteredSteps
<1>2. d \in Entries /\ d = AliasesOf[Prev[b]]
  BY AliasesType DEF Below
<1> HIDE DEF d
<1>3. \A m \in 0 .. n : f[m] \in Entries /\ \A a \in Aliases : d[a] # None => f[m][a] # None
  BY <1>2, EnteredType
<1> HIDE DEF f, n
\* A relay finds its alias.
<1>4. ASSUME NEW m \in Nat, m < n, Known(m), Op[vtx[b][m + 1]] = "relay"
      PROVE  f[m][AliasOf[vtx[b][m + 1]]] # None
  <2> DEFINE t == vtx[b][m + 1]
  <2>1. m + 1 \in 1 .. n /\ m \in 0 .. n /\ t \in Tx
    BY <1>0, <1>4
  <2>2. PICK o \in vin[t] : Op[o[1]] # "none" /\ AliasOf[o[1]] = AliasOf[t]
    BY <1>4, <2>1 DEF RelaysSpend
  <2>3. AliasOf[t] \in Aliases
    BY <2>1, AliasAssumption
  <2>4. Queued(b, m + 1, o[1]) \/ o[1] \in ChainTxs(Prev[b])
    BY <1>0, <2>1, <2>2 DEF InputsFirst
  <2>5. CASE Queued(b, m + 1, o[1])
    <3>1. PICK j \in 1 .. (m + 1) - 1 : vtx[b][j] = o[1]
      BY <2>5 DEF Queued
    <3>2. j \in 1 .. m
      BY <3>1
    <3> QED BY <1>4, <2>2, <3>1, <3>2
  <2>6. CASE o[1] \in ChainTxs(Prev[b])
    <3>1. d[AliasOf[t]] # None
      BY <1>2, <2>2, <2>6
    <3> QED BY <1>3, <2>1, <2>3, <3>1
  <2> QED BY <2>4, <2>5, <2>6
<1>5. 0 \in S
  OBVIOUS
<1>6. ASSUME NEW m \in Nat, m \in S PROVE m + 1 \in S
  <2> SUFFICES ASSUME m + 1 <= n, NEW j \in 1 .. m + 1, Op[vtx[b][j]] # "none"
               PROVE  f[m + 1][AliasOf[vtx[b][j]]] # None
    OBVIOUS
  <2> DEFINE t == vtx[b][m + 1]
             u == vtx[b][j]
  <2>1. m + 1 \in 1 .. n /\ m \in 0 .. n /\ m < n /\ (m + 1) - 1 = m /\ j \in 1 .. n
    BY <1>0
  <2>2. /\ t \in Tx /\ u \in Tx /\ f[m + 1] = Enter(f[m], b, t) /\ f[m] \in Entries
        /\ AliasOf[t] \in Aliases /\ AliasOf[u] \in Aliases
    BY <1>0, <1>1, <1>3, <2>1, AliasAssumption
  <2>3. Known(m)
    BY <1>6, <2>1
  <2>4. Op[t] \in {"set", "relay", "none"}
    BY <2>2, AliasAssumption
  <2>5. Op[t] = "relay" => f[m][AliasOf[t]] # None
    BY <1>4, <2>1, <2>3
  <2>6. j # m + 1 => f[m][AliasOf[u]] # None
    <3>1. j # m + 1 => j \in 1 .. m
      OBVIOUS
    <3> QED BY <2>3, <3>1
  <2>7. j = m + 1 => u = t
    OBVIOUS
  <2> HIDE DEF t, u
  <2>8. /\ \A a \in Aliases : a # AliasOf[t] => f[m + 1][a] = f[m][a]
        /\ f[m][AliasOf[t]] # None \/ Op[t] = "set" => f[m + 1][AliasOf[t]] # None
    <3> DEFINE x == f[m]
               y == f[m + 1]
    <3>1. x \in Entries /\ y = Enter(x, b, t) /\ b \in Blocks
      BY <2>2
    <3> HIDE DEF x, y
    <3>2. /\ y \in Entries
          /\ \A a \in Aliases : a # AliasOf[t] => y[a] = x[a]
          /\ x[AliasOf[t]] # None => y[AliasOf[t]] # None
      BY <2>2, <3>1, EnterType
    <3>3. Op[t] = "set" => y[AliasOf[t]] # None
      BY <2>2, <3>1, EnterType
    <3> QED BY <3>2, <3>3 DEF x, y
  <2>9. Op[u] # "none"
    BY DEF u
  <2>10. f[m + 1][AliasOf[u]] # None
    BY <2>2, <2>4, <2>5, <2>6, <2>7, <2>8, <2>9
  <2> QED BY <2>10 DEF u
<1>7. Nat \subseteq S
  <2>1. \A m \in Nat : m \in S => m + 1 \in S
    BY <1>6
  <2> HIDE DEF S
  <2> QED BY <1>5, <2>1, EveryNumber
<1>8. i \in Nat /\ i <= n
  BY <1>0 DEF n
<1>9. Known(i)
  BY <1>7, <1>8
<1> QED BY <1>4, <1>8, <1>9 DEF f, d, n

\* An alias that a transaction of the chain set or relayed is never lost.
LEMMA Registered ==
    ASSUME RelaysSpend, NEW b \in Blocks, ChainOrdered(b)
    PROVE  \A t \in ChainTxs(b) : Op[t] # "none" => AliasesOf[b][AliasOf[t]] # None
<1> DEFINE Known(x) == \A t \in ChainTxs(x) : Op[t] # "none" => AliasesOf[x][AliasOf[t]] # None
           S == {x \in Blocks : ChainOrdered(x) => Known(x)}
<1>1. Genesis \in S
  BY TreeAssumption DEF ChainTxs
<1>2. ASSUME NEW x \in Blocks \ {Genesis}, Prev[x] \in S PROVE x \in S
  <2> SUFFICES ASSUME ChainOrdered(x), NEW t \in ChainTxs(x), Op[t] # "none"
               PROVE  AliasesOf[x][AliasOf[t]] # None
    OBVIOUS
  <2>1. Prev[x] \in Blocks /\ Anc[x] = Anc[Prev[x]] \cup {x}
    BY TreeAssumption
  <2>2. Known(Prev[x]) /\ InputsFirst(x)
    BY <1>2, <2>1 DEF ChainOrdered
  <2>3. /\ Len(vtx[x]) \in 0 .. Len(vtx[x]) /\ DOMAIN vtx[x] = 1 .. Len(vtx[x])
    BY TxAssumption
  <2>4. AliasesOf[x] = Entered(Below(x), x)[Len(vtx[x])] /\ Below(x) \in Entries /\ Below(x) = AliasesOf[Prev[x]]
    BY AliasesStep, AliasesType DEF Below
  <2>5. CASE t \in TxsOf(x)
    <3>1. PICK j \in 1 .. Len(vtx[x]) : vtx[x][j] = t
      BY <2>3, <2>5 DEF TxsOf
    <3> QED BY <2>2, <2>3, <2>4, <3>1, RegisteredInBlock
  <2>6. CASE t \in ChainTxs(Prev[x])
    <3>1. AliasOf[t] \in Aliases /\ Below(x)[AliasOf[t]] # None
      BY <2>1, <2>2, <2>4, <2>6, TxsType, AliasAssumption
    <3> QED BY <2>3, <2>4, <3>1, EnteredType
  <2> QED BY <2>5, <2>6, ChainTxsStep
<1>3. S = Blocks
  <2>1. S \in SUBSET Blocks
    OBVIOUS
  <2> HIDE DEF S
  <2> QED BY <1>1, <1>2, <2>1, TreeInduction
<1> QED BY <1>3

\* A relay of the chain finds its alias.
LEMMA RelayFindsAlias ==
    ASSUME RelaysSpend, NEW b \in Blocks, ChainOrdered(b), NEW c \in Anc[b],
           NEW i \in 1 .. Len(vtx[c]), Op[vtx[c][i]] = "relay"
    PROVE  Entered(Below(c), c)[i - 1][AliasOf[vtx[c][i]]] # None
<1>1. c \in Blocks /\ Anc[c] \subseteq Anc[b] /\ Len(vtx[c]) \in Nat /\ vtx[c][i] \in TxsOf(c)
  BY AncClosed, TxAssumption DEF TxsOf
<1>2. c # Genesis
  <2>1. vtx[c][i] \in AliasTxs(c)
    BY <1>1 DEF AliasTxs
  <2> QED BY <2>1, AliasAssumption
<1>3. Prev[c] \in Blocks /\ c \in Anc[c] /\ Anc[Prev[c]] \subseteq Anc[c]
  BY <1>1, <1>2, AncSelf, TreeAssumption
<1>4. InputsFirst(c) /\ ChainOrdered(Prev[c])
  BY <1>1, <1>2, <1>3 DEF ChainOrdered
<1>5. \A t \in ChainTxs(Prev[c]) : Op[t] # "none" => AliasesOf[Prev[c]][AliasOf[t]] # None
  BY <1>3, <1>4, Registered
<1>6. i - 1 \in 0 .. Len(vtx[c]) /\ i - 1 < Len(vtx[c]) /\ (i - 1) + 1 = i
  BY <1>1
<1> DEFINE m == i - 1
<1>7. m \in 0 .. Len(vtx[c]) /\ m < Len(vtx[c]) /\ vtx[c][m + 1] = vtx[c][i]
  BY <1>6
<1> HIDE DEF m
<1>8. Entered(Below(c), c)[m][AliasOf[vtx[c][m + 1]]] # None
  BY <1>1, <1>2, <1>4, <1>5, <1>7, RegisteredInBlock
<1> QED BY <1>7, <1>8 DEF m

\* A block that connects spends what comes before it.
LEMMA ConnectsOrdered ==
    ASSUME NEW d \in Database, NEW b \in Blocks \ {Genesis},
           TxIndexIs(d, Prev[b]), Connects(d, b), ChainOrdered(Prev[b])
    PROVE  ChainOrdered(b)
<1>1. Prev[b] \in Blocks /\ Anc[b] = Anc[Prev[b]] \cup {b}
  BY TreeAssumption
<1>2. ASSUME NEW i \in DOMAIN vtx[b], NEW o \in vin[vtx[b][i]], ~Queued(b, i, o[1])
      PROVE  o[1] \in ChainTxs(Prev[b])
  <2>1. vtx[b][i] \in Tx /\ o \in OutPoints /\ o[1] \in Tx
    BY <1>2, TxAssumption
  <2>2. d.txPos[o[1]] # None
    BY <1>2 DEF Connects, InputOK, PosOf
  <2> QED BY <2>1, <2>2 DEF TxIndexIs
<1> QED BY <1>1, <1>2 DEF ChainOrdered, InputsFirst

LEMMA OrderInit == Init => OrderInv
<1> SUFFICES ASSUME Init PROVE OrderInv
  OBVIOUS
<1>1. disk.hashBestChain = Genesis /\ pc = "idle"
  BY DEF Init, EmptyDatabase
<1> QED BY <1>1, TreeAssumption DEF OrderInv, ChainOrdered

LEMMA OrderFrame ==
    ASSUME OrderInv,
           ~postponedFailed' =>
              /\ ~postponedFailed
              /\ ChainOrdered(disk'.hashBestChain)
              /\ pc' = "reorganize" => ChainOrdered(cursor')
    PROVE  OrderInv'
BY DEF OrderInv, ChainOrdered, InputsFirst, ChainTxs, TxsOf, Queued

LEMMA OrderStep == Inv /\ IndexInv /\ OrderInv /\ [Next]_vars => OrderInv'
<1> SUFFICES ASSUME Inv, IndexInv, OrderInv, [Next]_vars PROVE OrderInv'
  OBVIOUS
<1>0. ASSUME ~postponedFailed
      PROVE  /\ ChainOrdered(disk.hashBestChain) /\ TxIndexIs(disk, disk.hashBestChain)
             /\ disk \in Database /\ batch \in Database
             /\ pc = "reorganize" =>
                  /\ ChainOrdered(cursor) /\ TxIndexIs(batch, cursor)
                  /\ cursor \in Blocks /\ pindexIntermediate \in Blocks
             /\ pc \in {"setbest", "reorganize"} => disk.hashBestChain = pindexBest
             /\ pc = "postponed" => disk.hashBestChain = cursor
  <2>1. ChainOrdered(disk.hashBestChain) /\ (pc = "reorganize" => ChainOrdered(cursor))
    BY <1>0 DEF OrderInv
  <2>2. TxIndexIs(disk, disk.hashBestChain) /\ (pc = "reorganize" => TxIndexIs(batch, cursor))
    BY <1>0 DEF IndexInv, ChainInv, ChainIs
  <2>3. pc = "reorganize" => cursor \in Blocks /\ pindexIntermediate \in Blocks
    BY ReorganizeFacts
  <2> QED BY <1>0, <2>1, <2>2, <2>3 DEF IndexInv, TipsAgree, Inv, TypeOK
\* Most steps leave the chains alone.
<1>1. ASSUME disk'.hashBestChain = disk.hashBestChain, pc' # "reorganize" \/ (pc' = pc /\ cursor' = cursor),
             postponedFailed' \in {postponedFailed, TRUE}
      PROVE  OrderInv'
  <2>1. ~postponedFailed' => ~postponedFailed
    BY <1>1
  <2>2. ~postponedFailed' =>
           ChainOrdered(disk'.hashBestChain) /\ (pc' = "reorganize" => ChainOrdered(cursor'))
    BY <1>0, <1>1, <2>1
  <2> QED BY <2>1, <2>2, OrderFrame
<1>2. ASSUME NEW b \in Blocks, HoldOrphan(b) \/ DropBlock(b) PROVE OrderInv'
  BY <1>1, <1>2 DEF HoldOrphan, DropBlock, vars, db
<1>3. ASSUME NEW b \in Blocks, ProcessBlock(b) \/ ProcessOrphan(b) PROVE OrderInv'
  <2>1. AcceptBlock(b) /\ disk \in Database
    BY <1>3 DEF ProcessBlock, ProcessOrphan, Inv, TypeOK
  <2>2. disk'.hashBestChain = disk.hashBestChain /\ postponedFailed' = postponedFailed /\ pc' # "reorganize"
    BY <2>1 DEF AcceptBlock, AddToBlockIndex, Accepted, Refused, Database
  <2> QED BY <1>1, <2>2
<1>4. CASE NextInQueue \/ ExtendBestFails \/ ReorganizeFails \/ NewBestBlock \/ Restart \/ UNCHANGED vars
  <2>1. /\ disk' = disk /\ (pc' # "reorganize" \/ (pc' = pc /\ cursor' = cursor))
        /\ postponedFailed' \in {postponedFailed, TRUE}
    BY <1>4 DEF NextInQueue, ExtendBestFails, ReorganizeFails, NewBestBlock, Restart, Accepted, Refused, vars, db
  <2> QED BY <1>1, <2>1
\* A block on top of the stored chain.
<1>5. ASSUME NEW b \in Blocks \ {Genesis}, SetBestChainInner(b), pc' # "reorganize",
             postponedFailed' = postponedFailed, ~postponedFailed => Prev[b] = disk.hashBestChain
      PROVE  OrderInv'
  <2>1. disk'.hashBestChain = b /\ Connects(disk, b)
    BY <1>5, InnerType DEF SetBestChainInner
  <2>2. ~postponedFailed => ChainOrdered(b)
    BY <1>0, <1>5, <2>1, ConnectsOrdered
  <2> QED BY <1>5, <2>1, <2>2, OrderFrame
<1>6. CASE ExtendBest
  <2>1. /\ pc = "setbest" /\ Prev[pblock] = pindexBest /\ SetBestChainInner(pblock)
        /\ pc' = "orphans" /\ postponedFailed' = postponedFailed
    BY <1>6 DEF ExtendBest, Accepted
  <2>2. pblock \in Blocks \ {Genesis}
    BY <2>1, ReorganizeFacts
  <2> QED BY <1>0, <1>5, <2>1, <2>2
<1>7. CASE ConnectPostponed
  <2> DEFINE b == NextTowards(cursor, pblock)
  <2>1. pblock \in Blocks /\ cursor \in Anc[pblock] /\ cursor # pblock
    BY <1>7 DEF ConnectPostponed, Inv, TypeOK, ControlOK
  <2>2. b \in Blocks \ {Genesis} /\ Prev[b] = cursor
    BY <2>1, NextBlock
  <2>3. SetBestChainInner(b) /\ pc = "postponed" /\ pc' = pc /\ postponedFailed' = postponedFailed
    BY <1>7 DEF ConnectPostponed
  <2> HIDE DEF b
  <2> QED BY <1>0, <1>5, <2>2, <2>3
<1>8. CASE BeginReorganize
  <2>1. disk' = disk /\ cursor' = pindexBest /\ pc = "setbest" /\ postponedFailed' = postponedFailed
    BY <1>8 DEF BeginReorganize
  <2> QED BY <1>0, <2>1, OrderFrame
<1>9. CASE ReorganizeDisconnect
  <2>1. /\ disk' = disk /\ cursor' = Prev[cursor] /\ pc = "reorganize" /\ postponedFailed' = postponedFailed
        /\ cursor \notin Anc[pindexIntermediate]
    BY <1>9 DEF ReorganizeDisconnect
  <2>2. ~postponedFailed => ChainOrdered(cursor')
    <3> SUFFICES ASSUME ~postponedFailed PROVE ChainOrdered(Prev[cursor])
      BY <2>1
    <3>1. cursor \in Blocks \ {Genesis}
      BY <1>0, <2>1, AncSelf
    <3>2. Anc[Prev[cursor]] \subseteq Anc[cursor]
      BY <3>1, TreeAssumption
    <3> QED BY <1>0, <2>1, <3>2 DEF ChainOrdered
  <2> QED BY <1>0, <2>1, <2>2, OrderFrame
<1>10. CASE ReorganizeConnect
  <2> DEFINE b == NextTowards(cursor, pindexIntermediate)
  <2>1. /\ disk' = disk /\ cursor' = b /\ pc = "reorganize" /\ postponedFailed' = postponedFailed
        /\ cursor \in Anc[pindexIntermediate] \ {pindexIntermediate} /\ Connects(batch, b)
    BY <1>10 DEF ReorganizeConnect
  <2>2. pindexIntermediate \in Blocks
    BY <2>1, ReorganizeFacts
  <2>3. b \in Blocks \ {Genesis} /\ Prev[b] = cursor
    BY <2>1, <2>2, NextBlock
  <2> HIDE DEF b
  <2>4. ~postponedFailed => ChainOrdered(b)
    BY <1>0, <2>1, <2>3, ConnectsOrdered
  <2> QED BY <1>0, <2>1, <2>4, OrderFrame
<1>11. CASE CommitReorganize
  <2>1. /\ disk' = WriteHashBestChain(batch, cursor) /\ pc = "reorganize" /\ pc' = "postponed"
        /\ postponedFailed' = postponedFailed
    BY <1>11 DEF CommitReorganize
  <2>2. cursor \in Blocks /\ batch \in Database
    BY <2>1, ReorganizeFacts DEF Inv, TypeOK
  <2>3. disk'.hashBestChain = cursor
    BY <2>1, <2>2, BestType
  <2> QED BY <1>0, <2>1, <2>3, OrderFrame
<1> QED
  BY <1>2, <1>3, <1>4, <1>6, <1>7, <1>8, <1>9, <1>10, <1>11 DEF Next, SetBestChain

-----------------------------------------------------------------------------
(* The index and the aliases of the chain.                                 *)

\* Heights are subtracted as unsigned int.  An entry at or below c has its true
\* age; one from above c, that a rescan has not come to yet, has expired.
LEMMA AgeBelow ==
    ASSUME NEW c \in Blocks, NEW f \in Blocks, nHeight[f] <= nHeight[c]
    PROVE  Age(c, f) = nHeight[c] - nHeight[f]
<1>1. nHeight[c] \in Nat /\ nHeight[f] \in Nat /\ WORD \in Nat /\ nHeight[c] < WORD
  BY TreeAssumption, AliasAssumption
<1> DEFINE x == nHeight[c]
           y == nHeight[f]
<1>2. x \in Nat /\ y \in Nat /\ x < WORD /\ y <= x
  BY <1>1
<1> HIDE DEF x, y
<1>3. (x - y) % WORD = x - y
  BY <1>1, <1>2
<1> QED BY <1>3 DEF Age, x, y

LEMMA AgeAbove ==
    ASSUME NEW c \in Blocks, NEW f \in Blocks, nHeight[c] < nHeight[f]
    PROVE  Age(c, f) >= scaleMonitor
<1>1. /\ nHeight[c] \in Nat /\ nHeight[f] \in Nat /\ WORD \in Nat /\ scaleMonitor \in Nat
      /\ nHeight[f] + scaleMonitor < WORD
  BY TreeAssumption, AliasAssumption
<1> DEFINE x == nHeight[c]
           y == nHeight[f]
<1>2. x \in Nat /\ y \in Nat /\ y + scaleMonitor < WORD /\ x < y
  BY <1>1
<1> HIDE DEF x, y
<1>3. y < WORD
  BY <1>1, <1>2
<1>4. (x - y) % WORD = WORD - (y - x)
  BY <1>1, <1>2, <1>3
<1>5. WORD - (y - x) >= scaleMonitor
  BY <1>1, <1>2
<1> QED BY <1>4, <1>5 DEF Age, x, y

\* For the alias a, the index d is right when filter has done i transactions of
\* block c, in the chain that ends in b: it has what the chain has so far, or,
\* in a rescan, still what it has in the end, which is yet to come.
Matches(d, c, i, b, a) ==
    LET cur  == Entered(Below(c), c)[i][a]
        last == AliasesOf[b][a]
    IN  \/ d[a] = cur
        \/ /\ last # None /\ d[a] = last
           /\ nHeight[last.block] >= nHeight[c]
           /\ cur = None \/ last.block = c

\* One transaction of filter.
LEMMA FilterMatches ==
    ASSUME RelaysSpend, NEW b \in Blocks, ChainOrdered(b), NEW c \in Anc[b],
           NEW i \in 1 .. Len(vtx[c]), NEW d \in Entries, NEW t, t = vtx[c][i],
           Op[t] # "none" => disk.txPos[t] # None,
           \A a \in Aliases : Matches(d, c, i - 1, b, a),
           NEW e, e = IF Indexed(d, c, t) THEN lPut(d, c, t) ELSE d
    PROVE  \A a \in Aliases : Matches(e, c, i, b, a)
<1> DEFINE x == Entered(Below(c), c)[i - 1]
           y == Entered(Below(c), c)[i]
           l == AliasesOf[b]
           k == AliasOf[t]
           r == [block |-> c, tx |-> t]
           Takes == \/ Op[t] = "set" /\ (x[k] = None \/ nHeight[x[k].block] + scaleMonitor <= nHeight[c])
                    \/ Op[t] = "relay" /\ x[k] # None
<1>1. /\ c \in Blocks /\ Len(vtx[c]) \in Nat /\ t \in Tx /\ k \in Aliases /\ scaleMonitor \in Nat
      /\ i - 1 \in 0 .. Len(vtx[c]) /\ i \in 0 .. Len(vtx[c])
      /\ nHeight[c] \in Nat
  <2>1. c \in Blocks
    BY AncClosed
  <2>2. vtx[c] \in Seq(Tx) /\ nHeight[c] \in Nat /\ scaleMonitor \in Nat
    BY <2>1, TxAssumption, AliasAssumption, TreeAssumption
  <2>3. Len(vtx[c]) \in Nat /\ t \in Tx
    BY <2>2
  <2>4. k \in Aliases
    BY <2>3, AliasAssumption
  <2> QED BY <2>1, <2>2, <2>3, <2>4
<1>2. y = Enter(x, c, t)
  BY <1>1, EnteredSteps
<1>3. x \in Entries /\ (x[k] # None => x[k].block \in Blocks /\ nHeight[x[k].block] <= nHeight[c])
  <2>1. Below(c) \in Entries /\ (Below(c)[k] # None => Below(c)[k].block \in Anc[c]) /\ c \in Anc[c]
    BY <1>1, AliasesType, AncSelf
  <2>2. x \in Entries /\ (x[k] = Below(c)[k] \/ x[k].block = c)
    BY <1>1, <2>1, EnteredType
  <2> HIDE DEF x
  <2>3. x[k] # None => x[k].block \in Anc[c]
    BY <2>1, <2>2
  <2>4. \A f \in Anc[c] : f \in Blocks /\ nHeight[f] \in Nat /\ nHeight[f] <= nHeight[c]
    <3> SUFFICES ASSUME NEW f \in Anc[c]
                 PROVE  f \in Blocks /\ nHeight[f] \in Nat /\ nHeight[f] <= nHeight[c]
      OBVIOUS
    <3>1. f \in Blocks /\ (f # c => nHeight[f] < nHeight[c])
      BY <1>1, AncClosed
    <3>2. nHeight[f] \in Nat
      BY <3>1, TreeAssumption
    <3> QED BY <1>1, <3>1, <3>2
  <2> QED BY <2>2, <2>3, <2>4
<1>4. l \in Entries /\ (l[k] # None => l[k].block \in Blocks /\ l[k].block \in Anc[b])
  BY <1>1, AliasesType, AncClosed
<1>5. Op[t] = "relay" => x[k] # None
  BY RelayFindsAlias
<1>6. Op[t] \in {"set", "relay", "none"}
  BY <1>1, AliasAssumption
<1>7. ASSUME NEW a \in Aliases
      PROVE  \/ d[a] = x[a]
             \/ /\ l[a] # None /\ d[a] = l[a] /\ nHeight[l[a].block] >= nHeight[c]
                /\ x[a] = None \/ l[a].block = c
  BY <1>7 DEF Matches
<1>8. r # None /\ r.block = c /\ \A z \in Entries : lPut(z, c, t) = [z EXCEPT ![k] = r]
  <2>1. r \in [block : Blocks, tx : Tx]
    BY <1>1
  <2> QED BY <2>1, AliasAssumption DEF lPut
<1> HIDE DEF x, y, l, r
\* What becomes of the index and of the chain's aliases.
<1>9. /\ Indexed(d, c, t) => e[k] = r
      /\ ~Indexed(d, c, t) => e[k] = d[k]
      /\ \A a \in Aliases : a # k => e[a] = d[a]
  <2>1. Indexed(d, c, t) => e = [d EXCEPT ![k] = r]
    BY <1>8
  <2>2. ~Indexed(d, c, t) => e = d
    OBVIOUS
  <2> QED BY <1>1, <2>1, <2>2 DEF Entries
<1>10. /\ Takes => y[k] = r
       /\ ~Takes => y[k] = x[k]
       /\ \A a \in Aliases : a # k => y[a] = x[a]
  <2>1. Takes => y = [x EXCEPT ![k] = r]
    BY <1>2, <1>3, <1>8 DEF Enter
  <2>2. ~Takes => y = x
    BY <1>2 DEF Enter
  <2> HIDE DEF Takes, k
  <2> QED BY <1>1, <1>3, <2>1, <2>2 DEF Entries
\* The index decides as the chain does, when it has what the chain has.
<1>11. ASSUME d[k] = x[k] PROVE Indexed(d, c, t) <=> Takes
  <2>1. x[k] # None => Age(c, x[k].block) = nHeight[c] - nHeight[x[k].block]
    BY <1>1, <1>3, AgeBelow
  <2>2. x[k] # None => nHeight[x[k].block] \in Nat
    BY <1>3, TreeAssumption
  <2>3. x[k] # None =>
           (Age(c, x[k].block) >= scaleMonitor <=> nHeight[x[k].block] + scaleMonitor <= nHeight[c])
    <3> DEFINE g == Age(c, x[k].block)
               h == nHeight[x[k].block]
               n == nHeight[c]
    <3>1. x[k] # None => g = n - h /\ h \in Nat
      BY <2>1, <2>2
    <3>2. n \in Nat /\ scaleMonitor \in Nat
      BY <1>1
    <3> HIDE DEF g, h, n
    <3>3. x[k] # None => (g >= scaleMonitor <=> h + scaleMonitor <= n)
      BY <3>1, <3>2
    <3> QED BY <3>3 DEF g, h, n
  <2> QED BY <1>11, <2>3 DEF Indexed
<1>12. ASSUME NEW a \in Aliases
       PROVE  \/ e[a] = y[a]
              \/ /\ l[a] # None /\ e[a] = l[a] /\ nHeight[l[a].block] >= nHeight[c]
                 /\ y[a] = None \/ l[a].block = c
  <2>1. CASE a # k
    BY <1>7, <1>9, <1>10, <2>1
  <2>2. CASE a = k /\ d[k] = x[k]
    BY <1>9, <1>10, <1>11, <2>2
  <2>3. CASE a = k /\ d[k] # x[k]
    <3>1. /\ l[k] # None /\ d[k] = l[k] /\ nHeight[l[k].block] >= nHeight[c]
          /\ x[k] = None \/ l[k].block = c
      BY <1>1, <1>7, <2>3
    <3>2. l[k].block \in Blocks /\ nHeight[l[k].block] \in Nat
      BY <1>4, <3>1, TreeAssumption
    <3>3. CASE Op[t] = "none"
      <4>1. ~Indexed(d, c, t) /\ ~Takes
        BY <3>3 DEF Indexed
      <4> QED BY <1>9, <1>10, <2>3, <3>1, <4>1
    <3>4. CASE Op[t] = "relay"
      <4>1. Indexed(d, c, t) /\ Takes
        BY <1>5, <3>1, <3>4 DEF Indexed
      <4> QED BY <1>9, <1>10, <2>3, <4>1
    <3>5. CASE Op[t] = "set" /\ nHeight[l[k].block] > nHeight[c]
      <4>1. l[k].block # c
        BY <1>1, <3>2, <3>5
      <4>2. Takes
        BY <3>1, <3>5, <4>1
      <4>3. Age(c, l[k].block) >= scaleMonitor
        BY <1>1, <3>2, <3>5, AgeAbove
      <4>4. Indexed(d, c, t)
        BY <3>1, <3>5, <4>3 DEF Indexed
      <4> QED BY <1>9, <1>10, <2>3, <4>2, <4>4
    <3>6. CASE Op[t] = "set" /\ nHeight[l[k].block] = nHeight[c]
      <4>1. l[k].block = c
        BY <1>4, <3>1, <3>6, AncHeight
      <4>2. Age(c, c) = 0
        <5>1. Age(c, c) = nHeight[c] - nHeight[c]
          BY <1>1, AgeBelow
        <5> QED BY <1>1, <5>1
      <4>3. CASE scaleMonitor = 0
        <5>1. x[k] # None => nHeight[x[k].block] + scaleMonitor <= nHeight[c]
          BY <1>1, <1>3, <4>3, TreeAssumption
        <5>2. Takes
          BY <3>6, <5>1
        <5>3. Indexed(d, c, t)
          BY <3>1, <3>6, <4>1, <4>2, <4>3 DEF Indexed
        <5> QED BY <1>9, <1>10, <2>3, <5>2, <5>3
      <4>4. CASE scaleMonitor # 0
        <5>1. ~Indexed(d, c, t)
          BY <1>1, <3>1, <3>6, <4>1, <4>2, <4>4 DEF Indexed
        <5> QED BY <1>9, <2>3, <3>1, <4>1, <5>1
      <4> QED BY <4>3, <4>4
    <3> QED BY <1>1, <1>6, <3>1, <3>2, <3>3, <3>4, <3>5, <3>6
  <2> QED BY <2>1, <2>2, <2>3
<1> QED BY <1>12 DEF Matches, x, y, l

\* What is true of an index d that has missed nothing, with filter at transaction
\* i of the block f, in a scan or not, and b the end of the stored chain.
UpToDate(d, f, i, scan, b) ==
    /\ f = None => d = AliasesOf[b]
    /\ f # None =>
          /\ i - 1 \in 0 .. Len(vtx[f])
          /\ ~scan => f = b
          /\ \A a \in Aliases : Matches(d, f, i - 1, b, a)

ProgressInv ==
    /\ scanning => pfilter # None
    /\ ~stale /\ ~postponedFailed => UpToDate(ln1Db, pfilter, iTxn, scanning, disk.hashBestChain)

LEMMA ProgressFrame ==
    ASSUME scanning' => pfilter' # None,
           ~stale' /\ ~postponedFailed' => UpToDate(ln1Db', pfilter', iTxn', scanning', disk'.hashBestChain)
    PROVE  ProgressInv'
BY DEF ProgressInv

LEMMA ProgressInit == AliasInit => ProgressInv
<1> SUFFICES ASSUME AliasInit PROVE ProgressInv
  OBVIOUS
<1>1. ln1Db = NoAliases /\ pfilter = None /\ scanning = FALSE /\ disk.hashBestChain = Genesis
  BY DEF AliasInit, Init, EmptyDatabase
<1> QED BY <1>1, NoAliasesBelow DEF ProgressInv, UpToDate

\* At the first transaction of a block the chain has the aliases of its parent.
LEMMA AtFirst == \A b \in Blocks : Entered(Below(b), b)[0] = Below(b)
BY EnteredSteps

LEMMA ProgressTx ==
    ASSUME RelaysSpend, Inv, IndexInv, EntriesInv, OrderInv, ProgressInv, FilterTx
    PROVE  ProgressInv'
<1> DEFINE c == pfilter
           b == disk.hashBestChain
           t == vtx[c][iTxn]
<1>1. /\ c # None /\ iTxn <= Len(vtx[c])
      /\ ln1Db' = IF Indexed(ln1Db, c, t) THEN lPut(ln1Db, c, t) ELSE ln1Db
      /\ iTxn' = iTxn + 1 /\ UNCHANGED <<vars, pfilter, scanning, stale>>
  BY DEF FilterTx
<1>2. disk' = disk /\ postponedFailed' = postponedFailed /\ pfilter' = pfilter /\ scanning' = scanning /\ stale' = stale
  BY <1>1 DEF vars, db
<1>3. ASSUME ~stale, ~postponedFailed PROVE UpToDate(ln1Db', c, iTxn + 1, scanning, b)
  <2>1. /\ b \in Blocks /\ c \in Anc[b] /\ iTxn \in Nat \ {0} /\ ln1Db \in Entries
    BY <1>1, <1>3 DEF EntriesInv, FilterOK, Inv, TypeOK, Database, Entries
  <2>2. ChainOrdered(b) /\ TxIndexIs(disk, b)
    BY <1>3 DEF OrderInv, IndexInv, ChainInv, ChainIs
  <2>3. c \in Blocks /\ vtx[c] \in Seq(Tx)
    BY <2>1, AncClosed, TxAssumption
  <2>4. /\ Len(vtx[c]) \in Nat /\ iTxn \in 1 .. Len(vtx[c]) /\ t \in TxsOf(c) /\ (iTxn + 1) - 1 = iTxn
        /\ iTxn \in 0 .. Len(vtx[c])
    BY <1>1, <2>1, <2>3 DEF TxsOf
  <2>5. Op[t] # "none" => disk.txPos[t] # None
    <3> SUFFICES ASSUME Op[t] # "none" PROVE disk.txPos[t] # None
      OBVIOUS
    <3>1. t \in AliasTxs(c)
      BY <2>4 DEF AliasTxs
    <3>2. c # Genesis
      BY <3>1, AliasAssumption
    <3>3. disk.txPos[t] = c
      BY <2>1, <2>2, <2>4, <3>2 DEF TxIndexIs
    <3> QED BY <2>3, <3>3, TreeAssumption
  <2>6. (~scanning => c = b) /\ \A a \in Aliases : Matches(ln1Db, c, iTxn - 1, b, a)
    BY <1>1, <1>3 DEF ProgressInv, UpToDate
  <2>7. \A a \in Aliases : Matches(ln1Db', c, iTxn, b, a)
    <3> DEFINE e == ln1Db'
               u == t
    <3>1. e = IF Indexed(ln1Db, c, u) THEN lPut(ln1Db, c, u) ELSE ln1Db
      BY <1>1
    <3>2. u = vtx[c][iTxn] /\ (Op[u] # "none" => disk.txPos[u] # None)
      BY <2>5
    <3> HIDE DEF e, u, t, b, c
    <3>3. \A a \in Aliases : Matches(e, c, iTxn, b, a)
      BY <2>1, <2>2, <2>4, <2>6, <3>1, <3>2, FilterMatches
    <3> QED BY <3>3 DEF e
  <2> QED BY <1>1, <2>4, <2>6, <2>7 DEF UpToDate
<1> QED BY <1>1, <1>2, <1>3, ProgressFrame DEF ProgressInv

\* The end of a block.  What a rescan has still to come to is above it.
LEMMA NextMatches ==
    ASSUME NEW b \in Blocks, NEW c \in Anc[b], NEW x \in Anc[b], x # Genesis, Prev[x] = c,
           NEW d, \A a \in Aliases : Matches(d, c, Len(vtx[c]), b, a),
           NEW j, j = 0 \/ (j = Len(vtx[x]) /\ AliasTxs(x) = {})
    PROVE  \A a \in Aliases : Matches(d, x, j, b, a)
<1>1. c \in Blocks /\ x \in Blocks /\ nHeight[x] = nHeight[c] + 1 /\ nHeight[c] \in Nat
  BY AncClosed, TreeAssumption
<1>2. Below(x) = AliasesOf[c] /\ AliasesOf[c] = Entered(Below(c), c)[Len(vtx[c])]
  BY <1>1, AliasesStep DEF Below
<1>3. Entered(Below(x), x)[j] = AliasesOf[c]
  <2>1. CASE j = 0
    BY <1>1, <1>2, <2>1, AtFirst
  <2>2. CASE j = Len(vtx[x]) /\ AliasTxs(x) = {}
    <3>1. AliasesOf[x] = Below(x) /\ AliasesOf[x] = Entered(Below(x), x)[j]
      BY <1>1, <2>2, AliasesKept, AliasesStep
    <3> QED BY <1>2, <3>1
  <2> QED BY <2>1, <2>2
<1> SUFFICES ASSUME NEW a \in Aliases PROVE Matches(d, x, j, b, a)
  OBVIOUS
<1> DEFINE cur == AliasesOf[c][a]
           last == AliasesOf[b][a]
<1>4. \/ d[a] = cur
      \/ /\ last # None /\ d[a] = last /\ nHeight[last.block] >= nHeight[c]
         /\ cur = None \/ last.block = c
  BY <1>2 DEF Matches
<1>5. last # None => last.block \in Anc[b] /\ last.block \in Blocks /\ nHeight[last.block] \in Nat
  BY AliasesType, AncClosed, TreeAssumption
<1>6. last # None /\ last.block = c => cur = last
  BY EntryStays
<1>7. last # None /\ nHeight[last.block] = nHeight[c] => last.block = c
  BY <1>5, AncHeight
<1>8. \/ d[a] = cur
      \/ last # None /\ d[a] = last /\ nHeight[last.block] >= nHeight[x] /\ cur = None
  <2> HIDE DEF cur, last
  <2> QED BY <1>1, <1>4, <1>5, <1>6, <1>7
<1> QED BY <1>3, <1>8 DEF Matches

LEMMA ProgressEnd ==
    ASSUME Inv, IndexInv, LinksIndexed, EntriesInv, ProgressInv, FilterEnd
    PROVE  ProgressInv'
<1> DEFINE c == pfilter
           b == disk.hashBestChain
           x == pnext[c]
<1>1. /\ c # None /\ iTxn > Len(vtx[c])
      /\ pfilter' = IF scanning THEN x ELSE None
      /\ scanning' = (scanning /\ x # None)
      /\ iTxn' = IF scanning /\ x # None /\ nHeight[x] < nScanHeight THEN Len(vtx[x]) + 1 ELSE 1
      /\ UNCHANGED <<vars, ln1Db, stale>>
  BY DEF FilterEnd
<1>2. disk' = disk /\ postponedFailed' = postponedFailed /\ stale' = stale /\ ln1Db' = ln1Db
  BY <1>1 DEF vars, db
<1>3. ASSUME ~stale, ~postponedFailed PROVE UpToDate(ln1Db, pfilter', iTxn', scanning', b)
  <2>1. /\ b \in Blocks /\ c \in Anc[b] /\ iTxn \in Nat \ {0}
    BY <1>1, <1>3 DEF EntriesInv, FilterOK, Inv, TypeOK, Database
  <2>2. c \in Blocks /\ Len(vtx[c]) \in Nat
    BY <2>1, AncClosed, TxAssumption
  <2>3. /\ iTxn - 1 \in 0 .. Len(vtx[c]) /\ (~scanning => c = b)
        /\ \A a \in Aliases : Matches(ln1Db, c, iTxn - 1, b, a)
    BY <1>1, <1>3 DEF ProgressInv, UpToDate
  <2>4. iTxn - 1 = Len(vtx[c])
    BY <1>1, <2>1, <2>2, <2>3
  <2>5. \A a \in Aliases : Matches(ln1Db, c, Len(vtx[c]), b, a)
    BY <2>3, <2>4
  <2>6. LinksAre(pnext, b)
    BY <1>3 DEF IndexInv, LinksOK
  \* The last block of the chain.
  <2>7. CASE c = b
    <3>1. x = None
      <4>1. ~\E e \in Anc[b] : Prev[e] = b
        <5> SUFFICES ASSUME NEW e \in Anc[b], Prev[e] = b PROVE FALSE
          OBVIOUS
        <5>1. e \in Blocks /\ e # Genesis
          BY <2>1, AncClosed, TreeAssumption
        <5>2. nHeight[e] = nHeight[b] + 1 /\ nHeight[b] \in Nat
          BY <2>1, <5>1, TreeAssumption
        <5>3. nHeight[e] <= nHeight[b]
          BY <2>1, <5>1, <5>2, AncClosed
        <5> QED BY <5>2, <5>3
      <4> QED BY <2>1, <2>6, <2>7, <4>1 DEF LinksAre
    <3>2. pfilter' = None
      BY <1>1, <3>1
    <3>3. AliasesOf[b] = Entered(Below(b), b)[Len(vtx[b])] /\ AliasesOf[b] \in Entries
      BY <2>1, AliasesStep, AliasesType
    <3>4. ln1Db \in Entries
      BY DEF EntriesInv, FilterOK, Entries
    <3>5. \A a \in Aliases : ln1Db[a] = AliasesOf[b][a]
      BY <2>5, <2>7, <3>3 DEF Matches
    <3>6. ln1Db = AliasesOf[b]
      BY <3>3, <3>4, <3>5 DEF Entries
    <3> QED BY <3>2, <3>6 DEF UpToDate
  \* A scan goes on.
  <2>8. CASE c # b
    <3>1. x \in Anc[b] /\ Prev[x] = c
      BY <2>1, <2>2, <2>6, <2>8, Child DEF LinksAre
    <3>2. x \in Blocks /\ x # Genesis /\ x # None /\ Len(vtx[x]) \in Nat
      <4>1. x \in Blocks
        BY <2>1, <3>1, AncClosed
      <4>2. x # None /\ x # Genesis
        BY <2>2, <3>1, <4>1, TreeAssumption
      <4>3. vtx[x] \in Seq(Tx)
        BY <4>1, TxAssumption
      <4> QED BY <4>1, <4>2, <4>3
    <3>3. scanning /\ pfilter' = x /\ scanning'
      BY <1>1, <2>3, <2>8, <3>2
    <3> DEFINE j == iTxn' - 1
    <3>4. j = 0 \/ (j = Len(vtx[x]) /\ AliasTxs(x) = {})
      <4>1. iTxn' = 1 \/ (iTxn' = Len(vtx[x]) + 1 /\ nHeight[x] < nScanHeight)
        BY <1>1
      <4> QED BY <3>2, <4>1, AliasAssumption
    <3>5. j \in 0 .. Len(vtx[x])
      BY <3>2, <3>4
    <3> HIDE DEF j, b, c, x
    <3>6. \A a \in Aliases : Matches(ln1Db, x, j, b, a)
      BY <2>1, <2>5, <3>1, <3>2, <3>4, NextMatches
    <3> QED BY <3>2, <3>3, <3>5, <3>6 DEF UpToDate, j
  <2> QED BY <2>7, <2>8
<1>4. scanning' => pfilter' # None
  BY <1>1
<1> QED BY <1>2, <1>3, <1>4, ProgressFrame

\* A block is connected: filter begins with it, on the aliases of its parent.
LEMMA ProgressConnect ==
    ASSUME Inv, IndexInv, ProgressInv, ConnectAndFilter, pfilter = None
    PROVE  ProgressInv'
<1>1. ln1Db' = ln1Db /\ scanning' = scanning /\ stale' = stale /\ iTxn' = 1 /\ ~scanning
  BY DEF ConnectAndFilter, ProgressInv
<1>2. PICK b \in Blocks \ {Genesis} :
        /\ b \in mapBlockIndex /\ SetBestChainInner(b) /\ pfilter' = b
        /\ mapBlockIndex' = mapBlockIndex /\ postponedFailed' = postponedFailed
        /\ ~postponedFailed => Prev[b] = disk.hashBestChain
  BY ConnectedBlock
<1>3. disk'.hashBestChain = b
  BY <1>2, InnerType
<1>4. ASSUME ~stale, ~postponedFailed PROVE UpToDate(ln1Db, b, 1, scanning, b)
  <2>1. Below(b) = ln1Db
    BY <1>2, <1>4 DEF Below, ProgressInv, UpToDate
  <2>2. Entered(Below(b), b)[0] = ln1Db
    BY <1>2, <2>1, AtFirst
  <2>3. Len(vtx[b]) \in Nat
    BY <1>2, TxAssumption
  <2>4. 1 - 1 = 0 /\ 0 \in 0 .. Len(vtx[b])
    BY <2>3
  <2>5. \A a \in Aliases : Matches(ln1Db, b, 0, b, a)
    BY <2>2 DEF Matches
  <2>6. b # None
    BY <1>2, TreeAssumption
  <2> QED BY <2>4, <2>5, <2>6 DEF UpToDate
<1> QED BY <1>1, <1>2, <1>3, <1>4, ProgressFrame

\* A reorganisation that moves no alias leaves the aliases of the chain alone.
LEMMA ProgressReorganize ==
    ASSUME Inv, IndexInv, ProgressInv, ReorganizeAliases, pfilter = None
    PROVE  ProgressInv'
<1>1. /\ ln1Db' = ln1Db /\ scanning' = scanning /\ pfilter' = pfilter /\ iTxn' = iTxn
      /\ stale' = \/ stale
                  \/ \E b \in Branch(cursor, pindexBest) \cup Branch(pindexBest, cursor) : AliasTxs(b) # {}
      /\ CommitReorganize
  BY DEF ReorganizeAliases
<1>2. /\ disk' = WriteHashBestChain(batch, cursor)
      /\ postponedFailed' = postponedFailed /\ pc = "reorganize"
  BY <1>1 DEF CommitReorganize
<1>3. cursor \in Blocks /\ batch \in Database
  BY <1>2, ReorganizeFacts DEF Inv, TypeOK
<1>4. disk'.hashBestChain = cursor
  BY <1>2, <1>3, BestType
<1>5. ASSUME ~stale', ~postponedFailed PROVE UpToDate(ln1Db, None, iTxn, scanning, cursor)
  <2>1. disk.hashBestChain = pindexBest /\ pindexBest \in Blocks
    BY <1>2, <1>5 DEF IndexInv, TipsAgree, Inv, TypeOK, Database
  <2>2. \A x \in (Anc[pindexBest] \ Anc[cursor]) \cup (Anc[cursor] \ Anc[pindexBest]) : AliasTxs(x) = {}
    BY <1>1, <1>5 DEF Branch
  <2>3. AliasesOf[pindexBest] = AliasesOf[cursor]
    BY <1>3, <2>1, <2>2, SameAliases
  <2>4. ~stale
    BY <1>1, <1>5
  <2>5. ln1Db = AliasesOf[pindexBest]
    BY <1>5, <2>1, <2>4 DEF ProgressInv, UpToDate
  <2> QED BY <2>3, <2>5 DEF UpToDate
<1>6. ~scanning
  BY DEF ProgressInv
<1> QED BY <1>1, <1>2, <1>4, <1>5, <1>6, ProgressFrame

LEMMA ProgressChainStep == ASSUME Inv, ProgressInv, AliasChainStep PROVE ProgressInv'
<1>1. UNCHANGED aliasVars
  BY DEF AliasChainStep
<1>2. disk'.hashBestChain = disk.hashBestChain /\ (postponedFailed => postponedFailed')
  BY ChainStepKeeps
<1>3. stale' = stale /\ scanning' = scanning /\ pfilter' = pfilter /\ iTxn' = iTxn /\ ln1Db' = ln1Db
  BY <1>1 DEF aliasVars
<1> QED BY <1>2, <1>3, ProgressFrame DEF ProgressInv

\* A start.  A scan begins below every alias of the chain, with an empty index
\* or with a complete one.
LEMMA ProgressStart ==
    ASSUME Inv, ProgressInv, NEW xscan \in BOOLEAN, NEW upgradewallet \in BOOLEAN, Start(xscan, upgradewallet)
    PROVE  ProgressInv'
<1> DEFINE b == disk.hashBestChain
           scan == (xscan \/ upgradewallet) /\ b # Genesis
<1>1. /\ ln1Db' = IF xscan THEN NoAliases ELSE ln1Db
      /\ pfilter' = IF scan THEN Genesis ELSE None
      /\ iTxn' = 1 /\ scanning' = scan
      /\ stale' = (~xscan /\ (stale \/ pfilter # None))
  BY DEF Start
<1>2. disk' = disk /\ postponedFailed' = postponedFailed
  BY DEF Start, Restart
<1>3. b \in Blocks /\ Genesis \in Blocks /\ Genesis # None
  BY TreeAssumption DEF Inv, TypeOK, Database
<1>4. ASSUME ~stale', ~postponedFailed PROVE UpToDate(ln1Db', pfilter', 1, scan, b)
  <2>1. ~xscan => ln1Db' = AliasesOf[b]
    BY <1>1, <1>4 DEF ProgressInv, UpToDate
  <2>2. xscan => ln1Db' = NoAliases
    BY <1>1
  <2>3. CASE ~scan
    <3>1. ln1Db' = AliasesOf[b]
      BY <2>1, <2>2, <2>3, NoAliasesBelow
    <3>2. pfilter' = None
      BY <1>1, <2>3
    <3> QED BY <3>1, <3>2 DEF UpToDate
  <2>4. CASE scan
    <3>1. pfilter' = Genesis
      BY <1>1, <2>4
    <3>2. Len(vtx[Genesis]) \in Nat
      BY <1>3, TxAssumption
    <3>3. 1 - 1 = 0 /\ 0 \in 0 .. Len(vtx[Genesis])
      BY <3>2
    <3>4. Entered(Below(Genesis), Genesis)[0] = NoAliases
      BY <1>3, AtFirst DEF Below
    <3>5. ASSUME NEW a \in Aliases PROVE Matches(ln1Db', Genesis, 0, b, a)
      <4> DEFINE last == AliasesOf[b][a]
      <4>1. NoAliases[a] = None
        BY DEF NoAliases
      <4>2. last # None => nHeight[last.block] >= nHeight[Genesis]
        <5> SUFFICES ASSUME last # None PROVE nHeight[last.block] >= nHeight[Genesis]
          OBVIOUS
        <5> DEFINE f == last.block
        <5>1. f \in Blocks
          BY <1>3, AliasesType, AncClosed
        <5> HIDE DEF f, last
        <5>2. Genesis \in Anc[f] /\ nHeight[f] \in Nat /\ nHeight[Genesis] \in Nat
          BY <1>3, <5>1, AncSelf, TreeAssumption
        <5>3. Genesis # f => nHeight[Genesis] < nHeight[f]
          BY <5>1, <5>2, AncClosed
        <5>4. nHeight[f] >= nHeight[Genesis]
          BY <5>2, <5>3
        <5> QED BY <5>4 DEF f
      <4> HIDE DEF last, b
      <4>3. ln1Db'[a] = NoAliases[a] \/ ln1Db'[a] = last
        BY <2>1, <2>2 DEF last
      <4> QED BY <3>4, <4>1, <4>2, <4>3 DEF Matches, last
    <3> QED BY <1>3, <2>4, <3>1, <3>3, <3>5 DEF UpToDate
  <2> QED BY <2>3, <2>4
<1>5. scan => pfilter' # None
  BY <1>1, <1>3
<1> HIDE DEF scan
<1> QED BY <1>1, <1>2, <1>4, <1>5, ProgressFrame

LEMMA ProgressStep ==
    ASSUME RelaysSpend
    PROVE  Inv /\ IndexInv /\ LinksIndexed /\ EntriesInv /\ OrderInv /\ ProgressInv /\ [AliasNext]_aliasAll
              => ProgressInv'
<1> SUFFICES ASSUME Inv, IndexInv, LinksIndexed, EntriesInv, OrderInv, ProgressInv, [AliasNext]_aliasAll
             PROVE  ProgressInv'
  OBVIOUS
<1>1. CASE UNCHANGED aliasAll
  <2>1. /\ disk' = disk /\ postponedFailed' = postponedFailed /\ stale' = stale /\ scanning' = scanning
        /\ pfilter' = pfilter /\ iTxn' = iTxn /\ ln1Db' = ln1Db
    BY <1>1 DEF aliasAll, aliasVars, vars, db
  <2> QED BY <2>1, ProgressFrame DEF ProgressInv
<1>2. CASE AliasNext
  BY <1>2, ProgressTx, ProgressEnd, ProgressConnect, ProgressReorganize, ProgressChainStep, ProgressStart
     DEF AliasNext
<1> QED BY <1>1, <1>2

\* Unless a reorganisation or a crash has made it miss a block, the index of
\* aliases is the one that filter makes of the stored best chain from its first
\* block on (LocatorNodeDB::filter, called by SetBestChainInner after the commit
\* and by xsc): whatever the interleaving of connected blocks, reorganisations
\* that move no alias, restarts, and scans by -xscan on an empty index or by
\* -upgradewallet on a complete one.
THEOREM AliasIndexCorrect ==
    ASSUME ZeroValue = {}, RelaysSpend
    PROVE  AliasSpec => []AliasIndexOK
<1> DEFINE All == Inv /\ IndexInv /\ LinksIndexed /\ EntriesInv /\ OrderInv /\ ProgressInv
<1>1. AliasInit => All
  BY InitInv, InitIndex, LinksInit, EntriesInit, OrderInit, ProgressInit DEF AliasInit
<1>2. All /\ [AliasNext]_aliasAll => All'
  BY AliasStepIsChainStep, NextInv, NextIndex, LinksStep, EntriesStep, OrderStep, ProgressStep
<1>3. All => AliasIndexOK
  BY DEF ProgressInv, UpToDate, AliasIndexOK
<1> QED
  BY <1>1, <1>2, <1>3, PTL DEF AliasSpec
=============================================================================

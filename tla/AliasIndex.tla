----------------------------- MODULE AliasIndex -----------------------------
(***************************************************************************)
(* The index of public aliases (ln1Db, aliascache.dat), on top of the      *)
(* block chain of ChainState.  It is a Berkeley database of its own:       *)
(* SetBestChainInner writes it after the commit of the block, one write    *)
(* per transaction, Reorganize does not write it at all, and a start with  *)
(* -xscan or -upgradewallet goes through the chain again.                  *)
(*                                                                         *)
(* Every step of the chain is a step of ChainState.                        *)
(***************************************************************************)
EXTENDS ChainState

CONSTANTS
    Aliases,
    Op,                 \* "set" (OP_ALIAS_SET), "relay" (OP_ALIAS_RELAY) or "none"
    AliasOf,            \* the alias a transaction sets or relays
    scaleMonitor,       \* blocks until an alias expires
    nScanHeight,        \* where xsc begins to look
    WORD                \* 2^32: heights are subtracted as unsigned int

AliasTxs(b) == {t \in TxsOf(b) : Op[t] # "none"}

ASSUME AliasAssumption ==
    /\ Op \in [Tx -> {"set", "relay", "none"}]
    /\ AliasOf \in [Tx -> Aliases]
    /\ scaleMonitor \in Nat /\ nScanHeight \in Nat /\ WORD \in Nat
    /\ \A b \in Blocks : nHeight[b] + scaleMonitor < WORD
    /\ \A b \in Blocks : nHeight[b] < nScanHeight => AliasTxs(b) = {}
    /\ AliasTxs(Genesis) = {}
    /\ None \notin [block : Blocks, tx : Tx]

\* A relay spends an output of a transaction that set or relayed the same alias
\* ("updateAlias tx without previous update tx", "alias mismatch").  It is not
\* demanded of a coinstake, for which ConnectInputs does not call ConnectInputsPost,
\* and not refused if only the version of what it spends is not that of an alias
\* transaction; the index agrees with the chain in the absence of such relays.
RelaysSpend ==
    \A t \in Tx : Op[t] = "relay" =>
        \E o \in vin[t] : Op[o[1]] # "none" /\ AliasOf[o[1]] = AliasOf[t]

VARIABLES
    ln1Db,              \* alias -> its only entry, or None
    pfilter, iTxn,      \* where filter is: the block, the transaction in it
    scanning,           \* xsc runs: filter goes on with the next block
    stale               \* history: the index has missed something since it was built

aliasVars == <<ln1Db, pfilter, iTxn, scanning, stale>>
aliasAll  == <<vars, aliasVars>>

NoAliases == [a \in Aliases |-> None]

-----------------------------------------------------------------------------
(* LocatorNodeDB::filter.                                                  *)

\* p__->nHeight - t.nHeight.
Age(b, c) == (nHeight[b] - nHeight[c]) % WORD

\* Mutant: an alias that has not expired can be set again.
SetAnyway(d, b, t) ==
    LET old == d[AliasOf[t]]
    IN  /\ disk.txPos[t] # None
        /\ \/ Op[t] = "set"
           \/ Op[t] = "relay" /\ old # None

\* t, in block b, takes the place of what d has for its alias.
Indexed(d, b, t) ==
    LET old == d[AliasOf[t]]
    IN  /\ disk.txPos[t] # None
        /\ \/ Op[t] = "set" /\ (old # None => Age(b, old.block) >= scaleMonitor)
           \/ Op[t] = "relay" /\ old # None

lPut(d, b, t) == [d EXCEPT ![AliasOf[t]] = [block |-> b, tx |-> t]]

\* One transaction.
FilterTx ==
    LET t == vtx[pfilter][iTxn]
    IN  /\ pfilter # None
        /\ iTxn <= Len(vtx[pfilter])
        /\ ln1Db' = IF Indexed(ln1Db, pfilter, t) THEN lPut(ln1Db, pfilter, t) ELSE ln1Db
        /\ iTxn' = iTxn + 1
        /\ UNCHANGED <<vars, pfilter, scanning, stale>>

\* The end of the block: SetBestChainInner returns, xsc follows pnext and passes
\* over the blocks below nScanHeight.
FilterEnd ==
    LET next == pnext[pfilter]
    IN  /\ pfilter # None
        /\ iTxn > Len(vtx[pfilter])
        /\ pfilter' = IF scanning THEN next ELSE None
        /\ scanning' = (scanning /\ next # None)
        /\ iTxn' = IF scanning /\ next # None /\ nHeight[next] < nScanHeight
                   THEN Len(vtx[next]) + 1 ELSE 1
        /\ UNCHANGED <<vars, ln1Db, stale>>

-----------------------------------------------------------------------------
(* The chain.                                                              *)

\* SetBestChainInner ends with filter, after the commit.
ConnectAndFilter ==
    /\ \/ ExtendBest /\ pfilter' = pblock
       \/ ConnectPostponed /\ pfilter' = NextTowards(cursor, pblock)
    /\ iTxn' = 1
    /\ UNCHANGED <<ln1Db, scanning, stale>>

\* Reorganize neither takes back the aliases of the blocks it disconnects nor
\* enters those of the blocks it connects.
ReorganizeAliases ==
    /\ CommitReorganize
    /\ stale' = \/ stale
                \/ \E b \in Branch(cursor, pindexBest) \cup Branch(pindexBest, cursor) : AliasTxs(b) # {}
    /\ UNCHANGED <<ln1Db, pfilter, iTxn, scanning>>

AliasChainStep ==
    /\ \/ \E b \in Blocks : HoldOrphan(b) \/ ProcessBlock(b) \/ ProcessOrphan(b) \/ DropBlock(b)
       \/ NextInQueue
       \/ ExtendBestFails
       \/ BeginReorganize \/ ReorganizeDisconnect \/ ReorganizeConnect \/ ReorganizeFails
       \/ NewBestBlock
    /\ UNCHANGED aliasVars

\* Mutant: -xscan scans on top of the old index.
StartOnOld(xscan, upgradewallet) ==
    LET scan == (xscan \/ upgradewallet) /\ disk.hashBestChain # Genesis
    IN  /\ Restart
        /\ ln1Db' = ln1Db
        /\ pfilter' = IF scan THEN Genesis ELSE None
        /\ iTxn' = 1
        /\ scanning' = scan
        /\ stale' = (~xscan /\ (stale \/ pfilter # None))

\* A start.  -xscan begins with an empty index; -xscan and -upgradewallet scan
\* the chain unless it is the genesis block alone.
Start(xscan, upgradewallet) ==
    LET scan == (xscan \/ upgradewallet) /\ disk.hashBestChain # Genesis
    IN  /\ Restart
        /\ ln1Db' = IF xscan THEN NoAliases ELSE ln1Db
        /\ pfilter' = IF scan THEN Genesis ELSE None
        /\ iTxn' = 1
        /\ scanning' = scan
        /\ stale' = (~xscan /\ (stale \/ pfilter # None))

AliasInit ==
    /\ Init
    /\ ln1Db = NoAliases
    /\ pfilter = None /\ iTxn = 1 /\ scanning = FALSE
    /\ stale = FALSE

AliasNext ==
    \/ FilterTx \/ FilterEnd
    \/ pfilter = None /\ (ConnectAndFilter \/ ReorganizeAliases \/ AliasChainStep)
    \/ \E xscan, upgradewallet \in BOOLEAN : Start(xscan, upgradewallet)

AliasSpec == AliasInit /\ [][AliasNext]_aliasAll

-----------------------------------------------------------------------------
(* Properties.                                                             *)

\* What t, in block b, makes of the aliases d: a set alias belongs to the
\* transaction that set it until it is relayed, or set again after it expired.
Enter(d, b, t) ==
    LET old == d[AliasOf[t]]
    IN  CASE Op[t] = "set" /\ (old = None \/ nHeight[old.block] + scaleMonitor <= nHeight[b]) ->
                lPut(d, b, t)
          [] Op[t] = "relay" /\ old # None -> lPut(d, b, t)
          [] OTHER -> d

\* d after each of b's transactions.
Entered(d, b) ==
    LET upTo[i \in 0 .. Len(vtx[b])] == IF i = 0 THEN d ELSE Enter(upTo[i - 1], b, vtx[b][i])
    IN  upTo

\* The aliases of the chain that ends in a block.
AliasesOf[b \in Blocks] ==
    Entered(IF b = Genesis THEN NoAliases ELSE AliasesOf[Prev[b]], b)[Len(vtx[b])]

\* Unless a reorganisation or a crash has made it miss a block, the index has
\* exactly the aliases of the stored best chain; -xscan makes up for whatever was
\* missed ("Rescan the block chain for aliases", init.cpp), and a scan on top of
\* a complete index, by -upgradewallet, leaves it as it was although it begins
\* with entries from the future.
AliasIndexOK ==
    pfilter = None /\ ~stale /\ ~postponedFailed => ln1Db = AliasesOf[disk.hashBestChain]

\* What is in the index was once in a block, and only Reorganize and crashes leave
\* an entry there whose block is not in the best chain.
AliasEntriesOK ==
    \A a \in Aliases : ln1Db[a] # None =>
        /\ ln1Db[a].block \in mapBlockIndex
        /\ ln1Db[a].tx \in AliasTxs(ln1Db[a].block) /\ AliasOf[ln1Db[a].tx] = a
        /\ ~stale /\ ~postponedFailed => ln1Db[a].block \in Anc[disk.hashBestChain]
=============================================================================

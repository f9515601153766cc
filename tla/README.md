# Verification of I/O Coin DIONS

I/O Coin DIONS is a C++ proof-of-stake node: a descendant of Bitcoin, PPCoin and
Novacoin with a Namecoin-like alias service (DIONS) on top. This directory holds
TLA+ models of its core, TLC configurations that check them on small instances
and TLAPS proofs of what matters most. Paths below are relative to `src/src/`.

## 1. The system

| Component | State | Operations | Hard behaviour |
|---|---|---|---|
| Block chain (`main.cpp`, `txdb-leveldb.cpp`) | `mapBlockIndex` with `pnext` and trust, `pindexBest`, `setStakeSeen`; in LevelDB the block index, `hashBestChain` and the transaction index (`CTxIndex`: position and `vSpent`) | `ProcessBlock`, `AcceptBlock`, `AddToBlockIndex`, `SetBestChain`, `Reorganize`, `ConnectBlock`, `DisconnectBlock`, `LoadBlockIndex` | blocks in any order, reorganisations, several commits per block, crashes between them |
| Orphan blocks (`main.cpp`) | `mapOrphanBlocks`, `mapOrphanBlocksByPrev`, `setStakeSeenOrphan` | held and released by `ProcessBlock` | children before parents, duplicate stakes, a parent that fails half way |
| Stake kernel (`kernel.cpp`) | stake modifiers in the block index | `ComputeNextStakeModifier`, `CheckProofOfStake` | looks coins up in the current best chain |
| Memory pool (`main.cpp`) | `mapTx`, `mapNextTx`, orphan transactions | `AcceptToMemoryPool`, `remove`, `removeConflicts`, `LimitOrphanTxSize` | conflicts between pool and chain after a reorganisation |
| Aliases (`dions.cpp`, `db.cpp`) | `ln1Db`: history of every alias; `mapState`: pending operations | `ConnectInputsPost`, `LocatorNodeDB::filter`, `xsc`, the pool hooks | the index is written outside the block's batch and is not undone |
| Synchronised checkpoints (`checkpoints.cpp`) | `hashSyncCheckpoint`, `hashPendingCheckpoint`, the pending message | `ProcessSyncCheckpoint`, `AcceptPendingSyncCheckpoint`, `CheckSync` | forces a reorganisation; messages before blocks |
| Peers (`net.cpp`, `netbase.cpp`, `protocol.cpp`) | `vNodes`, reference counts, send and receive buffers, `mapAlreadyAskedFor`, bans | socket, connection and message threads | many threads, disconnects while in use |
| Address manager (`addrman.cpp`) | ids, new and tried buckets | `Add`, `Good`, `Attempt`, `Select`, `Connected` | reference counts between three structures at their limits |
| Wallet (`wallet.cpp`, `walletdb.cpp`, `crypter.cpp`, `keystore.cpp`) | keys, key pool, transactions with spent flags, lock state | key reservation, `AddToWallet`, `EncryptWallet`, coin selection | partial writes, locking while staking |
| Berkeley DB environment (`db.cpp`) | use counts, open handles, the flush thread | `Flush`, `CloseDb`, `Rewrite` | a rewrite while other threads hold the file |
| Miner (`miner.cpp`, `rpcmining.cpp`) | the block being built, the stake search interval | `CreateNewBlock`, `StakeMiner`, `CheckStake` | builds on a tip that moves |
| Alerts (`alert.cpp`) | `mapAlerts` | `ProcessAlert`, `CheckAndNotify` | cancellation and expiry in any order |
| Script, keys, hashes | none | pure functions | their verdict is an input of the models |
| RPC, Qt, IRC and Tor glue, start-up | presentation and I/O | | |
| LevelDB, JSON, quazip, `dvm/` | vendored, or not part of the build | | |

`cs_main` serialises everything that touches the chain; `cs_wallet`, `cs_vNodes`,
`mempool.cs` and the locks of the address manager nest inside it. `ProcessBlock`
calls into the pool (removal), the wallet (`SyncWithWallets`), the alias index
(`ln1Db->filter`) and the checkpoints (`AcceptPendingSyncCheckpoint`).

What makes each component correct is in the properties of section 3 and in the
hazards of `PROJECT.json`.

## 2. ChainState: the block chain of one node

`ChainState.tla` models `ProcessBlock` and everything below it that decides the
chain. The state variables carry the names of the code: `mapBlockIndex`, `pnext`,
`pindexBest`, `mapOrphanBlocks`, `setStakeSeen`, `setStakeSeenOrphan`,
`vWorkQueue`. `disk` is LevelDB, as one record (`blockindex`, `hashNext`,
`hashBestChain`, `txPos`, `vSpent`); `batch` is the WriteBatch between `TxnBegin`
and `TxnCommit`, through which `Reorganize` reads.

`cs_main` is held for the whole of `ProcessBlock`, so blocks are not processed
concurrently; but each LevelDB commit is a point at which the process may die.
One action is therefore the code from one commit to the next, and `pc` says where
`ProcessBlock` is:

| `pc` | Code | Actions that leave it |
|---|---|---|
| `idle` | between two calls | `ProcessBlock`, `HoldOrphan`, `DropBlock` |
| `setbest` | the index entry is committed, `SetBestChain` begins | `ExtendBest`, `ExtendBestFails`, `BeginReorganize` |
| `reorganize` | `Reorganize`, block by block in the batch | `ReorganizeDisconnect`, `ReorganizeConnect`, `ReorganizeFails`, `CommitReorganize` |
| `postponed` | the batch is committed, the rest of the branch is connected one commit at a time | `ConnectPostponed`, `NewBestBlock` |
| `orphans` | the work queue | `ProcessOrphan`, `NextInQueue` |

`Restart` is a crash in any of these states and the `LoadBlockIndex` that follows.
`postponedFailed` is a history variable: it becomes true when a postponed block
fails, after which the tip in memory is a block of an invalid chain and the database
ends below it (section 4, limits).

Blocks and transactions are model values. Their tree (`Prev`, `Anc`), heights and
trust, their transactions and inputs are constants. The verdicts that do not
depend on the transaction index are sets: a block outside `Blocks` fails
`CheckBlock`; `Rejected` fails the context rules of `AcceptBlock` (version, time,
target, hardened checkpoint); `BadBlocks` fails a rule of `ConnectBlock` on
scripts, sigops, fees or rewards. What does depend on the index is modelled in
full: existence, maturity and double spend of inputs inside and across blocks,
the overwrite rule, the exemption of outputs worth zero, and the lookup of the
stake's coin in the current best chain.

`TreeAssumption` and `TxAssumption` say that the constants form a tree along which
height and trust grow, and that inputs are outpoints. `CoinBaseAssumption` is what
the height rule of `AcceptBlock` gives: no coinbase in two blocks of different
heights.

Abstractions: disk and out-of-space errors are not modelled (only crashes);
`nBestInvalidTrust` and the warnings derived from it have no influence on the
chain; the block's time is not modelled, so `GetLastSyncCheckpoint`'s time filter is
not either. In `ChainState` no synchronised checkpoint is pending, so `CheckSync` is
satisfied and `AcceptPendingSyncCheckpoint` does nothing: `SyncCheckpoint` adds the
three places where `ProcessBlock` consults the checkpoints. What the same handlers do
to the pool and to the alias index is in the other modules of section 3, whose steps
contain a step of `ChainState`; what they do to the wallet is left to the plan.

## 3. The modules around the chain

### Mempool

`Mempool.tla` extends `ChainState` with the pool (`mapTx`, `mapNextTx`), the orphan
transactions (`mapOrphanTransactions`, `mapOrphanTransactionsByPrev`) and the locals
of the two loops that change them in several steps: `Reorganize`, which resurrects
and deletes transaction by transaction (`vResurrect`, `vDelete`), and the `tx`
handler, which works through the orphans that an accepted transaction releases
(`txQueue`, `iTx`, `children`, `vEraseQueue`).

| Action | Code |
|---|---|
| `ReceiveTx`, `TryOrphan`, `NextTx` | the `tx` message |
| `SubmitTx`, `rmtx` | a transaction of the wallet or of RPC; the operator's removal |
| `ExtendPool`, `ExtendPoolPostponed` | the end of `SetBestChainInner` |
| `ListDisconnected`, `ListConnected`, `AbandonReorganize` | `Reorganize` fills its lists |
| `Resurrect`, `DeleteConnected` | the end of `Reorganize` |
| `ChainStep`, `RestartPool` | everything else of the chain; a start with an empty pool |

Verdicts that depend on neither chain nor pool are sets: `NotRelayed` (standardness,
fees, size), `LargeTxs` (not kept as orphans). `FreeTxs` (the rate limiter) and
`AliasRelays` (`ConnectInputsPost` looks for what they relay in the alias database,
which is another module's) may be refused or not. `Removable` bounds what an operator
removes. The alias hooks of the pool are in `PendingAliases`.

### PendingAliases

`PendingAliases.tla` extends `Mempool` with `mapState`, the alias operations that wait
for a block. Every step is a step of `Mempool` and what its hooks do to the map:
`AcceptToMemoryPoolPost` when a transaction enters the pool, `RemoveFromMemoryPoolPost`
when one leaves it, `ConnectInputsPost` while a block is tried (`PendingConnect` when
the block connects; `PendingFails` when it does not, be it the only new block, a block
of `Reorganize` or a postponed one: the database is rolled back and the map is not).
`lost` is a history variable: the pool's operations that a hook refused or a tried block
took out. `MCPendingAliases` is at the same time the instance that checks the pool.

### Miner

`Miner.tla` adds a thread that is not under `cs_main` all the time: `ReadTip` reads
`pindexBest` without the lock (`miner.cpp:117`), `CollectTransactions` runs under it,
then the lock is released for the search, and `CheckStake` compares the block's parent
with `hashBestChain` before it hands the block in. The template is a set of pool
transactions closed under inputs; priorities, sizes and the coinstake itself are not
modelled.

### AliasIndex

`AliasIndex.tla` adds `ln1Db`, the database of public aliases, and the place where
`LocatorNodeDB::filter` is (`pfilter`, `iTxn`, `scanning`): the block is committed
first and the aliases are written afterwards, one transaction at a time, into another
database. `Reorganize` does not call `filter`, so aliases of disconnected blocks stay
and those of the blocks it connects itself are missing; the history variable `stale`
says that this, or a crash in the middle of `filter`, has happened. `Start` is a start
with or without `-xscan` (empty index, full scan) and `-upgradewallet` (scan on top of
the old index). An entry is abstracted to its block and transaction. `WORD` stands for
2^32, where the subtraction of heights wraps; `nScanHeight` is 1625000 on the main
net, and the assumption that no alias transaction lies below it is in
`AliasAssumption`.

### AddrMan

`AddrMan.tla` stands alone. `am` is the `CAddrMan` object, a record with the fields of
the class; positions in `vRandom` and in the tried buckets count from 1. Each public
method holds `cs`, so one action is one method: `AddNew` and `AddAgain` (`Add_`),
`Good` (`Good_`, `MakeTried`, `SelectTried`), `GetAddr` (`GetAddr_`), and `Restart`,
which writes and reads `peers.dat`. `mapAddr` is keyed by host and an entry holds a host
and a port, so that `Good_` of another port must change nothing. The bucket of an
address is a hash in the code and a constant here. Which entry a full new bucket
gives up depends on `nTime`, `nLastTry` and `nAttempts` and on chance: any may go.

`AddrBook.tla` is what the address manager promises its callers, without buckets, ids
or counts: a book of hosts, some only heard of (`new`) and some reached (`tried`). One
call costs at most one host that was only heard of, a host that was reached is given
up in two steps, first to the ones only heard of, and a start from the file that
was dumped at the end changes nothing. A crash starts from an older file: the tables it
reads are those of a restart after that dump, so the invariants cover them, but the step
back to them is in neither module.
`ImplementsBook` is that specification under the mapping of `AddrMan`'s tables to the
two sets.

### SyncCheckpoint

`SyncCheckpoint.tla` extends `ChainState` with the checkpoints that a master signs:
`hashSyncCheckpoint` and its copy on disk, `hashPendingCheckpoint`,
`hashInvalidCheckpoint`, and the place in the call that forces the best chain to a
checkpoint (`step`, `target`). `ProcessSyncCheckpoint` is the message;
`AcceptPendingSyncCheckpoint` runs at the end of every `AcceptBlock`, also of an
orphan (`BlockStep`); `AcceptBlockSync` refuses a block by `CheckSync` under
`-cppolicy=strict`; `ProcessBlockSync` and `HoldOrphanSync` let a duplicate stake
through when `WantedByPendingSyncCheckpoint` says so. `ForceExtend`,
`ForceReorganize` to `ForceCommit`, `ForcePostponed` and `ForceNewBest` are
`SetBestChain` to a block that may have less trust than the tip, with the same steps of
the batch and the same commits as in `ChainState`; `ForceFails` is its `TxnAbort`.
`WriteSyncCheckpoint` is a commit of its own. `SyncRestart` is a crash anywhere.

### Peers and Requests

`Peers.tla` is the life of a `CNode`: the socket thread (`DisconnectNodes`,
`AcceptConnection`, `CopyNodesS`, `ServiceSocket`, `ReleaseNodesS`), the message thread
(`CopyNodesM`, `HandleNode`, `Relayed`, `ReleaseNodesM`) and the threads that open
connections (`BeginOpen` to `SetOneShot`), cut at every point where a lock is given up.
`semOutbound` and `grantOutbound` are the permits of outbound connections. The locks that
the socket thread tries before it deletes a node are free or not, by choice.

`Requests.tla` is `mapAlreadyAskedFor`, which all peers share, and each peer's
`mapAskFor`: announcements, requests that are due, answers, late and repeated answers,
no answer, disconnection, and an orphan that is evicted and has to be asked for again.
Times are relative to now; `RETRY` stands for the two minutes of `AskFor`.

The two share no state, and neither do the two modules of the wallet, so one run
checks both: in `MCNetwork` and in `MCWallet` the variable `part` chooses at the start
which of the two a behaviour belongs to, and the other stays as it begins. Their
fairness is that of the chosen part.

Two openers may hold one node: the second finds it by its address and counts a reference
of its own. `UsersCover` says that the count covers all of them; it is the part of
`CountsOK` on which `NoDeleteInUse` rests, since the flag that the first opener sets lets
the socket thread release the node while the second is still at work.

### KeyPool and DBEnv

`KeyPool.tla` is `setKeyPool`, the `pool` records of the wallet's file and the keys
given out (`given`, a history variable). A key is its number in the order of creation, a
pool number is what the code calls an index. `EncryptWallet` and `NewKeyPool` are two
steps with a possible restart in between; `interrupted` remembers it. `TopUpKeyPool` is
`keypoolrefill`, of any size, and what a command that returns its key leaves behind.
Specification `KeyPoolSpec` is a node that stakes or does nothing; `MiningSpec` adds the
two operations of a proof-of-work miner, `CreateNewBlock` and `CheckWork` (finding 3).

`DBEnv.tla` is the Berkeley DB environment: `mapFileUseCount`, `mapDb`, the CDBs of
any number of threads, whose `Close` is two steps because it makes its checkpoint
without `cs_db`, the flush thread, `BackupWallet`, `Rewrite` with a crash between its
removal and its rename, `ln1Db`, which stays open for the life of the process, and
`Shutdown`. A file is abstracted to which keys it has (`all`, `new`, `part`), and
`logged` has the files that need the log to be read. `Rewrite` leaves the entry of the
CDB that copied the records in `mapFileUseCount`, with the count 0, and a new file that
is not self contained; its error returns, which need a failing disk, are left out.

### Alerts

`Alerts.tla` has several nodes, their `mapAlerts`, what each connection is known to
have seen (`setKnown`), and the alerts on the way. A connection comes about in the steps
of the code: `Connect` (`ConnectNode`) and `Accept` put each end in the other's `vNodes`,
the opener says its version at once and the other side when it has heard one
(`SaysVersion`), and `VersionMessage` sends what is in effect. In between, a node that
has accepted a connection relays alerts to a peer that throws them away, and puts them
in `setKnown` all the same: `dropped` is the history of these. Connections may be lost
with what is on the way, and nodes restart with an empty map. Which alert cancels which
follows from `nID`, `nCancel` and `setCancel` (`Names`).

Nothing is assumed of how the key is used: an alert may name any other, also the final
one. Agreement of neighbours is stated for an `Orderly` use of it, in which cancellation
is transitive and goes one way, and an alert is in effect as long as what it cancels and
relayed as long when that applies to the nodes. Without it two nodes that heard alerts
in different orders may differ, and the code has nothing against that. The proof of
`AlertsAgree` uses every one of these clauses. `FinalPrevails` is about any use of the
key: the final alert gives way only to a restart or to an alert that names the highest
ID (`Overrides`), which `ProcessAlert` accepts because it looks at `nID` alone.

## 4. Runs

| Run | Checks | Shows |
|---|---|---|
| `chain` | `TypeOK`, `TxIndexOK`, `LinksOK`, `TipsAgree`, `NoDoubleSpend`, `BestIsHeaviest`, `NoStrandedOrphan`, `BestTrustGrows`, `ConvergesUnlessRestarted` | the result does not depend on the order of arrival; a crash at any commit leaves a consistent database; a node that stays up reaches the heaviest valid chain |
| `chain_crash_live` | `Converges`, violated | finding 1 |
| `pool` | `PoolMapsOK`, `PoolIndexOK`, `PoolNotInChain`, `PendingOK`, `OrphansFollowParents` | pool, chain, orphan maps and pending aliases agree through reorganisations in both directions and blocks that fail |
| `pool_connects` | `PoolConnects`, violated | finding 2 |
| `miner` | `BlockConnects` | a block that is handed in connects to the tip it names |
| `alias_index` | `AliasIndexOK`, `AliasEntriesOK` | the index is the chain's unless something was missed, and `-xscan` repairs that |
| `addrman` | `CheckOK`, `BucketsBounded`, `FileOK`, `ImplementsBook` | what `Check_` tests under `DEBUG_ADDRMAN`, that `peers.dat` restores the tables, and that the tables implement `AddrBook` |
| `sync` | `DatabaseOK`, `CheckpointOnBest`, `PendingTakenUp`, `CheckpointAdvances`, `TrustDropsForCheckpoint`, `CheckpointTaken` | under `-cppolicy=strict` the stored chain contains the stored checkpoint at every commit, and the last checkpoint of a master that does not contradict itself is reached |
| `network` | `CountsOK`, `NoDeleteInUse`, `InboundDeleted`, `Obtained` | no node is deleted while a thread has counted a reference, disconnected inbound nodes go away, and what an honest peer announces and serves is obtained |
| `wallet` | `FilesWhole`, `PoolReadable`, `NoKeyReuse`, `NoUseAfterClose`, `UseCountsExact`, `LogKept`, `RetiredUnlessInterrupted` | no key is lost or handed out twice, no handle is closed in use, and what is still in the log is found before the log is removed |
| `keypool_mined` | `NoKeyReuse`, violated | finding 3 |
| `alerts` | `AlertsOK`, `FinalPrevails` | neighbours that have met have the same alerts in effect, but for what was relayed before the version; and the final alert gives way only to one that names its number |

`PoolMapsOK`, `PendingOK`, `CheckOK`, `DatabaseOK`, `CountsOK`, `FilesWhole` and
`AlertsOK` are conjunctions of named parts, mostly with the type invariant of the module
among them; each part has its own comment.

The instances and their bounds:

- `MCChainState` (its header comment draws the tree): eleven blocks, two branches
  below a common block, a third tip. It is the smallest tree we found in which all of
  this happens: a reorganisation in both directions, one with postponed blocks, one
  that fails while connecting, an invalid block with a child, a block that is invalid
  only because of its own branch (its coin is spent there), two blocks with the same
  stake on competing branches, a stake that can be looked up on one branch only,
  chains of orphans. `MaxRestarts` bounds crashes to one: `Restart` reloads what the
  disk has, so a second crash adds interleavings and no new mechanism.
  `BestIsHeaviest` and `ConvergesUnlessRestarted` are about behaviours without a crash
  (finding 1 says why), the others about all.
- `MCPendingAliases` has two branches of two and three blocks that take turns in being
  best and a block that fails; transactions that conflict across the branches, that
  spend each other, one with two inputs of different origin; two operations on one
  alias and one that sets another. The orphan limit is smaller than the number of
  orphans, so that eviction happens. `MCMiner` is a smaller tree of the same kind.
- `MCAliasIndex` has two branches of three blocks with set, relay, a second set of an
  alias that has not expired and one of an alias that just has. `MaxRestarts` is two:
  a crash and the start that scans for what it lost are two starts.
- `MCAddrMan` has four hosts for two new buckets of one entry and a tried bucket of
  two, small enough that an evicted entry finds its own bucket full and falls back to
  the one its successor left. The three hosts with a single port can be exchanged
  (symmetry). `MaxIds` (4) bounds the ids given out since a start, and a restart
  numbers anew; `MaxTime` is 1, since no property compares times of success.
- `MCSyncCheckpoint` has a heavier branch of four blocks and a lighter one of two, the
  same stake on both, and a block that is invalid on its own branch. Which blocks the
  master signs is chosen at the start: two on the lighter branch, or, contradicting
  itself, blocks of both. `CheckpointTaken` is about the first.
- `MCNetwork` has two nodes (model values that are used once and not again), two
  openers for one address, one of which finds the node that the other has made, and
  two permits; three peers, one of them honest, and one item, `RETRY` 1 and `MaxDelay`
  2, so that a request can be pushed back twice.
- `MCWallet` has a pool of two keys and `MaxKeys` 12, room for the encryption, the new
  pool and several rounds of use; two threads for two files, so that each can hold the
  file that the other wants to flush, back up or rewrite.
- `MCAlerts` has three nodes in a row: what the middle one relays to one neighbour can
  be cancelled by what comes from the other. Alert 2 cancels 1 by its number and the
  final alert 3 by `setCancel`; it is relayed until it expires only. Alert 4 is a forged
  final one. `MaxTime` 2, and one lost connection or restart (`MaxLosses` 1). Each of
  the exceptions of `NodesAgree` and `FinalPrevails` is met: without it TLC finds the
  property violated.

`IndexOf` and `ValidBlocks` (in `ChainState`) are the reference definition of the chain
runs: the transaction index of a chain, read off its blocks from the genesis block on
with no reorganisation, orphan or crash in between, and the blocks whose chain connects
against it block by block. `BestIsHeaviest`, `NoStrandedOrphan` and `PendingTakenUp` are
about those blocks. Like the invariants on memory and disk they are stated up to a
postponed block that fails (`~postponedFailed`, below): after it the index on disk is of
a shorter chain than the tip in memory, and a block is judged against the wrong one.

Fairness:

- `FairSpec`: `SetBestChain` and the work queue are weakly fair, because they are
  straight-line code inside one call; delivery is weakly fair as a whole: as long as
  there is a block that the node would take and does not have, some such block
  arrives. `HoldOrphan` asks the peer for the missing blocks (`PushGetBlocks`,
  `AskFor`) and peers announce their inventory, so this is what the code relies on. No
  order and no particular block is promised.
- `SyncFairSpec`: the same, the steps of the call that forces the best chain, and the
  checkpoint message, which every peer sends again on each connection.
- `NetworkSpec`: the loops of the socket and of the message thread; time,
  `SendMessages`, and the answers of the honest peer. The openers are not fair: a
  connection may take for ever.
No fairness is assumed of the wallet, the alerts, the pool, the aliases or the addresses:
what is checked of them is safety.

Findings:

1. A crash after `AddToBlockIndex` has committed the index entry and before
   `SetBestChain` has committed leaves a heavier block indexed and not connected.
   `LoadBlockIndex` does not compare trust and peers' copies of the block are
   dropped as known, so the node stays behind until a descendant arrives.
2. `Reorganize` ignores that a resurrected transaction is refused; a pool transaction
   that spends it stays without its input, of which the miner says that it "should never
   happen".
3. `CreateNewBlock` pays a proof-of-work block to a key that goes back to the pool when
   the function returns; `CheckWork`'s "Remove key from key pool" acts on another
   reservation, so the key is handed out again.

Limits the models show, which have no run of their own:

- A postponed block that fails leaves an invalid tip in memory (`main.cpp:2193`); it
  takes finding 1's crash, then an invalid child of the stranded block. The invariants
  that relate memory and disk are stated up to that point (`~postponedFailed`).
- An output worth zero may be spent again (`main.cpp:1749`), after which a
  reorganisation leaves a spent output unmarked; the instances have no such output.
- `SelectTried` remembers the position from which it has just swapped the oldest
  element away, so another one is evicted (`addrman.cpp:142`); `ImplementsBook` holds
  whichever goes.
- A block that fails drops the alias operations in it from `mapState`
  (`dions.cpp:6965`): `lost`. So does a postponed block that fails.
- The relay of a checkpoint walks `vNodes` under the lock of the checkpoints only
  (`checkpoints.cpp:197`), and an opener uses the node it has made after its only
  reference may be gone (`net.cpp:1382`); `NoDeleteInUse` is about references that are
  counted. A node disconnected while it is being opened keeps its permit
  (`net.cpp:1379`), so `InboundDeleted` is about inbound nodes.
- The retries for one item may be closer than two minutes, after an answer has erased
  its time (`main.cpp:4224`).
- After an interrupted encryption the old keys are handed out (`wallet.cpp:590`).
- Once `ln1Db` is open, from `init.cpp:874` on, the flush thread never flushes
  (`wallet.cpp:92`; `doc/coding.txt:87` says that it closes the file "if it hasn't been
  used"). Start-up comes there straight from `LoadWallet`, which starts the thread, so
  no property says that the thread does its work. What makes the wallet self contained
  is a backup, the rewrite or `Shutdown`.
- With an empty pool a locked wallet gives out its default key again, where the caller
  allows reuse or holds a `CReserveKey` (`wallet.cpp:2723`, `wallet.cpp:2954`);
  `NoKeyReuse` is about the keys of the pool.
- The `wallet` run has no proof-of-work miner, which finding 3 is about:
  `RetiredUnlessInterrupted` says nothing of a block template that outlives the
  encryption.
- An alert that a node relays before it has heard its peer's version is lost to that
  peer on this connection (`main.cpp:3446`, `alert.cpp:136`).

Other hazards of the code, without a model or a property: conflicts that connecting a
block leaves in the pool (`main.cpp:2124`), `op` used uninitialised in `filter`
(`db.cpp:602`), fees for the target read from the current best chain
(`main.cpp:2552`), maturity judged at the old tip when a transaction is resurrected
(`main.cpp:2091`), static destructors against running threads at exit
(`init.cpp:107`), entries of `mapAlreadyAskedFor` that nobody erases
(`main.cpp:3750`).

## 5. Proofs

Eight modules hold theorems. Unless said otherwise a theorem holds for every value of the
constants that satisfies the named assumptions of the model, for any number of crashes.

| Module | Theorem | States | Hypothesis |
|---|---|---|---|
| `ChainState_proofs` | `TypeCorrect` | `TypeOK`, `IndexOK`, `ControlOK` | |
| | `TrustGrows` | `BestTrustGrows` | |
| | `IndexCorrect` | `TxIndexOK`, `NoDoubleSpend`, `LinksOK`, `TipsAgree` | `ZeroValue = {}` |
| | `ChainChosen` | `BestIsHeaviest`, `NoStrandedOrphan` | `ZeroValue = {}` |
| `Mempool_proofs` | `PoolImplementsChain` | `PoolSpec => Spec` | |
| | `PoolCorrect` | `PoolIndexOK`, `PoolNotInChain` | |
| | `PoolMapsCorrect` | `PoolMapsOK` | |
| | `OrphansFollow` | `OrphansFollowParents` | |
| | `PendingImplementsPool` | `PendingSpec => PoolSpec` | |
| | `PendingCorrect` | `PendingOK` | |
| | `MinerCorrect` | `BlockConnects` | |
| `AliasIndex_proofs` | `AliasImplementsChain` | `AliasSpec => Spec` | |
| | `AliasEntriesCorrect` | `AliasEntriesOK` | `ZeroValue = {}` |
| | `AliasIndexCorrect` | `AliasIndexOK` | `ZeroValue = {}`, `RelaysSpend` |
| `SyncCheckpoint_proofs` | `CheckpointsAdvance` | `CheckpointAdvances` | |
| | `TrustDrops` | `TrustDropsForCheckpoint` | |
| | `DatabaseCorrect` | `DatabaseOK` | `ZeroValue = {}` |
| | `CheckpointStaysOnBest` | `CheckpointOnBest` | `ZeroValue = {}`, `-cppolicy=strict` |
| | `PendingResolved` | `PendingTakenUp` | `ZeroValue = {}` |
| `Peers_proofs` | `CountsCorrect` | `CountsOK` | |
| | `DeletesUnused` | `NoDeleteInUse` | |
| `Wallet_proofs` | `KeysOnce` | `NoKeyReuse`, `PoolReadable` | |
| | `OldKeysRetired` | `RetiredUnlessInterrupted` | |
| | `HandlesSafe`, `CountsExact` | `NoUseAfterClose`, `UseCountsExact` | |
| | `LogTracked` | `LogKept` | |
| | `WalletWhole` | `FilesWhole` | |
| `Alerts_proofs` | `AlertsAgree` | `AlertsOK` | |
| | `FinalStays` | `FinalPrevails` | |
| `AddrMan_proofs` | `AddrCorrect` | `CheckOK` | |
| | `AddrBounded` | `BucketsBounded` | |
| | `FileCorrect` | `FileOK` | |
| | `AddrImplementsBook` | `AddrSpec => Book!BookSpec` | |

Three hypotheses are about constants of the model. `ZeroValue = {}`: no output is worth
nothing. It is needed: with an output worth nothing that two blocks of a branch spend,
disconnecting the later one unmarks what the earlier one has spent. Strict policy: with
another one `CheckSync` does not refuse blocks off the checkpoint's chain.
`RelaysSpend`: a relay spends an output of a transaction that set or relayed the same
alias. `ConnectInputsPost` demands it of the transactions of a block, except that
`ConnectInputs` does not call it for coinstakes and that it looks at the script of what
is spent and not at the version of the transaction. It is needed: a relay of an alias
that the chain does not have yet is ignored when its block is connected, and entered
when a scan comes to it and finds the entry of a later block. `MCAliasIndex` assumes it,
so that TLC evaluates it for the instance.

**Chain.** `TxIndexOK` is not inductive. While `Reorganize` works, the batch must
describe the chain the cursor has reached, otherwise nothing is known of what is
committed; connecting a block preserves the description only if the block's transactions
are not in the chain already, and disconnecting restores it only if no output is spent
twice. `ChainInv` adds those parts (`NoDuplicates`, `SpentOnce`, `LinksAre`) for disk
and batch. That a transaction is not in the chain twice rests on an argument over the
chain: a coinbase carries its height, and a later copy of any other transaction would
need its inputs to be spent a second time; a transaction whose outputs are all spent may
legitimately be overwritten, which the proof excludes by the first spender of its first
input. The tree induction this needs is done with a least-height argument instead of the
library's induction theorems.

`TrustGrows` needs `TrustInv`: the stored tip has no more trust than the block that the
commits have reached in memory, the cursor of the postponed connects or the best block;
a crash between two commits must not have left more on disk than that. `ChainChosen`
needs `ChoiceInv`: an indexed block that is valid has no more trust than the tip, except
the one that `SetBestChain` is trying, and an orphan of a valid block has that block in
the work queue or under trial. The step that could break it is a failure of `ExtendBest`
or `Reorganize`; there the lemmas show that the code refuses a block exactly if it is
not in `ValidBlocks`, because by `ChainInv` the index it is judged against is `IndexOf`
its parent.

**Pool.** `PoolSpec => Spec` and `PendingSpec => PoolSpec`: every step of a composed
specification is a step of the one below or leaves it alone, so what is proved of the
chain holds with the pool on top, and what is proved of the pool with the alias hooks.
`PoolInv` says what holds in the middle of `Reorganize`: a transaction that is in the
batch's index and not in the disk's is listed in `vDelete` (`BatchListed`), and whatever
is both in pool and chain after the commit is still to be deleted. `OrphansInv` and
`FollowInv` are the loops of the `tx` handler: an orphan of an accepted transaction is
still to be visited, to be erased, or lacks another input. `MinerInv` says that a
template stays good as long as the tip is the one it was collected for, which rests on
the trust of the tip only growing: the same tip later means that nothing has happened in
between.

**Aliases.** `AliasEntriesOK` says in which chain an entry's block is, which the links
(`pnext`) that a scan follows must give. `LinksIndexed` is that they stay inside the
block index, `FilterOK` that the block under the filter is in the stored best chain
unless something was missed; `EntriesInv` is `FilterOK` and the property.

`AliasIndexOK` compares the index with `AliasesOf`, a recursion over the chain and, in
each block, over its transactions (`Entered`). `EnteredSteps` and `AliasesStep` are that
the two recursions have the solution that their definitions name, from an argument over
sets of numbers and over the tree. `ProgressInv` says for each alias what the index has
while `filter` is at a transaction of a block (`Matches`): what the chain has up to
there, or, in a scan, what it has in the end. The second only if that entry is not below
the block under the filter and the chain has nothing for the alias so far, or the entry
is of this very block. Then a set finds an entry from a later height, whose age wraps
(`AgeAbove`), and replaces it, as it does on the chain; past the block of the last entry
nothing on the chain touches the alias (`EntryStays`), and at the end both agree. A
relay must find its alias on the chain whenever it finds one in the index:
`RelayFindsAlias`, from `OrderInv`, that what a transaction of the connected chain
spends comes before it. `SameAliases` is for a reorganisation: two chains that differ in
blocks without alias transactions have the same aliases.

**Checkpoints.** A node with checkpoints does not implement `Spec`: a checkpoint makes
the chain lighter. The invariants of the chain are therefore proved again for
`SyncSpec`, from the same lemmas on connecting and disconnecting (`SyncIndex`). `SInv`
relates the place in the forced call to its target, `SyncTrust` is `TrustInv` for both
kinds of call. `OnBest` says that a block that is being connected descends from the
checkpoint (the strict `CheckSync` gives it), and that the stored chain contains the
next checkpoint before that is written. `PendingInv`: a pending checkpoint whose block
is there and valid is the block of the call, or the one being taken up; its core is that
forcing a valid checkpoint does not fail (`ForceFailsInvalid`).

**Peers.** `PInv` adds to `CountsOK` that copies hold nodes that are not deleted
(`CopiesOK`), that openers hold outbound nodes (`HandsOK`) and that nobody knows a node
that is not made yet (`FreshOK`). `NoDeleteInUse` follows from it, since a node is
deleted with count zero only.

**Wallet.** `NoKeyReuse` alone is not inductive: `KInv` adds that a key in the file was
not given out, and that two pool numbers in the file never have the same key, which is
what erasing, overwriting and the reuse of numbers could break. `Retired` says that
unless the encryption was interrupted no key of before it is in the pool. `DInv` has the
types of the use counts, that a file with a count is in the map (`Counted`), and the two
properties; each needs the other, since a handle is closed only where the count is zero
and the count is exact only if no CDB is cut off. `LogKept` rests on the entry that a
rewrite leaves: a file that was written to keeps its entry until it is made self
contained. `FilesInv`: wherever a rewrite stops,
the records of the wallet are in one of the two files. `WalletParts` carries the
theorems about the two parts over to `WalletSpec`.

**Alerts.** `AInv` follows an alert across a connection. An alert is covered at a node
that has it or one that names it. `Clean`: no node has an alert together with one that
names it. `Greeted`: a node has relayed what it has to each peer whose version it has
heard. For orderly alerts, `Remembered`: what a node has passed on, or takes a peer to
know, is covered at the node itself as long as it is in effect; and `Told`: what a node
takes a peer to know is on its way there, covered there, or was relayed too early. An
alert entered later may end the order of the set, so the last two are implications from
the order of the alerts used so far (`OrderlyPart` is that a part of an orderly set is
orderly). `FinalStays` needs no order. A final alert names every other that the test lets
in (`FinalNames`), so by `Clean` it is alone; and one that erases it was not named by it,
and therefore is taken (`FinalReceive`).

**Address manager.** `AInv(a, x)` is the invariant of an object in the middle of a
method, with one reference of the entry `x` counted that is not in a bucket yet (between
`nRefCount++` and the insertion in `Add_`; `None` between methods). It says more than
`CheckOK` in two places: `vRandom` and `nRandomPos`, and `mapAddr` and the addresses of
the entries, are inverse to each other both ways, without which deleting an entry or
swapping two would leave a second place for an id. One lemma per piece of a method
carries it over: `SwapInv`, `CountedInv`, `ReleasedInv`, `RemovedInv`, `PlacedInv`,
`CreatedInv` for `Add_` and `ShrinkNew`; `AppendedInv`, `ReplacedInv` for `MakeTried`,
where the room in the bucket an evicted entry falls back to is that of the entry that
has just left it. The two shuffling loops are recursive functions; `CountUp`, a
least-number argument over a set, carries the invariant through their rounds.

The reload is a renumbering. `AscendingLists` shows that every finite set of ids can be
listed in order, by its ranks, and how many ids come before each; so `Serialize` writes
for every entry the position that `Unserialize` turns into its id (`OldId`,
`SerializeWrites`). `AllTriedKept` and `AllBucketsKept` show that nothing in the file is
given up: the limits that the reader applies are kept by the tables that were written.
The object that is read then has the same entries in the same buckets under ids that
`Numbering` relates one to one (`Renumbered`), from which both the invariant
(`RenumberedInv`) and the property (`RenumberedView`) follow. For the refinement the
lemmas say which ids a method adds, drops or moves (`Learnt`, `Less`, `Reached`), and
since no two entries have the same host that is what happens to the book. `BucketsFit`
bounds the book by number times size of the buckets.

Model-checked only: liveness (`ConvergesUnlessRestarted`, `CheckpointTaken`,
`InboundDeleted`, `Obtained`), which is out of the prover's reach.
Every safety invariant and action property that a passing run checks is a theorem.

## 6. Plan

1. Stake modifier, target and reward arithmetic as operators against reference
   definitions, in a module that is not proved about.
2. Wallet: spent flags, coin selection, `SyncWithWallets` on top of `ChainState`.
3. Peers: bans, `mruset` at its limit, framing; `getwork`.

## 7. Not modelled

Script evaluation, signatures and hashes are pure and enter as verdicts. Disk errors,
full disks and damaged files are not modelled, only crashes; with them go `Verify`,
`Salvage` and `Recover`. Message framing, sockets and name lookup are I/O. RPC, Qt,
IRC and Tor are presentation and I/O. The `.ts` files under `qt/locale` are
translation tables, not TypeScript: they have no behaviour; the implementation is the
C++ of `src/src/`. LevelDB, JSON, quazip and the hash functions are vendored; `dvm/`
is not part of the build. Each is listed with its reason in `PROJECT.json`.

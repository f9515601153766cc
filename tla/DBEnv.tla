------------------------------- MODULE DBEnv --------------------------------
(***************************************************************************)
(* The Berkeley DB environment (db.cpp, wallet.cpp, init.cpp).  A CDB      *)
(* shares the one handle of its file; mapFileUseCount has the number of    *)
(* CDBs of a file, and whoever closes the handle, to make the file self    *)
(* contained, has to find it zero.  Closers are ThreadFlushWalletDB, a     *)
(* backup, the rewrite of the wallet after its encryption and the two      *)
(* flushes of Shutdown.                                                    *)
(*                                                                         *)
(* cs_db is held for the whole of each of them and of the constructor of   *)
(* CDB, but not for its use nor for the first part of Close.  ln1Db is a   *)
(* CDB that lives from the start to the end of the process.                *)
(***************************************************************************)
EXTENDS Integers, FiniteSets

CONSTANTS
    Threads,            \* threads that use a CDB for some time
    Ln1,                \* the CDB ln1Db, which no thread owns
    Wallet, Aliases     \* wallet.dat and aliascache.dat

Users == Threads \cup {Ln1}
Files == {Wallet, Aliases}

ASSUME DBEnvAssumption == IsFiniteSet(Threads) /\ Ln1 \notin Threads /\ Wallet # Aliases

VARIABLES
    mapFileUseCount,    \* file -> CDBs of it, 0 also where the map has no entry
    inMap,              \* files that have an entry in mapFileUseCount
    mapDb,              \* files that have a handle in mapDb
    pc,                 \* CDB: "none", "open", or "closing" (pdb is NULL, the count not yet lower)
    strFile,            \* CDB -> its file
    dangling,           \* CDBs whose handle was closed under them
    logged,             \* files that are not self contained, but depend on the log
    updated,            \* nLastFlushed # nWalletDBUpdated
    fDbEnvInit,
    phase,              \* of Shutdown: "running", "flushed", "stopped"
    ln1Made,            \* start-up has come to ln1Db
    dat, copy,          \* what wallet.dat and wallet.dat.rewrite have of the keys
    rewritten,          \* EncryptWallet has been here
    backup              \* what the last backup has

useVars == <<mapFileUseCount, inMap, mapDb, pc, strFile, dangling>>
fileVars == <<dat, copy, rewritten, backup>>
dbVars == <<useVars, logged, updated, fDbEnvInit, phase, ln1Made, fileVars>>

UsersOf(f) == {u \in Users : pc[u] # "none" /\ strFile[u] = f}

DBEnvInit ==
    /\ mapFileUseCount = [f \in Files |-> 0] /\ inMap = {} /\ mapDb = {}
    /\ pc = [u \in Users |-> "none"] /\ strFile = [u \in Users |-> Wallet] /\ dangling = {}
    /\ logged = {} /\ updated = FALSE
    /\ fDbEnvInit = TRUE /\ phase = "running" /\ ln1Made = FALSE
    /\ dat = "all" /\ copy = "none" /\ rewritten = FALSE /\ backup = "none"

-----------------------------------------------------------------------------
(* CDB.                                                                    *)

\* The constructor.  Once the environment is closed it throws.
Construct(u, f) ==
    /\ pc[u] = "none" /\ fDbEnvInit
    /\ mapFileUseCount' = [mapFileUseCount EXCEPT ![f] = @ + 1]
    /\ inMap' = inMap \cup {f} /\ mapDb' = mapDb \cup {f}
    /\ pc' = [pc EXCEPT ![u] = "open"]
    /\ strFile' = [strFile EXCEPT ![u] = f]
    /\ UNCHANGED dangling

OpenCDB ==
    /\ \E t \in Threads, f \in Files : Construct(t, f)
    /\ UNCHANGED <<logged, updated, fDbEnvInit, phase, ln1Made, fileVars>>

\* The handle cannot be opened: the count is as before, but the entry stays.
OpenFails ==
    /\ fDbEnvInit
    /\ \E f \in Files \ mapDb : inMap' = inMap \cup {f}
    /\ UNCHANGED <<mapFileUseCount, mapDb, pc, strFile, dangling,
                   logged, updated, fDbEnvInit, phase, ln1Made, fileVars>>

\* A write.  Those of __wx__DB count as updates of the wallet, but not all of them:
\* WriteMinVersion, WriteVersion and the writes of accounts do not.
Write ==
    /\ \E u \in Users :
          /\ pc[u] = "open"
          /\ logged' = logged \cup {strFile[u]}
          /\ updated' \in {updated, updated \/ strFile[u] = Wallet}
    /\ UNCHANGED <<useVars, fDbEnvInit, phase, ln1Made, fileVars>>

\* Mutant: the count is lowered first.
LowerFirst(u) ==
    /\ pc[u] = "open"
    /\ mapFileUseCount' = [mapFileUseCount EXCEPT ![strFile[u]] = @ - 1]
    /\ pc' = [pc EXCEPT ![u] = "closing"]
    /\ dangling' = dangling \ {u}
    /\ UNCHANGED <<inMap, mapDb, strFile>>

\* The first part of Close, and its checkpoint, without a lock.
BeginClose(u) ==
    /\ pc[u] = "open"
    /\ pc' = [pc EXCEPT ![u] = "closing"]
    /\ dangling' = dangling \ {u}
    /\ UNCHANGED <<mapFileUseCount, inMap, mapDb, strFile>>

EndClose(u) ==
    /\ pc[u] = "closing"
    /\ mapFileUseCount' = [mapFileUseCount EXCEPT ![strFile[u]] = @ - 1]
    /\ pc' = [pc EXCEPT ![u] = "none"]
    /\ UNCHANGED <<inMap, mapDb, strFile, dangling>>

CloseCDB ==
    /\ \E t \in Threads : BeginClose(t) \/ EndClose(t)
    /\ UNCHANGED <<logged, updated, fDbEnvInit, phase, ln1Made, fileVars>>

-----------------------------------------------------------------------------
(* The closers.                                                            *)

\* The CDBs whose handle is closed with the files.
OpenOn(fs) == {u \in Users : pc[u] = "open" /\ strFile[u] \in fs}

\* CloseDb and CheckpointLSN of the files that are closed, and their entries erased.
Detach(fs) ==
    /\ mapDb' = mapDb \ fs
    /\ inMap' = inMap \ fs
    /\ mapFileUseCount' = [f \in Files |-> IF f \in fs THEN 0 ELSE mapFileUseCount[f]]
    /\ dangling' = dangling \cup OpenOn(fs)
    /\ logged' = logged \ fs
    /\ UNCHANGED <<pc, strFile>>

\* Nothing was written for two seconds, and no database is in use.
ThreadFlushWalletDB ==
    /\ phase = "running" /\ updated
    /\ \A f \in Files : mapFileUseCount[f] = 0
    /\ Wallet \in inMap
    /\ Detach({Wallet})
    /\ updated' = FALSE
    /\ UNCHANGED <<fDbEnvInit, phase, ln1Made, fileVars>>

\* A backup or a rewrite loops while fShutdown is not set and looks at the count
\* under cs_db.  It may have seen fShutdown before Shutdown's first flush; StopNode
\* gives it the time to get the lock.
MayLoop == phase # "stopped"

\* What is copied is the file as it then is.
BackupWallet ==
    /\ MayLoop
    /\ mapFileUseCount[Wallet] = 0
    /\ Detach({Wallet})
    /\ backup' = IF Wallet \in logged' THEN "part" ELSE dat
    /\ UNCHANGED <<updated, fDbEnvInit, phase, ln1Made, dat, copy, rewritten>>

\* The records of a file into which those of another are put that it does not have.
Merged(a, b) == IF "all" \in {a, b} THEN "all" ELSE a

\* Mutant: the entry of the copying CDB is erased with it.
RewriteErases ==
    /\ MayLoop /\ fDbEnvInit /\ ~rewritten
    /\ mapFileUseCount[Wallet] = 0
    /\ mapDb' = mapDb \ {Wallet} /\ dangling' = dangling \cup OpenOn({Wallet})
    /\ inMap' = inMap \ {Wallet} /\ logged' = logged \cup {Wallet}
    /\ rewritten' = TRUE
    /\ dat' = Merged(dat, copy) /\ copy' = "none"
    /\ UNCHANGED <<mapFileUseCount, pc, strFile, updated, fDbEnvInit, phase, ln1Made, backup>>

\* The end of EncryptWallet, which a wallet comes to once.  The file is copied, to a
\* copy that may be there already, and removed, and the copy is renamed.  The CDB of
\* the copying is closed again, but its entry stays, with the count 0, and the new
\* file has not been made self contained.  Errors of the disk are left out.
Rewrite ==
    /\ MayLoop /\ fDbEnvInit /\ ~rewritten
    /\ mapFileUseCount[Wallet] = 0
    /\ mapDb' = mapDb \ {Wallet} /\ dangling' = dangling \cup OpenOn({Wallet})
    /\ inMap' = inMap \cup {Wallet} /\ logged' = logged \cup {Wallet}
    /\ rewritten' = TRUE
    /\ dat' = Merged(dat, copy) /\ copy' = "none"
    /\ UNCHANGED <<mapFileUseCount, pc, strFile, updated, fDbEnvInit, phase, ln1Made, backup>>

\* Mutant: the file is removed before the copy is complete.
RewriteInterruptedEarly ==
    \/ dat' = "new" /\ copy' = Merged("part", copy) /\ rewritten' = FALSE
    \/ dat' = "new" /\ copy' = Merged(dat, copy) /\ rewritten' = FALSE

\* The process ends in the middle of it: while the file is copied, or between its
\* removal and the renaming of the copy.  The next start then makes a new wallet.
RewriteInterrupted ==
    \/ dat' = dat /\ copy' = Merged("part", copy) /\ rewritten' = TRUE
    \/ dat' = "new" /\ copy' = Merged(dat, copy) /\ rewritten' = FALSE

\* The process ends, and the next start runs the log into the files.
RestartEnv ==
    /\ mapFileUseCount' = [f \in Files |-> 0] /\ inMap' = {} /\ mapDb' = {}
    /\ pc' = [u \in Users |-> "none"] /\ dangling' = {}
    /\ logged' = {} /\ updated' = FALSE
    /\ fDbEnvInit' = TRUE /\ phase' = "running" /\ ln1Made' = FALSE
    /\ \/ UNCHANGED <<dat, copy, rewritten>>
       \/ /\ MayLoop /\ ~rewritten
          /\ mapFileUseCount[Wallet] = 0
          /\ RewriteInterrupted
    /\ UNCHANGED <<strFile, backup>>

-----------------------------------------------------------------------------
(* Start-up and Shutdown.                                                  *)

\* Start-up makes ln1Db.
MakeLn1Db ==
    /\ phase = "running" /\ ~ln1Made
    /\ Construct(Ln1, Aliases)
    /\ ln1Made' = TRUE
    /\ UNCHANGED <<logged, updated, fDbEnvInit, phase, fileVars>>

\* Mutant: the files in use are closed as well.
FlushAll(ph, next) ==
    /\ phase = ph /\ phase' = next
    /\ Detach(inMap)
    /\ fDbEnvInit' = fDbEnvInit
    /\ UNCHANGED <<updated, ln1Made, fileVars>>

\* Flush(fShutdown).  The second one closes the environment when no file is left.
Flush(ph, next) ==
    /\ phase = ph /\ phase' = next
    /\ Detach({f \in inMap : mapFileUseCount[f] = 0})
    /\ fDbEnvInit' = (fDbEnvInit /\ ~(next = "stopped" /\ inMap' = {}))
    /\ UNCHANGED <<updated, ln1Made, fileVars>>

\* Shutdown flushes, gives the threads 20 seconds (StopNode), flushes again and
\* deletes ln1Db, if start-up got that far.
Shutdown ==
    \/ Flush("running", "flushed")
    \/ Flush("flushed", "stopped")
    \/ /\ phase = "stopped"
       /\ BeginClose(Ln1)
       /\ UNCHANGED <<logged, updated, fDbEnvInit, phase, ln1Made, fileVars>>
    \/ /\ phase = "stopped"
       /\ EndClose(Ln1)
       /\ UNCHANGED <<logged, updated, fDbEnvInit, phase, ln1Made, fileVars>>

DBEnvNext ==
    \/ OpenCDB \/ OpenFails \/ Write \/ CloseCDB
    \/ ThreadFlushWalletDB \/ BackupWallet \/ Rewrite
    \/ RestartEnv \/ MakeLn1Db \/ Shutdown

DBEnvSpec == DBEnvInit /\ [][DBEnvNext]_dbVars

-----------------------------------------------------------------------------
(* Properties.                                                             *)

\* Types of the maps, of the CDBs and of the files.
DBEnvTypeOK ==
    /\ mapFileUseCount \in [Files -> Nat] /\ inMap \subseteq Files /\ mapDb \subseteq Files
    /\ pc \in [Users -> {"none", "open", "closing"}] /\ strFile \in [Users -> Files]
    /\ dangling \subseteq Users /\ logged \subseteq Files
    /\ phase \in {"running", "flushed", "stopped"}
    /\ dat \in {"all", "new"} /\ copy \in {"none", "part", "new", "all"}
    /\ backup \in {"none", "all", "new", "part"}
    /\ {updated, fDbEnvInit, ln1Made, rewritten} \subseteq BOOLEAN

\* No CDB is left with a handle that a flush, a backup, a rewrite or Shutdown has
\* closed, nor with an environment that Shutdown has closed.
NoUseAfterClose ==
    /\ dangling = {}
    /\ \A u \in Users : pc[u] # "none" => fDbEnvInit

\* mapFileUseCount is the number of CDBs of the file, those included that Close
\* has not taken off it yet, so that a file whose count is zero is nobody's.
UseCountsExact == \A f \in Files : mapFileUseCount[f] = Cardinality(UsersOf(f))

\* A backup has everything that was written to the wallet: the manual's "Safely
\* copies".
BackupWhole == backup # "part"

\* Wherever the rewrite of the wallet is interrupted, one file has all keys.
KeysOnDisk == dat = "all" \/ copy = "all"

\* The flush thread and Shutdown find the files to flush in mapFileUseCount, whose
\* entries backups, rewrites and flushes erase: no file that depends on the log is
\* without an entry, and the log is archived away (Flush) when no file depends on it.
LogKept == logged \subseteq inMap /\ (~fDbEnvInit => logged = {})
=============================================================================

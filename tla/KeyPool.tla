------------------------------ MODULE KeyPool -------------------------------
(***************************************************************************)
(* The key pool of the wallet (wallet.cpp): keys that are made in advance, *)
(* numbered, entered in wallet.dat, and handed out once.  setKeyPool, in   *)
(* memory, has the numbers; the process may end at any point and is then   *)
(* started again from the file.                                            *)
(*                                                                         *)
(* A command holds cs_wallet from the reservation of a key until it keeps  *)
(* or returns it.  One that returns the key, such as a payment that comes  *)
(* to nothing, leaves behind what TopUpKeyPool does.  Keys are numbered in *)
(* the order in which they are made.                                       *)
(***************************************************************************)
EXTENDS Integers, FiniteSets

CONSTANTS
    nKeyPool,           \* -keypool
    MaxKeys             \* bound of the model: keys that are ever made

ASSUME KeyPoolAssumption == nKeyPool \in Nat /\ MaxKeys \in Nat

VARIABLES
    setKeyPool,         \* numbers of the keys in the pool
    pool,               \* wallet.dat: number -> key, or 0
    nKeys,              \* keys made so far
    fCrypted, fLocked,  \* the wallet is encrypted (on disk); its keys are locked
    fEncrypting,        \* EncryptWallet has committed, and NewKeyPool is next
    pblock,             \* the key a block template pays to, or 0
    given,              \* history: how often a key was handed out
    old,                \* history: keys that were made before the encryption
    interrupted         \* history: EncryptWallet did not come to its end

keyVars == <<setKeyPool, pool, nKeys, fCrypted, fLocked, fEncrypting, pblock, given, old, interrupted>>

Keys == 1 .. MaxKeys

KeyPoolInit ==
    /\ setKeyPool = {} /\ pool = [i \in Keys |-> 0] /\ nKeys = 0
    /\ fCrypted = FALSE /\ fLocked = FALSE /\ fEncrypting = FALSE
    /\ pblock = 0
    /\ given = [k \in Keys |-> 0] /\ old = {} /\ interrupted = FALSE

-----------------------------------------------------------------------------
\* The number after the last one.
nEnd(first) ==
    IF setKeyPool = {} THEN first = 1 ELSE first - 1 \in setKeyPool /\ \A j \in setKeyPool : j < first

\* The pool with n new keys from a number on.
WithNew(first, n) ==
    [set  |-> setKeyPool \cup (first .. first + n - 1),
     pool |-> [i \in Keys |-> IF i \in first .. first + n - 1 THEN nKeys + 1 + i - first ELSE pool[i]],
     n    |-> nKeys + n]

\* TopUpKeyPool, when the wallet is not locked: new keys are entered until there
\* is one more than the size asked for.
ToppedUp(first, size) ==
    WithNew(first, IF fLocked \/ Cardinality(setKeyPool) > size THEN 0
                   ELSE size + 1 - Cardinality(setKeyPool))

InBounds(p) == p.set \subseteq Keys /\ p.n <= MaxKeys

\* keypoolrefill, which may ask for any size, or a command that returns the key it
\* has reserved.
TopUpKeyPool ==
    \E first \in 1 .. MaxKeys + 1, size \in {nKeyPool} \cup Keys :
        LET p == ToppedUp(first, size)
        IN  /\ ~fEncrypting
            /\ nEnd(first) /\ InBounds(p)
            /\ setKeyPool' = p.set /\ pool' = p.pool /\ nKeys' = p.n
            /\ UNCHANGED <<fCrypted, fLocked, fEncrypting, pblock, given, old, interrupted>>

\* The lowest number of the pool.
IsOldest(i, p) == i \in p.set /\ \A j \in p.set : i <= j

\* Mutant: the key is not erased from the file.
KeepInFile ==
    \E first \in 1 .. MaxKeys + 1, i \in Keys :
        LET p == ToppedUp(first, nKeyPool)
        IN  /\ ~fEncrypting
            /\ nEnd(first) /\ InBounds(p)
            /\ IsOldest(i, p) /\ p.pool[i] # 0
            /\ setKeyPool' = p.set \ {i}
            /\ pool' = p.pool
            /\ nKeys' = p.n
            /\ given' = [given EXCEPT ![p.pool[i]] = @ + 1]
            /\ UNCHANGED <<fCrypted, fLocked, fEncrypting, pblock, old, interrupted>>

\* Mutant: the number stays in setKeyPool.
KeepInMemory ==
    \E first \in 1 .. MaxKeys + 1, i \in Keys :
        LET p == ToppedUp(first, nKeyPool)
        IN  /\ ~fEncrypting
            /\ nEnd(first) /\ InBounds(p)
            /\ IsOldest(i, p) /\ p.pool[i] # 0
            /\ setKeyPool' = p.set
            /\ pool' = [p.pool EXCEPT ![i] = 0]
            /\ nKeys' = p.n
            /\ given' = [given EXCEPT ![p.pool[i]] = @ + 1]
            /\ UNCHANGED <<fCrypted, fLocked, fEncrypting, pblock, old, interrupted>>

\* ReserveKeyFromKeyPool and KeepKey: getnewaddress, or a payment with change, which
\* keeps the key before it sends anything.  When the pool is empty, which only that
\* of a locked wallet can be, nothing changes: the caller gets no key or, if it
\* allows reuse, the default key again.
GetKeyFromPool ==
    \E first \in 1 .. MaxKeys + 1, i \in Keys :
        LET p == ToppedUp(first, nKeyPool)
        IN  /\ ~fEncrypting
            /\ nEnd(first) /\ InBounds(p)
            /\ IsOldest(i, p) /\ p.pool[i] # 0
            /\ setKeyPool' = p.set \ {i}
            /\ pool' = [p.pool EXCEPT ![i] = 0]
            /\ nKeys' = p.n
            /\ given' = [given EXCEPT ![p.pool[i]] = @ + 1]
            /\ UNCHANGED <<fCrypted, fLocked, fEncrypting, pblock, old, interrupted>>

\* CreateNewBlock for proof of work: its CReserveKey is local and returns the key
\* that the block pays to.
CreateNewBlock ==
    \E first \in 1 .. MaxKeys + 1, i \in Keys :
        LET p == ToppedUp(first, nKeyPool)
        IN  /\ ~fEncrypting
            /\ nEnd(first) /\ InBounds(p)
            /\ IsOldest(i, p) /\ p.pool[i] # 0
            /\ setKeyPool' = p.set
            /\ pool' = p.pool
            /\ nKeys' = p.n
            /\ pblock' = p.pool[i]
            /\ UNCHANGED <<fCrypted, fLocked, fEncrypting, given, old, interrupted>>

\* CheckWork: the block is sent.  The CReserveKey it keeps is another, empty one.
CheckWork ==
    /\ ~fEncrypting
    /\ pblock # 0
    /\ given' = [given EXCEPT ![pblock] = @ + 1]
    /\ pblock' = 0
    /\ UNCHANGED <<setKeyPool, pool, nKeys, fCrypted, fLocked, fEncrypting, old, interrupted>>

LockOrUnlock ==
    /\ fCrypted /\ ~fEncrypting
    /\ fLocked' = ~fLocked
    /\ UNCHANGED <<setKeyPool, pool, nKeys, fCrypted, fEncrypting, pblock, given, old, interrupted>>

\* EncryptWallet commits the encrypted keys.
EncryptWallet ==
    /\ ~fCrypted
    /\ fCrypted' = TRUE /\ fEncrypting' = TRUE
    /\ old' = 1 .. nKeys
    /\ UNCHANGED <<setKeyPool, pool, nKeys, fLocked, pblock, given, interrupted>>

\* Mutant: the entries of the old pool stay in the file.
NewKeyPoolOver ==
    /\ fEncrypting
    /\ nKeys + nKeyPool <= MaxKeys
    /\ setKeyPool' = 1 .. nKeyPool
    /\ pool' = [i \in Keys |-> IF i <= nKeyPool THEN nKeys + i ELSE pool[i]]
    /\ nKeys' = nKeys + nKeyPool
    /\ fLocked' = TRUE /\ fEncrypting' = FALSE
    /\ UNCHANGED <<fCrypted, pblock, given, old, interrupted>>

\* Then NewKeyPool erases the pool and makes a new one, and the wallet is locked.
NewKeyPool ==
    /\ fEncrypting
    /\ nKeys + nKeyPool <= MaxKeys
    /\ setKeyPool' = 1 .. nKeyPool
    /\ pool' = [i \in Keys |-> IF i <= nKeyPool THEN nKeys + i ELSE 0]
    /\ nKeys' = nKeys + nKeyPool
    /\ fLocked' = TRUE /\ fEncrypting' = FALSE
    /\ UNCHANGED <<fCrypted, pblock, given, old, interrupted>>

\* What LoadWallet finds.
Loaded(p) ==
    /\ pool' = p
    /\ setKeyPool' = {i \in Keys : p[i] # 0}
    /\ fLocked' = fCrypted /\ fEncrypting' = FALSE /\ pblock' = 0
    /\ UNCHANGED <<fCrypted, given, old>>

\* The process ends and starts again.  It may end before NewKeyPool, while it
\* erases, in the order of the numbers, or while it writes.
Restart ==
    \/ /\ Loaded(pool)
       /\ interrupted' = (interrupted \/ fEncrypting)
       /\ UNCHANGED nKeys
    \/ /\ fEncrypting
       /\ \E n \in Keys : Loaded([i \in Keys |-> IF i <= n THEN 0 ELSE pool[i]])
       /\ interrupted' = TRUE
       /\ UNCHANGED nKeys
    \/ /\ fEncrypting
       /\ \E n \in 0 .. nKeyPool :
             /\ nKeys + n <= MaxKeys
             /\ Loaded([i \in Keys |-> IF i <= n THEN nKeys + i ELSE 0])
             /\ nKeys' = nKeys + n
       /\ interrupted' = TRUE

KeyPoolNext ==
    \/ TopUpKeyPool \/ GetKeyFromPool \/ LockOrUnlock
    \/ EncryptWallet \/ NewKeyPool \/ Restart

KeyPoolSpec == KeyPoolInit /\ [][KeyPoolNext]_keyVars

\* With a miner for proof of work.
MiningSpec == KeyPoolInit /\ [][KeyPoolNext \/ CreateNewBlock \/ CheckWork]_keyVars

-----------------------------------------------------------------------------
(* Properties.                                                             *)

\* Types of the pool, its file and the history (setKeyPool, the "pool" records).
KeyPoolTypeOK ==
    /\ setKeyPool \subseteq Keys
    /\ pool \in [Keys -> 0 .. nKeys] /\ nKeys \in 0 .. MaxKeys
    /\ given \in [Keys -> Nat] /\ old \subseteq Keys
    /\ pblock \in 0 .. nKeys
    /\ {fCrypted, fLocked, fEncrypting, interrupted} \subseteq BOOLEAN

\* Every number in memory has its key in the file, whatever was erased, written
\* over or interrupted: ReserveKeyFromKeyPool throws otherwise.
PoolReadable == \A i \in setKeyPool : pool[i] # 0

\* No key is handed out twice, through restarts, encryption and the numbers that
\* are used again: "Take key pair from key pool so it won't be used again".
NoKeyReuse == \A k \in Keys : given[k] <= 1

\* After the encryption no key that was made before it is handed out, unless the
\* process ended in the middle of it.
RetiredUnlessInterrupted ==
    [][~interrupted => \A k \in old : given'[k] = given[k]]_keyVars
=============================================================================

--------------------------- MODULE Wallet_proofs ----------------------------
(***************************************************************************)
(* The key pool, for every size of it and every number of keys: every      *)
(* number in memory has its key, no key is handed out twice, and none that *)
(* is older than the encryption after it.  The database environment, for   *)
(* any number of threads: the use counts are exact, no handle and no       *)
(* environment is closed under a CDB, and no key is lost from the files.   *)
(***************************************************************************)
EXTENDS MCWallet, FiniteSetTheorems, TLAPS

-----------------------------------------------------------------------------
(* The key pool.                                                           *)

\* Types, without those of the flags.
PoolTypes ==
    /\ setKeyPool \subseteq Keys
    /\ nKeys \in 0 .. MaxKeys
    /\ pool \in [Keys -> 0 .. nKeys]
    /\ given \in [Keys -> Nat]

\* No key is in the file under two numbers.
Distinct == \A i, j \in Keys : pool[i] # 0 /\ pool[i] = pool[j] => i = j

\* What is in the file, and what is still to be made, was not handed out.
Unused ==
    /\ \A i \in Keys : pool[i] # 0 => given[pool[i]] = 0
    /\ \A k \in Keys : k > nKeys => given[k] = 0

KInv == PoolTypes /\ PoolReadable /\ Distinct /\ Unused /\ NoKeyReuse

LEMMA SizeType ==
    ASSUME setKeyPool \subseteq Keys
    PROVE  Cardinality(setKeyPool) \in Nat
<1>1. IsFiniteSet(Keys)
  <2>1. 1 \in Int /\ MaxKeys \in Int
    BY KeyPoolAssumption
  <2> QED
    BY <2>1, FS_Interval DEF Keys
<1>2. IsFiniteSet(setKeyPool)
  BY <1>1, FS_Subset
<1> QED
  BY <1>2, FS_CardinalityType

\* The invariant in a form the provers take well.
LEMMA KFacts ==
    ASSUME KInv
    PROVE  /\ nKeys \in Nat /\ nKeys <= MaxKeys /\ MaxKeys \in Nat /\ nKeyPool \in Nat
           /\ \A i \in Keys : pool[i] \in Nat /\ pool[i] <= nKeys /\ i \in Nat \ {0}
           /\ \A k \in Keys : k > nKeys => given[k] = 0
           /\ \A k \in Nat : 0 < k /\ k <= MaxKeys => k \in Keys
           /\ \A k \in Keys : given[k] \in Nat /\ k <= MaxKeys
<1>1. nKeys \in 0 .. MaxKeys /\ pool \in [Keys -> 0 .. nKeys] /\ given \in [Keys -> Nat]
  BY DEF KInv, PoolTypes
<1>2. nKeys \in Nat /\ nKeys <= MaxKeys
  BY <1>1, KeyPoolAssumption
<1>3. \A i \in Keys : pool[i] \in 0 .. nKeys
  BY <1>1
<1>4. \A k \in Keys : given[k] \in Nat
  BY <1>1
<1>5. Keys = 1 .. MaxKeys
  BY DEF Keys
<1>6. \A k \in Keys : k > nKeys => given[k] = 0
  BY DEF KInv, Unused
<1> QED
  BY <1>2, <1>3, <1>4, <1>5, <1>6, KeyPoolAssumption

\* What TopUpKeyPool makes of the pool is again a pool.
LEMMA TopUp ==
    ASSUME KInv, NEW first \in 1 .. MaxKeys + 1, NEW size \in Nat, InBounds(ToppedUp(first, size))
    PROVE  LET p == ToppedUp(first, size)
           IN  /\ p.n \in 0 .. MaxKeys /\ p.n >= nKeys
               /\ p.set \subseteq Keys
               /\ p.pool \in [Keys -> 0 .. p.n]
               /\ \A i \in p.set : p.pool[i] # 0
               /\ \A i, j \in Keys : p.pool[i] # 0 /\ p.pool[i] = p.pool[j] => i = j
               /\ \A i \in Keys : p.pool[i] # 0 => p.pool[i] \in Keys /\ given[p.pool[i]] = 0
               /\ \A i \in Keys : p.pool[i] = pool[i] \/ p.pool[i] > nKeys
<1>1. PICK n \in Nat : ToppedUp(first, size) = WithNew(first, n)
  BY SizeType, KeyPoolAssumption DEF ToppedUp, KInv, PoolTypes
<1> DEFINE p == WithNew(first, n)
<1>2. /\ p.n = nKeys + n
      /\ p.set = setKeyPool \cup (first .. first + n - 1)
      /\ p.pool = [i \in Keys |-> IF i \in first .. first + n - 1 THEN nKeys + 1 + i - first ELSE pool[i]]
  BY DEF WithNew
<1> HIDE DEF p
<1>3. p.set \subseteq Keys /\ p.n <= MaxKeys
  BY <1>1 DEF p, InBounds
<1>4. p.n \in 0 .. MaxKeys /\ p.n >= nKeys
  BY <1>2, <1>3, KeyPoolAssumption DEF KInv, PoolTypes
<1>5. \A i \in Keys : p.pool[i] \in 0 .. p.n
  BY <1>2, <1>4, KeyPoolAssumption DEF KInv, PoolTypes, Keys
<1>6. p.pool \in [Keys -> 0 .. p.n]
  BY <1>2, <1>5
<1>7. \A i \in p.set : p.pool[i] # 0
  <2>1. \A i \in setKeyPool : pool[i] # 0
    BY DEF KInv, PoolReadable
  <2>2. \A i \in Keys : p.pool[i] = IF i \in first .. first + n - 1 THEN nKeys + 1 + i - first ELSE pool[i]
    BY <1>2
  <2> SUFFICES ASSUME NEW i \in p.set PROVE p.pool[i] # 0
    OBVIOUS
  <2>3. i \in Keys /\ i \in Nat /\ nKeys \in Nat
    BY <1>3, KFacts
  <2>4. CASE i \in first .. first + n - 1
    BY <2>2, <2>3, <2>4
  <2>5. CASE i \notin first .. first + n - 1
    BY <1>2, <2>1, <2>2, <2>3, <2>5
  <2> QED
    BY <2>4, <2>5
<1>8. \A i, j \in Keys : p.pool[i] # 0 /\ p.pool[i] = p.pool[j] => i = j
  BY <1>2, KeyPoolAssumption DEF KInv, PoolTypes, Distinct, Keys
<1>9. \A i \in Keys : p.pool[i] # 0 => p.pool[i] \in Keys /\ given[p.pool[i]] = 0
  BY <1>2, <1>4, <1>5, KeyPoolAssumption DEF KInv, PoolTypes, Unused, Keys
<1>10. \A i \in Keys : p.pool[i] = pool[i] \/ p.pool[i] > nKeys
  <2>1. \A i \in Keys : p.pool[i] = IF i \in first .. first + n - 1 THEN nKeys + 1 + i - first ELSE pool[i]
    BY <1>2
  <2>2. first \in Nat
    BY KeyPoolAssumption
  <2> QED
    BY <2>1, <2>2, KFacts
<1> QED
  BY <1>1, <1>3, <1>4, <1>6, <1>7, <1>8, <1>9, <1>10 DEF p

LEMMA KInit == KeyPoolInit => KInv
BY KeyPoolAssumption
DEF KeyPoolInit, KInv, PoolTypes, PoolReadable, Distinct, Unused, NoKeyReuse, Keys

\* A restart, from whatever part of the old or of the new pool the file has.
LEMMA KLoaded ==
    ASSUME KInv, NEW p, Loaded(p), nKeys' \in 0 .. MaxKeys, nKeys' >= nKeys,
           p \in [Keys -> 0 .. nKeys'],
           \A i, j \in Keys : p[i] # 0 /\ p[i] = p[j] => i = j,
           \A i \in Keys : p[i] # 0 => p[i] = pool[i] \/ p[i] > nKeys
    PROVE  KInv'
<1>1. pool' = p /\ setKeyPool' = {i \in Keys : p[i] # 0} /\ given' = given
  BY DEF Loaded
<1>2. PoolTypes'
  BY <1>1 DEF KInv, PoolTypes, Keys
<1>3. PoolReadable' /\ Distinct' /\ NoKeyReuse'
  BY <1>1 DEF KInv, PoolReadable, Distinct, NoKeyReuse, Keys
<1>4. \A i \in Keys : p[i] \in 0 .. MaxKeys
  BY KFacts
<1>5. \A i \in Keys : p[i] # 0 => given[p[i]] = 0
  <2> SUFFICES ASSUME NEW i \in Keys, p[i] # 0 PROVE given[p[i]] = 0
    OBVIOUS
  <2>1. p[i] \in Keys
    BY <1>4, KFacts
  <2>2. CASE p[i] = pool[i]
    BY <2>2 DEF KInv, Unused
  <2>3. CASE p[i] > nKeys
    BY <2>1, <2>3, KFacts
  <2> QED
    BY <2>2, <2>3
<1>6. \A k \in Keys : k > nKeys' => given[k] = 0
  BY KFacts
<1> QED
  BY <1>1, <1>2, <1>3, <1>5, <1>6 DEF KInv, Unused, Keys

\* A file with n new keys and nothing else.
NewPool(n) == [i \in Keys |-> IF i <= n THEN nKeys + i ELSE 0]

LEMMA NewPoolOK ==
    ASSUME KInv, NEW n \in Nat, nKeys + n <= MaxKeys
    PROVE  /\ NewPool(n) \in [Keys -> 0 .. nKeys + n]
           /\ \A i, j \in Keys : NewPool(n)[i] # 0 /\ NewPool(n)[i] = NewPool(n)[j] => i = j
           /\ \A i \in Keys : NewPool(n)[i] # 0 => NewPool(n)[i] > nKeys
           /\ \A i \in 1 .. n : i \in Keys /\ NewPool(n)[i] # 0
<1>1. nKeys \in Nat /\ MaxKeys \in Nat
  BY KeyPoolAssumption DEF KInv, PoolTypes
<1>2. \A i \in Keys : NewPool(n)[i] = IF i <= n THEN nKeys + i ELSE 0
  BY DEF NewPool
<1>3. \A i \in Keys : NewPool(n)[i] \in 0 .. nKeys + n
  BY <1>1, <1>2 DEF Keys
<1>4. NewPool(n) \in [Keys -> 0 .. nKeys + n]
  BY <1>3 DEF NewPool
<1> QED
  BY <1>1, <1>2, <1>4 DEF Keys

LEMMA KStep == KInv /\ [KeyPoolNext]_keyVars => KInv'
<1> SUFFICES ASSUME KInv, [KeyPoolNext]_keyVars PROVE KInv'
  OBVIOUS
<1>1. CASE TopUpKeyPool
  <2>1. PICK first \in 1 .. MaxKeys + 1, size \in Nat :
           /\ InBounds(ToppedUp(first, size))
           /\ setKeyPool' = ToppedUp(first, size).set /\ pool' = ToppedUp(first, size).pool
           /\ nKeys' = ToppedUp(first, size).n /\ given' = given
    BY <1>1, KeyPoolAssumption DEF TopUpKeyPool, Keys
  <2> QED
    <3>1. /\ nKeys' \in 0 .. MaxKeys /\ nKeys' >= nKeys
          /\ setKeyPool' \subseteq Keys
          /\ pool' \in [Keys -> 0 .. nKeys']
          /\ \A i \in setKeyPool' : pool'[i] # 0
          /\ \A i, j \in Keys : pool'[i] # 0 /\ pool'[i] = pool'[j] => i = j
          /\ \A i \in Keys : pool'[i] # 0 => given[pool'[i]] = 0
      BY <2>1, TopUp
    <3>2. PoolTypes' /\ PoolReadable' /\ Distinct' /\ NoKeyReuse'
      BY <2>1, <3>1 DEF KInv, PoolTypes, PoolReadable, Distinct, NoKeyReuse, Keys
    <3>3. \A k \in Keys : k > nKeys' => given[k] = 0
      BY <3>1, KFacts
    <3> QED
      BY <2>1, <3>1, <3>2, <3>3 DEF KInv, Unused, Keys
<1>2. CASE GetKeyFromPool
  <2>1. PICK first \in 1 .. MaxKeys + 1, size \in Nat, i \in Keys :
           /\ InBounds(ToppedUp(first, size))
           /\ i \in ToppedUp(first, size).set /\ ToppedUp(first, size).pool[i] # 0
           /\ setKeyPool' = ToppedUp(first, size).set \ {i}
           /\ pool' = [ToppedUp(first, size).pool EXCEPT ![i] = 0]
           /\ nKeys' = ToppedUp(first, size).n
           /\ given' = [given EXCEPT ![ToppedUp(first, size).pool[i]] = @ + 1]
    BY <1>2, KeyPoolAssumption DEF GetKeyFromPool, IsOldest
  <2> DEFINE p == ToppedUp(first, size)
             k == p.pool[i]
  <2>2. /\ p.n \in 0 .. MaxKeys /\ p.n >= nKeys
        /\ p.set \subseteq Keys /\ p.pool \in [Keys -> 0 .. p.n]
        /\ \A j \in p.set : p.pool[j] # 0
        /\ \A j, l \in Keys : p.pool[j] # 0 /\ p.pool[j] = p.pool[l] => j = l
        /\ \A j \in Keys : p.pool[j] # 0 => p.pool[j] \in Keys /\ given[p.pool[j]] = 0
    BY <2>1, TopUp
  <2>3. k \in Keys /\ k <= p.n /\ given[k] = 0
    BY <2>1, <2>2
  <2> HIDE DEF p
  <2>4. PoolTypes'
    BY <2>1, <2>2, <2>3 DEF p, KInv, PoolTypes
  <2>5. PoolReadable' /\ Distinct'
    BY <2>1, <2>2 DEF p, PoolReadable, Distinct
  <2>6. /\ given' \in [Keys -> Nat] /\ given'[k] = 1
        /\ \A l \in Keys : l # k => given'[l] = given[l]
    BY <2>1, <2>3 DEF p, KInv, PoolTypes
  <2>7. NoKeyReuse'
    BY <2>6 DEF KInv, NoKeyReuse
  <2>8. \A j \in Keys : pool'[j] # 0 => given'[pool'[j]] = 0
    BY <2>1, <2>2, <2>6 DEF p
  <2>9. \A l \in Keys : l > nKeys' => given'[l] = 0
    <3>1. nKeys' \in Nat /\ nKeys' >= nKeys /\ k <= nKeys' /\ nKeys \in Nat
      BY <2>1, <2>2, <2>3, KFacts DEF p
    <3> SUFFICES ASSUME NEW l \in Keys, l > nKeys' PROVE given'[l] = 0
      OBVIOUS
    <3>2. l > nKeys /\ l # k
      BY <2>3, <3>1, KFacts
    <3> QED
      BY <2>6, <3>2, KFacts
  <2> QED
    BY <2>4, <2>5, <2>7, <2>8, <2>9 DEF KInv, Unused
<1>3. CASE NewKeyPool
  <2>1. /\ nKeys + nKeyPool <= MaxKeys
        /\ setKeyPool' = 1 .. nKeyPool /\ pool' = NewPool(nKeyPool)
        /\ nKeys' = nKeys + nKeyPool /\ given' = given
    BY <1>3 DEF NewKeyPool, NewPool
  <2>2. /\ pool' \in [Keys -> 0 .. nKeys']
        /\ \A i, j \in Keys : pool'[i] # 0 /\ pool'[i] = pool'[j] => i = j
        /\ \A i \in Keys : pool'[i] # 0 => pool'[i] > nKeys
        /\ \A i \in 1 .. nKeyPool : i \in Keys /\ pool'[i] # 0
    BY <2>1, NewPoolOK, KeyPoolAssumption
  <2>3. PoolTypes'
    BY <2>1, <2>2, KeyPoolAssumption DEF KInv, PoolTypes, Keys
  <2>4. PoolReadable' /\ Distinct'
    BY <2>1, <2>2 DEF PoolReadable, Distinct
  <2>5. \A k \in Keys : k > nKeys' => given'[k] = 0
    BY <2>1, KFacts
  <2>6. \A i \in Keys : pool'[i] # 0 => given'[pool'[i]] = 0
    <3> SUFFICES ASSUME NEW i \in Keys, pool'[i] # 0 PROVE given[pool'[i]] = 0
      BY <2>1
    <3>1. pool'[i] \in 0 .. nKeys' /\ pool'[i] > nKeys
      BY <2>2
    <3>2. pool'[i] \in Keys
      BY <2>1, <3>1, KFacts
    <3> QED
      BY <3>1, <3>2, KFacts
  <2> QED
    BY <2>1, <2>3, <2>4, <2>5, <2>6 DEF KInv, Unused, NoKeyReuse
<1>4. CASE Restart
  <2>1. CASE Loaded(pool) /\ UNCHANGED nKeys
    BY <2>1, KLoaded DEF KInv, PoolTypes, Distinct
  <2>2. CASE (\E n \in Keys : Loaded([i \in Keys |-> IF i <= n THEN 0 ELSE pool[i]])) /\ UNCHANGED nKeys
    <3>1. PICK n \in Keys : Loaded([i \in Keys |-> IF i <= n THEN 0 ELSE pool[i]])
      BY <2>2
    <3> QED
      BY <2>2, <3>1, KLoaded DEF KInv, PoolTypes, Distinct
  <2>3. CASE \E n \in 0 .. nKeyPool :
               /\ nKeys + n <= MaxKeys
               /\ Loaded([i \in Keys |-> IF i <= n THEN nKeys + i ELSE 0])
               /\ nKeys' = nKeys + n
    <3>1. PICK n \in 0 .. nKeyPool :
               /\ nKeys + n <= MaxKeys
               /\ Loaded([i \in Keys |-> IF i <= n THEN nKeys + i ELSE 0])
               /\ nKeys' = nKeys + n
      BY <2>3
    <3> DEFINE q == [i \in Keys |-> IF i <= n THEN nKeys + i ELSE 0]
    <3>2. nKeys' \in 0 .. MaxKeys /\ nKeys' >= nKeys
      BY <3>1, KeyPoolAssumption DEF KInv, PoolTypes
    <3>3. q = NewPool(n) /\ Loaded(q)
      BY <3>1 DEF NewPool
    <3>4. /\ q \in [Keys -> 0 .. nKeys']
          /\ \A i, j \in Keys : q[i] # 0 /\ q[i] = q[j] => i = j
          /\ \A i \in Keys : q[i] # 0 => q[i] > nKeys
      BY <3>1, <3>3, NewPoolOK
    <3> HIDE DEF q
    <3> QED
      BY <3>2, <3>3, <3>4, KLoaded
  <2> QED
    BY <1>4, <2>1, <2>2, <2>3 DEF Restart
<1>5. CASE LockOrUnlock \/ EncryptWallet \/ UNCHANGED keyVars
  BY <1>5 DEF LockOrUnlock, EncryptWallet, keyVars, KInv, PoolTypes, PoolReadable, Distinct, Unused, NoKeyReuse
<1> QED
  BY <1>1, <1>2, <1>3, <1>4, <1>5 DEF KeyPoolNext

\* For every size of the pool: no key is handed out twice (ReserveKeyFromKeyPool,
\* KeepKey), and ReserveKeyFromKeyPool finds the key of every number it takes,
\* through restarts and an encryption that may be interrupted.
THEOREM KeysOnce == KeyPoolSpec => [](NoKeyReuse /\ PoolReadable)
<1>1. KInv => NoKeyReuse /\ PoolReadable
  BY DEF KInv
<1> QED
  BY KInit, KStep, <1>1, PTL DEF KeyPoolSpec

\* The encryption makes the old keys, and once it has come to its end the file has
\* none of them.
Retired ==
    /\ fEncrypting \in BOOLEAN /\ fCrypted \in BOOLEAN /\ interrupted \in BOOLEAN
    /\ old \subseteq Keys
    /\ ~fCrypted => old = {} /\ ~fEncrypting
    /\ \A k \in old : k <= nKeys
    /\ ~fEncrypting /\ ~interrupted => \A i \in Keys : pool[i] \notin old

\* What a topped-up pool has is what it had, or new.
LEMMA TopUpRetired ==
    ASSUME KInv, Retired, ~fEncrypting, ~interrupted,
           NEW first \in 1 .. MaxKeys + 1, NEW size \in Nat, InBounds(ToppedUp(first, size)), NEW i \in Keys
    PROVE  ToppedUp(first, size).pool[i] \notin old
<1>1. \/ ToppedUp(first, size).pool[i] = pool[i]
      \/ ToppedUp(first, size).pool[i] > nKeys
  BY TopUp
<1>2. ToppedUp(first, size).pool[i] > nKeys => ToppedUp(first, size).pool[i] \notin old
  <2>1. \A k \in old : k <= nKeys /\ k \in Keys
    BY DEF Retired
  <2>2. \A k \in old : ~(k > nKeys)
    BY <2>1, KFacts
  <2> QED
    BY <2>2
<1> QED
  BY <1>1, <1>2 DEF Retired

LEMMA RetiredInit == KeyPoolInit => Retired
BY KeyPoolAssumption DEF KeyPoolInit, Retired, Keys

LEMMA RetiredStep == KInv /\ Retired /\ [KeyPoolNext]_keyVars => Retired'
<1> SUFFICES ASSUME KInv, Retired, [KeyPoolNext]_keyVars PROVE Retired'
  OBVIOUS
<1>1. \A i \in Keys : 0 \notin old /\ pool[i] \in Nat
  BY KFacts DEF Retired
<1>2. CASE TopUpKeyPool \/ GetKeyFromPool
  <2>1. PICK first \in 1 .. MaxKeys + 1, size \in Nat :
           /\ InBounds(ToppedUp(first, size)) /\ nKeys' = ToppedUp(first, size).n
           /\ \/ pool' = ToppedUp(first, size).pool
              \/ \E i \in Keys : pool' = [ToppedUp(first, size).pool EXCEPT ![i] = 0]
    BY <1>2, KeyPoolAssumption DEF TopUpKeyPool, GetKeyFromPool, Keys
  <2>2. /\ ~fEncrypting
        /\ UNCHANGED <<fCrypted, fEncrypting, old, interrupted>>
    BY <1>2, KeyPoolAssumption DEF TopUpKeyPool, GetKeyFromPool, Keys
  <2>3. nKeys' \in Nat /\ nKeys' >= nKeys /\ ToppedUp(first, size).pool \in [Keys -> 0 .. nKeys']
    BY <2>1, TopUp, KeyPoolAssumption
  <2>4. \A k \in old : k <= nKeys'
    <3>1. \A k \in old : k <= nKeys /\ k \in Nat
      BY KFacts DEF Retired
    <3> QED
      BY <2>3, <3>1, KFacts
  <2>5. ASSUME ~interrupted, NEW i \in Keys PROVE pool'[i] \notin old
    <3>1. ToppedUp(first, size).pool[i] \notin old
      BY <2>1, <2>2, <2>5, TopUpRetired
    <3>2. pool'[i] = ToppedUp(first, size).pool[i] \/ pool'[i] = 0
      BY <2>1, <2>3
    <3> QED
      BY <1>1, <3>1, <3>2
  <2> QED
    BY <2>2, <2>4, <2>5 DEF Retired, Keys
<1>3. CASE LockOrUnlock \/ UNCHANGED keyVars
  <2>1. UNCHANGED <<pool, nKeys, fCrypted, fEncrypting, old, interrupted>>
    BY <1>3 DEF LockOrUnlock, keyVars
  <2> QED
    BY <2>1 DEF Retired, Keys
<1>4. CASE EncryptWallet
  <2>1. /\ fCrypted' = TRUE /\ fEncrypting' = TRUE /\ old' = 1 .. nKeys
        /\ nKeys' = nKeys /\ interrupted' = interrupted
    BY <1>4 DEF EncryptWallet
  <2>2. old' \subseteq Keys /\ \A k \in old' : k <= nKeys'
    BY <2>1, KFacts DEF Keys
  <2> QED
    BY <2>1, <2>2 DEF Retired, Keys
<1>5. CASE NewKeyPool
  <2>1. /\ nKeys + nKeyPool <= MaxKeys
        /\ pool' = NewPool(nKeyPool) /\ nKeys' = nKeys + nKeyPool
        /\ fEncrypting /\ fEncrypting' = FALSE
        /\ UNCHANGED <<fCrypted, old, interrupted>>
    BY <1>5 DEF NewKeyPool, NewPool
  <2>2. \A i \in Keys : pool'[i] = 0 \/ pool'[i] > nKeys
    BY <2>1, NewPoolOK, KeyPoolAssumption
  <2>3. \A k \in old : k \in Nat /\ k # 0 /\ k <= nKeys
    BY KFacts DEF Retired
  <2>4. \A i \in Keys : pool'[i] \notin old
    BY <2>2, <2>3, KFacts
  <2>5. \A k \in old : k <= nKeys'
    BY <2>1, <2>3, KFacts
  <2> QED
    BY <2>1, <2>4, <2>5 DEF Retired, Keys
<1>6. CASE Restart
  <2>1. /\ fEncrypting' = FALSE /\ UNCHANGED <<fCrypted, old>>
        /\ \/ pool' = pool /\ nKeys' = nKeys /\ interrupted' = (interrupted \/ fEncrypting)
           \/ interrupted' = TRUE /\ fEncrypting /\ (nKeys' = nKeys \/ \E n \in 0 .. nKeyPool : nKeys' = nKeys + n)
    BY <1>6 DEF Restart, Loaded
  <2>2. \A k \in old : k \in Nat /\ k <= nKeys
    BY KFacts DEF Retired
  <2>3. \A k \in old : k <= nKeys'
    BY <2>1, <2>2, KFacts
  <2> QED
    BY <2>1, <2>3 DEF Retired, Keys
<1> QED
  BY <1>2, <1>3, <1>4, <1>5, <1>6 DEF KeyPoolNext

\* After the encryption no key that was made before it is handed out
\* (ReserveKeyFromKeyPool, KeepKey), unless the process ended between the commit of
\* EncryptWallet and the end of NewKeyPool: through restarts, locks and top-ups.
THEOREM OldKeysRetired == KeyPoolSpec => RetiredUnlessInterrupted
<1>1. ASSUME KInv, Retired, [KeyPoolNext]_keyVars
      PROVE  [~interrupted => \A k \in old : given'[k] = given[k]]_keyVars
  <2> SUFFICES ASSUME ~interrupted, NEW k \in old PROVE given'[k] = given[k]
    OBVIOUS
  <2>1. CASE GetKeyFromPool
    <3>1. PICK first \in 1 .. MaxKeys + 1, size \in Nat, i \in Keys :
             /\ ~fEncrypting /\ InBounds(ToppedUp(first, size)) /\ ToppedUp(first, size).pool[i] # 0
             /\ given' = [given EXCEPT ![ToppedUp(first, size).pool[i]] = @ + 1]
      BY <2>1, KeyPoolAssumption DEF GetKeyFromPool
    <3>2. ToppedUp(first, size).pool[i] # k
      BY <1>1, <3>1, TopUpRetired
    <3>3. k \in Keys /\ given \in [Keys -> Nat]
      BY <1>1 DEF Retired, KInv, PoolTypes
    <3> QED
      BY <3>1, <3>2, <3>3
  <2>2. CASE ~GetKeyFromPool
    BY <1>1, <2>2 DEF KeyPoolNext, TopUpKeyPool, LockOrUnlock, EncryptWallet, NewKeyPool, Restart, Loaded, keyVars
  <2> QED
    BY <2>1, <2>2
<1> QED
  BY KInit, KStep, RetiredInit, RetiredStep, <1>1, PTL DEF KeyPoolSpec, RetiredUnlessInterrupted

\* Types of the pool, its file and the flags.
LEMMA KeyTypesStep == KInv /\ Retired /\ KeyPoolTypeOK /\ [KeyPoolNext]_keyVars => KeyPoolTypeOK'
<1> SUFFICES ASSUME KInv, Retired, KeyPoolTypeOK, [KeyPoolNext]_keyVars PROVE KeyPoolTypeOK'
  OBVIOUS
<1>1. KInv' /\ Retired'
  BY KStep, RetiredStep
<1>2. pblock' = pblock \/ pblock' = 0
  BY DEF KeyPoolNext, TopUpKeyPool, GetKeyFromPool, LockOrUnlock, EncryptWallet, NewKeyPool, Restart, Loaded, keyVars
<1>3. fLocked' = fLocked \/ fLocked' = ~fLocked \/ fLocked' = TRUE \/ fLocked' = fCrypted
  BY DEF KeyPoolNext, TopUpKeyPool, GetKeyFromPool, LockOrUnlock, EncryptWallet, NewKeyPool, Restart, Loaded, keyVars
<1>4. nKeys' >= nKeys
  <2>1. CASE TopUpKeyPool \/ GetKeyFromPool
    <3>1. \E first \in 1 .. MaxKeys + 1, size \in Nat : InBounds(ToppedUp(first, size)) /\ nKeys' = ToppedUp(first, size).n
      BY <2>1, KeyPoolAssumption DEF TopUpKeyPool, GetKeyFromPool, Keys
    <3> QED
      BY <3>1, TopUp
  <2>2. CASE ~(TopUpKeyPool \/ GetKeyFromPool)
    <3>1. nKeys' = nKeys \/ nKeys' = nKeys + nKeyPool \/ \E n \in 0 .. nKeyPool : nKeys' = nKeys + n
      BY <2>2 DEF KeyPoolNext, LockOrUnlock, EncryptWallet, NewKeyPool, Restart, keyVars
    <3> QED
      BY <3>1, KFacts
  <2> QED
    BY <2>1, <2>2
<1>5. pblock' \in 0 .. nKeys'
  <2>1. pblock \in 0 .. nKeys
    BY DEF KeyPoolTypeOK
  <2>2. nKeys' \in Nat
    BY <1>1, KeyPoolAssumption DEF KInv, PoolTypes
  <2> QED
    BY <1>2, <1>4, <2>1, <2>2, KFacts
<1>6. {fCrypted', fLocked', fEncrypting', interrupted'} \subseteq BOOLEAN
  <2>1. fLocked \in BOOLEAN /\ fCrypted \in BOOLEAN
    BY DEF KeyPoolTypeOK
  <2>2. fCrypted' \in BOOLEAN /\ fEncrypting' \in BOOLEAN /\ interrupted' \in BOOLEAN
    BY <1>1 DEF Retired
  <2>3. fLocked' \in BOOLEAN
    BY <1>3, <2>1
  <2> QED
    BY <2>2, <2>3
<1> QED
  BY <1>1, <1>5, <1>6 DEF KeyPoolTypeOK, KInv, PoolTypes, Retired, Keys

LEMMA KeyTypesInit == KeyPoolInit => KeyPoolTypeOK
<1> SUFFICES ASSUME KeyPoolInit PROVE KeyPoolTypeOK
  OBVIOUS
<1>1. KInv /\ Retired
  BY KInit, RetiredInit
<1>2. pblock \in 0 .. nKeys
  BY DEF KeyPoolInit
<1>3. {fCrypted, fLocked, fEncrypting, interrupted} \subseteq BOOLEAN
  BY DEF KeyPoolInit
<1> QED
  BY <1>1, <1>2, <1>3 DEF KeyPoolTypeOK, KInv, PoolTypes, Retired

-----------------------------------------------------------------------------
(* The database environment.                                               *)

\* Types of what the counts depend on.
UseTypes ==
    /\ mapFileUseCount \in [Files -> Nat] /\ inMap \subseteq Files
    /\ pc \in [Users -> {"none", "open", "closing"}] /\ strFile \in [Users -> Files]

\* A file with a count has an entry in the map, so that Flush(true) sees it.
Counted == \A f \in Files : mapFileUseCount[f] # 0 => f \in inMap

DInv == UseTypes /\ Counted /\ UseCountsExact /\ NoUseAfterClose /\ LogKept

LEMMA UsersFinite == \A f \in Files : IsFiniteSet(UsersOf(f)) /\ Cardinality(UsersOf(f)) \in Nat
<1>1. IsFiniteSet(Users)
  BY DBEnvAssumption, FS_AddElement DEF Users
<1>2. \A f \in Files : UsersOf(f) \subseteq Users
  BY DEF UsersOf
<1> QED
  BY <1>1, <1>2, FS_Subset, FS_CardinalityType

LEMMA Nobody ==
    ASSUME UseCountsExact, NEW f \in Files, mapFileUseCount[f] = 0
    PROVE  UsersOf(f) = {}
BY UsersFinite, FS_EmptySet DEF UseCountsExact

\* A file that nobody uses may be closed.
LEMMA DetachOK ==
    ASSUME UseTypes, Counted, UseCountsExact, dangling = {},
           NEW fs \in SUBSET Files, \A f \in fs : mapFileUseCount[f] = 0, Detach(fs)
    PROVE  UseTypes' /\ Counted' /\ UseCountsExact' /\ dangling' = {} /\ mapFileUseCount' = mapFileUseCount
<1>1. /\ inMap' = inMap \ fs /\ pc' = pc /\ strFile' = strFile
      /\ mapFileUseCount' = [f \in Files |-> IF f \in fs THEN 0 ELSE mapFileUseCount[f]]
      /\ dangling' = dangling \cup {u \in Users : pc[u] = "open" /\ strFile[u] \in fs}
  BY DEF Detach, OpenOn
<1>2. mapFileUseCount' = mapFileUseCount
  <2>1. \A f \in Files : mapFileUseCount'[f] = mapFileUseCount[f]
    BY <1>1
  <2>2. mapFileUseCount' \in [Files -> Nat]
    BY <1>1 DEF UseTypes
  <2> QED
    BY <2>1, <2>2 DEF UseTypes
<1>3. UseCountsExact'
  BY <1>1, <1>2 DEF UseCountsExact, UsersOf, Files, Users
<1>4. {u \in Users : pc[u] = "open" /\ strFile[u] \in fs} = {}
  BY Nobody DEF UsersOf
<1>5. UseTypes' /\ Counted'
  BY <1>1, <1>2 DEF UseTypes, Counted, Files, Users
<1> QED
  BY <1>1, <1>2, <1>3, <1>4, <1>5

LEMMA ConstructOK ==
    ASSUME DInv, NEW u \in Users, NEW f \in Files, Construct(u, f), fDbEnvInit' = fDbEnvInit, logged' = logged
    PROVE  DInv'
<1>1. /\ pc[u] = "none" /\ fDbEnvInit
      /\ mapFileUseCount' = [mapFileUseCount EXCEPT ![f] = @ + 1]
      /\ inMap' = inMap \cup {f}
      /\ pc' = [pc EXCEPT ![u] = "open"]
      /\ strFile' = [strFile EXCEPT ![u] = f]
      /\ dangling' = dangling
  BY DEF Construct
<1>2. UseTypes'
  BY <1>1 DEF DInv, UseTypes, Files, Users
<1>3. Counted'
  BY <1>1 DEF DInv, UseTypes, Counted, Files
<1>4. NoUseAfterClose'
  BY <1>1 DEF DInv, UseTypes, NoUseAfterClose, Users
<1>5. UsersOf(f)' = UsersOf(f) \cup {u} /\ u \notin UsersOf(f)
  BY <1>1 DEF DInv, UseTypes, UsersOf, Users
<1>6. \A g \in Files : g # f => UsersOf(g)' = UsersOf(g)
  BY <1>1 DEF DInv, UseTypes, UsersOf, Users
<1>7. Cardinality(UsersOf(f)') = Cardinality(UsersOf(f)) + 1
  BY <1>5, UsersFinite, FS_AddElement
<1>8. \A g \in Files : mapFileUseCount'[g] = IF g = f THEN mapFileUseCount[f] + 1 ELSE mapFileUseCount[g]
  BY <1>1 DEF DInv, UseTypes
<1>9. \A g \in Files : mapFileUseCount[g] = Cardinality(UsersOf(g))
  BY DEF DInv, UseCountsExact
<1>10. \A g \in Files : mapFileUseCount'[g] = Cardinality(UsersOf(g)')
  BY <1>6, <1>7, <1>8, <1>9
<1>11. UseCountsExact'
  BY <1>10 DEF UseCountsExact, Files
<1>12. LogKept'
  BY <1>1 DEF DInv, LogKept
<1> QED
  BY <1>2, <1>3, <1>4, <1>11, <1>12 DEF DInv

LEMMA BeginCloseOK ==
    ASSUME DInv, NEW u \in Users, BeginClose(u), fDbEnvInit' = fDbEnvInit, logged' = logged
    PROVE  DInv'
<1>1. /\ pc[u] = "open" /\ pc' = [pc EXCEPT ![u] = "closing"]
      /\ dangling' = dangling \ {u} /\ mapFileUseCount' = mapFileUseCount /\ inMap' = inMap
      /\ strFile' = strFile
  BY DEF BeginClose
<1>2. \A f \in Files : UsersOf(f)' = UsersOf(f)
  BY <1>1 DEF DInv, UseTypes, UsersOf, Users
<1>3. UseCountsExact'
  BY <1>1, <1>2 DEF DInv, UseCountsExact, Files
<1> QED
  BY <1>1, <1>3 DEF DInv, UseTypes, Counted, NoUseAfterClose, LogKept, Users, Files

LEMMA EndCloseOK ==
    ASSUME DInv, NEW u \in Users, EndClose(u), fDbEnvInit' = fDbEnvInit, logged' = logged
    PROVE  DInv'
<1>0. PICK f \in Files : f = strFile[u]
  BY DEF DInv, UseTypes
<1>1. /\ pc[u] = "closing"
      /\ mapFileUseCount' = [mapFileUseCount EXCEPT ![f] = @ - 1]
      /\ pc' = [pc EXCEPT ![u] = "none"]
      /\ inMap' = inMap /\ strFile' = strFile /\ dangling' = dangling
  BY <1>0 DEF EndClose
<1>2. u \in UsersOf(f)
  BY <1>0, <1>1 DEF UsersOf
<1>3. UsersOf(f)' = UsersOf(f) \ {u}
  BY <1>0, <1>1 DEF DInv, UseTypes, UsersOf, Users
<1>4. \A g \in Files : g # f => UsersOf(g)' = UsersOf(g)
  BY <1>0, <1>1 DEF DInv, UseTypes, UsersOf, Users
<1>5. Cardinality(UsersOf(f)') = Cardinality(UsersOf(f)) - 1
  BY <1>1, <1>2, <1>3, UsersFinite, FS_RemoveElement
<1>6. \A g \in Files : mapFileUseCount'[g] = IF g = f THEN mapFileUseCount[f] - 1 ELSE mapFileUseCount[g]
  BY <1>1 DEF DInv, UseTypes
<1>7. \A g \in Files : mapFileUseCount[g] = Cardinality(UsersOf(g))
  BY DEF DInv, UseCountsExact
<1>8. \A g \in Files : mapFileUseCount'[g] = Cardinality(UsersOf(g)')
  BY <1>1, <1>4, <1>5, <1>6, <1>7
<1>9. UseCountsExact'
  BY <1>8 DEF UseCountsExact, Files
<1>10. mapFileUseCount[f] # 0
  BY <1>1, <1>2, Nobody DEF DInv
<1>11. UseTypes'
  <2>1. mapFileUseCount[f] - 1 \in Nat
    BY <1>1, <1>10 DEF DInv, UseTypes
  <2> QED
    BY <1>1, <2>1 DEF DInv, UseTypes, Files, Users
<1>12. Counted'
  BY <1>1, <1>6, <1>10 DEF DInv, Counted, Files
<1>13. NoUseAfterClose'
  BY <1>1 DEF DInv, UseTypes, NoUseAfterClose, Users
<1>14. LogKept'
  BY <1>1 DEF DInv, LogKept
<1> QED
  BY <1>9, <1>11, <1>12, <1>13, <1>14 DEF DInv

\* A closer that leaves the environment open.
LEMMA CloserOK ==
    ASSUME DInv, NEW fs \in SUBSET Files, \A f \in fs : mapFileUseCount[f] = 0, Detach(fs),
           fDbEnvInit' = fDbEnvInit
    PROVE  DInv'
<1>1. UseTypes' /\ Counted' /\ UseCountsExact' /\ dangling' = {}
  BY DetachOK DEF DInv, NoUseAfterClose
<1>2. pc' = pc /\ inMap' = inMap \ fs /\ logged' = logged \ fs
  BY DEF Detach
<1> QED
  BY <1>1, <1>2 DEF DInv, NoUseAfterClose, LogKept, Users

\* The rewrite closes the handle, and leaves an entry.
LEMMA RewriteOK == DInv /\ Rewrite => DInv'
<1> SUFFICES ASSUME DInv, Rewrite PROVE DInv'
  OBVIOUS
<1>1. /\ mapFileUseCount[Wallet] = 0 /\ Wallet \in Files
      /\ mapFileUseCount' = mapFileUseCount /\ pc' = pc /\ strFile' = strFile /\ fDbEnvInit' = fDbEnvInit
      /\ inMap' = inMap \cup {Wallet} /\ logged' = logged \cup {Wallet}
      /\ dangling' = dangling \cup {u \in Users : pc[u] = "open" /\ strFile[u] \in {Wallet}}
  BY DEF Rewrite, OpenOn, Files
<1>2. {u \in Users : pc[u] = "open" /\ strFile[u] \in {Wallet}} = {}
  BY <1>1, Nobody DEF DInv, UsersOf
<1>3. UseTypes' /\ Counted' /\ UseCountsExact'
  BY <1>1 DEF DInv, UseTypes, Counted, UseCountsExact, UsersOf, Files, Users
<1>4. NoUseAfterClose'
  BY <1>1, <1>2 DEF DInv, NoUseAfterClose, Users
<1>5. fDbEnvInit
  BY DEF Rewrite
<1> QED
  BY <1>1, <1>3, <1>4, <1>5 DEF DInv, LogKept

LEMMA FlushOK ==
    ASSUME DInv, NEW ph, NEW next, Flush(ph, next)
    PROVE  DInv'
<1> DEFINE fs == {f \in inMap : mapFileUseCount[f] = 0}
<1>1. Detach(fs) /\ fDbEnvInit' = (fDbEnvInit /\ ~(next = "stopped" /\ inMap' = {}))
  BY DEF Flush
<1>2. fs \in SUBSET Files /\ \A f \in fs : mapFileUseCount[f] = 0
  BY DEF DInv, UseTypes
<1> HIDE DEF fs
<1>3. UseTypes' /\ Counted' /\ UseCountsExact' /\ dangling' = {}
  BY <1>1, <1>2, DetachOK DEF DInv, NoUseAfterClose
<1>4. pc' = pc /\ strFile' = strFile /\ inMap' = inMap \ fs /\ logged' = logged \ fs
  BY <1>1 DEF Detach
<1>5. ASSUME NEW u \in Users, pc'[u] # "none" PROVE fDbEnvInit'
  <2>1. strFile'[u] \in Files /\ u \in UsersOf(strFile'[u])
    BY <1>4, <1>5 DEF DInv, UseTypes, UsersOf
  <2>2. mapFileUseCount[strFile'[u]] # 0
    BY <2>1, Nobody DEF DInv
  <2>3. mapFileUseCount' = mapFileUseCount
    BY <1>1, <1>2, DetachOK DEF DInv, NoUseAfterClose
  <2>4. strFile'[u] \in inMap'
    BY <1>3, <2>1, <2>2, <2>3 DEF Counted, Files
  <2>5. fDbEnvInit
    BY <1>4, <1>5 DEF DInv, NoUseAfterClose
  <2> QED
    BY <1>1, <2>4, <2>5
<1>6. LogKept'
  BY <1>1, <1>4 DEF DInv, LogKept
<1> QED
  BY <1>3, <1>5, <1>6 DEF DInv, NoUseAfterClose, Users

LEMMA DInit == DBEnvInit => DInv
<1> SUFFICES ASSUME DBEnvInit PROVE DInv
  OBVIOUS
<1>1. \A f \in Files : UsersOf(f) = {}
  BY DEF DBEnvInit, UsersOf
<1>2. UseCountsExact
  BY <1>1, FS_EmptySet DEF DBEnvInit, UseCountsExact
<1> QED
  BY <1>2 DEF DBEnvInit, DInv, UseTypes, Counted, NoUseAfterClose, LogKept, Files

LEMMA RestartOK == ASSUME DInv, RestartEnv PROVE DInv'
<1>1. /\ mapFileUseCount' = [f \in Files |-> 0] /\ inMap' = {}
      /\ pc' = [u \in Users |-> "none"] /\ dangling' = {} /\ strFile' = strFile
      /\ logged' = {}
  BY DEF RestartEnv
<1>2. \A f \in Files : UsersOf(f)' = {}
  BY <1>1 DEF UsersOf, Users
<1>3. \A f \in Files : mapFileUseCount'[f] = Cardinality(UsersOf(f)')
  BY <1>1, <1>2, FS_EmptySet
<1>4. UseCountsExact'
  BY <1>3 DEF UseCountsExact, Files
<1> QED
  BY <1>1, <1>4 DEF DInv, UseTypes, Counted, NoUseAfterClose, LogKept, Files, Users

LEMMA DStep == DInv /\ [DBEnvNext]_dbVars => DInv'
<1> SUFFICES ASSUME DInv, [DBEnvNext]_dbVars PROVE DInv'
  OBVIOUS
<1> USE DEF useVars, fileVars
<1>1. CASE OpenCDB
  BY <1>1, ConstructOK DEF OpenCDB, Users
<1>2. CASE OpenFails
  <2>1. /\ mapFileUseCount' = mapFileUseCount /\ pc' = pc /\ strFile' = strFile /\ dangling' = dangling
        /\ fDbEnvInit' = fDbEnvInit /\ inMap \subseteq inMap' /\ inMap' \subseteq inMap \cup Files
        /\ logged' = logged
    BY <1>2 DEF OpenFails
  <2>2. UseCountsExact'
    BY <2>1 DEF DInv, UseCountsExact, UsersOf, Files, Users
  <2> QED
    BY <2>1, <2>2 DEF DInv, UseTypes, Counted, NoUseAfterClose, LogKept, Files, Users
<1>3. CASE Write \/ UNCHANGED dbVars
  <2>1. UNCHANGED <<useVars, fDbEnvInit>>
    BY <1>3 DEF Write, dbVars
  <2>2. UseTypes' /\ Counted' /\ UseCountsExact' /\ NoUseAfterClose'
    BY <2>1 DEF DInv, UseTypes, Counted, UseCountsExact, UsersOf, NoUseAfterClose, Files, Users
  <2>3. CASE Write
    <3>1. PICK u \in Users : pc[u] = "open" /\ logged' = logged \cup {strFile[u]}
      BY <2>3 DEF Write
    <3>2. strFile[u] \in Files /\ u \in UsersOf(strFile[u])
      BY <3>1 DEF DInv, UseTypes, UsersOf
    <3>3. strFile[u] \in inMap /\ fDbEnvInit
      BY <3>1, <3>2, Nobody DEF DInv, Counted, NoUseAfterClose
    <3> QED
      BY <2>1, <2>2, <3>1, <3>3 DEF DInv, LogKept
  <2>4. CASE UNCHANGED dbVars
    BY <2>1, <2>2, <2>4 DEF DInv, LogKept, dbVars
  <2> QED
    BY <1>3, <2>3, <2>4
<1>4. CASE CloseCDB
  <2>1. PICK t \in Threads : BeginClose(t) \/ EndClose(t)
    BY <1>4 DEF CloseCDB
  <2>2. t \in Users /\ fDbEnvInit' = fDbEnvInit /\ logged' = logged
    BY <1>4 DEF CloseCDB, Users
  <2> QED
    BY <2>1, <2>2, BeginCloseOK, EndCloseOK
<1>5. CASE ThreadFlushWalletDB \/ BackupWallet
  <2>1. /\ {Wallet} \in SUBSET Files /\ mapFileUseCount[Wallet] = 0
        /\ Detach({Wallet}) /\ fDbEnvInit' = fDbEnvInit
    BY <1>5 DEF ThreadFlushWalletDB, BackupWallet, Files
  <2> QED
    BY <2>1, CloserOK
<1>6. CASE RestartEnv
  BY <1>6, RestartOK
<1>7. CASE MakeLn1Db
  <2>1. Construct(Ln1, Aliases) /\ fDbEnvInit' = fDbEnvInit /\ logged' = logged /\ Ln1 \in Users /\ Aliases \in Files
    BY <1>7 DEF MakeLn1Db, Users, Files
  <2> QED
    BY <2>1, ConstructOK
<1>8. CASE Shutdown
  <2>1. CASE Flush("running", "flushed") \/ Flush("flushed", "stopped")
    BY <2>1, FlushOK
  <2>2. CASE (BeginClose(Ln1) \/ EndClose(Ln1)) /\ fDbEnvInit' = fDbEnvInit /\ logged' = logged
    BY <2>2, BeginCloseOK, EndCloseOK DEF Users
  <2> QED
    BY <1>8, <2>1, <2>2 DEF Shutdown
<1> QED
  BY <1>1, <1>2, <1>3, <1>4, <1>5, <1>6, <1>7, <1>8, RewriteOK DEF DBEnvNext

\* For any number of threads that open and close CDBs while the wallet is flushed,
\* backed up and rewritten and the process shuts down: no handle and no environment
\* is closed under a CDB (CloseDb, Flush, Rewrite).
THEOREM HandlesSafe == DBEnvSpec => []NoUseAfterClose
<1>1. DInv => NoUseAfterClose
  BY DEF DInv
<1> QED
  BY DInit, DStep, <1>1, PTL DEF DBEnvSpec

\* No file that depends on the log is without an entry in mapFileUseCount, and the
\* log is removed when no file depends on it (CDB::Rewrite, CDBEnv::Flush).
THEOREM LogTracked == DBEnvSpec => []LogKept
<1>1. DInv => LogKept
  BY DEF DInv
<1> QED
  BY DInit, DStep, <1>1, PTL DEF DBEnvSpec

\* The counts in mapFileUseCount are the numbers of CDBs (CDB::CDB, CDB::Close).
THEOREM CountsExact == DBEnvSpec => []UseCountsExact
<1>1. DInv => UseCountsExact
  BY DEF DInv
<1> QED
  BY DInit, DStep, <1>1, PTL DEF DBEnvSpec


\* The two files together, with their types: wherever the rewrite stops, the
\* records of the wallet are in one of them.
FilesInv == DBEnvTypeOK /\ BackupWhole /\ KeysOnDisk

LEMMA FilesInit == DBEnvInit => FilesInv
<1> SUFFICES ASSUME DBEnvInit PROVE FilesInv
  OBVIOUS
<1>1. UseTypes
  BY DInit DEF DInv
<1>2. {updated, fDbEnvInit, ln1Made, rewritten} \subseteq BOOLEAN
  BY DEF DBEnvInit
<1>3. /\ mapDb = {} /\ dangling = {} /\ logged = {} /\ phase = "running"
      /\ dat = "all" /\ copy = "none" /\ backup = "none"
  BY DEF DBEnvInit
<1> QED
  BY <1>1, <1>2, <1>3 DEF UseTypes, FilesInv, DBEnvTypeOK, BackupWhole, KeysOnDisk

\* Whatever part of wallet.dat comes into the copy, the records of both files are
\* in what is made of them.
LEMMA MergedWhole ==
    ASSUME NEW a, NEW b
    PROVE  /\ Merged(a, b) = "all" \/ Merged(a, b) = a
           /\ Merged(a, b) = "all" <=> (a = "all" \/ b = "all")
BY DEF Merged

LEMMA FilesStep == DInv /\ FilesInv /\ [DBEnvNext]_dbVars => FilesInv'
<1> SUFFICES ASSUME DInv, FilesInv, [DBEnvNext]_dbVars PROVE FilesInv'
  OBVIOUS
<1> USE DEF useVars, fileVars
<1> DEFINE HandlesType ==
             /\ mapDb \subseteq Files /\ dangling \subseteq Users /\ logged \subseteq Files
             /\ phase \in {"running", "flushed", "stopped"}
             /\ updated \in BOOLEAN /\ fDbEnvInit \in BOOLEAN /\ ln1Made \in BOOLEAN
           RecordsType ==
             /\ dat \in {"all", "new"} /\ copy \in {"none", "part", "new", "all"}
             /\ backup \in {"none", "all", "new"}
             /\ rewritten \in BOOLEAN
             /\ KeysOnDisk
<1>1. HandlesType /\ RecordsType
  BY DEF FilesInv, DBEnvTypeOK, BackupWhole
<1>2. DInv'
  BY DStep
<1>3. HandlesType'
  <2>1. dangling' \subseteq Users
    BY <1>2 DEF DInv, NoUseAfterClose
  <2>2. mapDb' \subseteq Files /\ logged' \subseteq Files
    <3>1. strFile \in [Users -> Files] /\ Wallet \in Files /\ Aliases \in Files
      BY DEF DInv, UseTypes, Files
    <3>2. mapDb' \subseteq mapDb \cup Files
      BY <3>1 DEF DBEnvNext, OpenCDB, OpenFails, Write, CloseCDB, ThreadFlushWalletDB, BackupWallet, Rewrite,
             RestartEnv, MakeLn1Db, Shutdown, Construct, BeginClose, EndClose, Detach, Flush, dbVars
    <3>3. logged' \subseteq logged \cup Files
      BY <3>1 DEF DBEnvNext, OpenCDB, OpenFails, Write, CloseCDB, ThreadFlushWalletDB, BackupWallet, Rewrite,
             RestartEnv, MakeLn1Db, Shutdown, Detach, Flush, dbVars
    <3> QED
      BY <1>1, <3>2, <3>3 DEF Files
  <2>3. phase' \in {"running", "flushed", "stopped"}
    BY <1>1 DEF DBEnvNext, OpenCDB, OpenFails, Write, CloseCDB, ThreadFlushWalletDB, BackupWallet, Rewrite,
           RestartEnv, MakeLn1Db, Shutdown, Flush, dbVars
  <2>4. ln1Made' \in BOOLEAN
    BY <1>1 DEF DBEnvNext, OpenCDB, OpenFails, Write, CloseCDB, ThreadFlushWalletDB, BackupWallet, Rewrite,
           RestartEnv, MakeLn1Db, Shutdown, Flush, dbVars
  <2>5. updated' \in BOOLEAN
    <3>1. \/ updated' = updated \/ updated' = FALSE
          \/ \E u \in Users : updated' \in {updated, updated \/ strFile[u] = Wallet}
      BY DEF DBEnvNext, OpenCDB, OpenFails, Write, CloseCDB, ThreadFlushWalletDB, BackupWallet, Rewrite,
             RestartEnv, MakeLn1Db, Shutdown, Flush, dbVars
    <3> QED
      BY <1>1, <3>1
  <2>6. fDbEnvInit' \in BOOLEAN
    <3>1. \/ fDbEnvInit' = fDbEnvInit \/ fDbEnvInit' = TRUE
          \/ \E next \in {"flushed", "stopped"} : fDbEnvInit' = (fDbEnvInit /\ ~(next = "stopped" /\ inMap' = {}))
      BY DEF DBEnvNext, OpenCDB, OpenFails, Write, CloseCDB, ThreadFlushWalletDB, BackupWallet, Rewrite,
             RestartEnv, MakeLn1Db, Shutdown, Flush, dbVars
    <3> QED
      BY <1>1, <3>1
  <2> QED
    BY <2>1, <2>2, <2>3, <2>4, <2>5, <2>6 DEF Files, Users
<1>4. RecordsType'
  <2>1. CASE BackupWallet
    <3>1. Detach({Wallet}) /\ backup' = IF Wallet \in logged' THEN "part" ELSE dat
      BY <2>1 DEF BackupWallet
    <3>2. Wallet \notin logged'
      BY <3>1 DEF Detach
    <3>3. UNCHANGED <<dat, copy, rewritten>>
      BY <2>1 DEF BackupWallet
    <3> QED
      BY <1>1, <3>1, <3>2, <3>3 DEF KeysOnDisk
  <2>2. CASE Rewrite
    <3>1. dat' = Merged(dat, copy) /\ copy' = "none" /\ rewritten' = TRUE /\ backup' = backup
      BY <2>2 DEF Rewrite
    <3>2. dat' = "all"
      BY <1>1, <3>1, MergedWhole DEF KeysOnDisk
    <3> QED
      BY <1>1, <3>1, <3>2 DEF KeysOnDisk
  <2>3. CASE RestartEnv
    <3>1. backup' = backup /\ (UNCHANGED <<dat, copy, rewritten>> \/ RewriteInterrupted)
      BY <2>3 DEF RestartEnv
    <3>2. CASE UNCHANGED <<dat, copy, rewritten>>
      BY <1>1, <3>1, <3>2 DEF KeysOnDisk
    <3>3. CASE dat' = dat /\ copy' = Merged("part", copy) /\ rewritten' = TRUE
      BY <1>1, <3>1, <3>3, MergedWhole DEF KeysOnDisk
    <3>4. CASE dat' = "new" /\ copy' = Merged(dat, copy) /\ rewritten' = FALSE
      BY <1>1, <3>1, <3>4, MergedWhole DEF KeysOnDisk
    <3> QED
      BY <3>1, <3>2, <3>3, <3>4 DEF RewriteInterrupted
  <2>4. CASE ~(BackupWallet \/ Rewrite \/ RestartEnv)
    <3>1. UNCHANGED fileVars
      BY <2>4 DEF DBEnvNext, OpenCDB, OpenFails, Write, CloseCDB, ThreadFlushWalletDB,
             MakeLn1Db, Shutdown, Flush, dbVars
    <3> QED
      BY <1>1, <3>1 DEF KeysOnDisk
  <2> QED
    BY <2>1, <2>2, <2>3, <2>4
<1> QED
  BY <1>2, <1>3, <1>4 DEF FilesInv, DBEnvTypeOK, BackupWhole, DInv, UseTypes, Files, Users

-----------------------------------------------------------------------------
(* The wallet.                                                             *)

\* A behaviour of the wallet is one of the key pool and one of the database
\* environment.
LEMMA WalletParts == WalletSpec => KeyPoolSpec /\ DBEnvSpec
<1>1. WalletInit => KeyPoolInit /\ DBEnvInit
  BY DEF WalletInit
<1>2. [WalletNext]_walletVars => [KeyPoolNext]_keyVars /\ [DBEnvNext]_dbVars
  BY DEF WalletNext, walletVars
<1> QED
  BY <1>1, <1>2, PTL DEF WalletSpec, KeyPoolSpec, DBEnvSpec

\* No key is lost: BackupWallet copies the file with all that was written to it,
\* and wherever CDB::Rewrite is interrupted, wallet.dat or wallet.dat.rewrite has
\* all keys; and the wallet's state has its types.
THEOREM WalletWhole == WalletSpec => []FilesWhole
<1>1. KeyPoolSpec => []KeyPoolTypeOK
  BY KInit, KStep, RetiredInit, RetiredStep, KeyTypesInit, KeyTypesStep, PTL DEF KeyPoolSpec
<1>2. DBEnvSpec => []FilesInv
  BY DInit, DStep, FilesInit, FilesStep, PTL DEF DBEnvSpec
<1>3. KeyPoolTypeOK /\ FilesInv => FilesWhole
  BY DEF FilesInv, FilesWhole
<1> QED
  BY WalletParts, <1>1, <1>2, <1>3, PTL
=============================================================================

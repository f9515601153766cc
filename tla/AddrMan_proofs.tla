--------------------------- MODULE AddrMan_proofs ---------------------------
(***************************************************************************)
(* Theorems about the address manager, for every set of addresses, every   *)
(* hash and every size of the buckets.                                     *)
(***************************************************************************)
EXTENDS AddrMan, FiniteSetTheorems, SequenceTheorems, TLAPS

-----------------------------------------------------------------------------
(* The invariant, of an object a that is in the middle of a method: for    *)
(* the entry x one reference is counted that is not in a bucket yet.       *)

Object(a) ==
    a \in [nIdCount : {a.nIdCount}, mapInfo : {a.mapInfo}, mapAddr : {a.mapAddr}, vRandom : {a.vRandom},
           vvTried : {a.vvTried}, vvNew : {a.vvNew}, nTried : {a.nTried}, nNew : {a.nNew}]

\* vRandom and nRandomPos are inverse to each other.
Order(a) ==
    /\ \A id \in DOMAIN a.mapInfo :
          a.mapInfo[id].nRandomPos \in 1 .. Len(a.vRandom) /\ a.vRandom[a.mapInfo[id].nRandomPos] = id
    /\ \A p \in 1 .. Len(a.vRandom) :
          a.vRandom[p] \in DOMAIN a.mapInfo /\ a.mapInfo[a.vRandom[p]].nRandomPos = p

\* mapAddr and the addresses of the entries are inverse to each other.
Addresses(a) ==
    /\ \A id \in DOMAIN a.mapInfo :
          IP[a.mapInfo[id].addr] \in DOMAIN a.mapAddr /\ a.mapAddr[IP[a.mapInfo[id].addr]] = id
    /\ \A ip \in DOMAIN a.mapAddr :
          a.mapAddr[ip] \in DOMAIN a.mapInfo /\ IP[a.mapInfo[a.mapAddr[ip]].addr] = ip

Refs(a, x) ==
    /\ \A id \in NewIds(a) :
          /\ a.mapInfo[id].nRefCount = Cardinality(NewBucketsOf(a, id)) + (IF id = x THEN 1 ELSE 0)
          /\ a.mapInfo[id].nRefCount \in 1 .. NEW_BUCKETS_PER_ADDRESS
    /\ \A b \in NewBuckets : a.vvNew[b] \subseteq NewIds(a)
    /\ a.nNew = Cardinality(NewIds(a))

Distinct(s) == \A i, j \in 1 .. Len(s) : s[i] = s[j] => i = j

Tries(a) ==
    /\ \A id \in TriedIds(a) : a.mapInfo[id].nRefCount = 0 /\ a.mapInfo[id].nLastSuccess # 0
    /\ \A k \in TriedBuckets :
          /\ ToSet(a.vvTried[k]) = {id \in TriedIds(a) : GetTriedBucket[a.mapInfo[id].addr] = k}
          /\ Distinct(a.vvTried[k])
    /\ a.nTried = Cardinality(TriedIds(a))

AInv(a, x) ==
    /\ Object(a) /\ AddrTypeOK(a)
    /\ Order(a) /\ Addresses(a)
    /\ Refs(a, x) /\ Tries(a) /\ Bounded(a)

-----------------------------------------------------------------------------
(* Swaps.                                                                  *)

\* What an entry says beside its place in vRandom.
Same(i, j) ==
    /\ i.addr = j.addr /\ i.source = j.source /\ i.nLastSuccess = j.nLastSuccess
    /\ i.nRefCount = j.nRefCount /\ i.fInTried = j.fInTried

Moved(r, a, p, q) ==
    \A id \in DOMAIN a.mapInfo :
        /\ Same(r.mapInfo[id], a.mapInfo[id])
        /\ id = a.vRandom[q] => r.mapInfo[id].nRandomPos = p
        /\ id # a.vRandom[q] /\ id = a.vRandom[p] => r.mapInfo[id].nRandomPos = q
        /\ id # a.vRandom[q] /\ id # a.vRandom[p] => r.mapInfo[id].nRandomPos = a.mapInfo[id].nRandomPos

LEMMA SwapFields ==
    ASSUME NEW a, Object(a), AddrTypeOK(a), Order(a),
           NEW p \in 1 .. Len(a.vRandom), NEW q \in 1 .. Len(a.vRandom),
           NEW r, r = SwapRandom(a, p, q)
    PROVE  /\ Object(r)
           /\ r.nIdCount = a.nIdCount /\ r.mapAddr = a.mapAddr /\ r.vvTried = a.vvTried
           /\ r.vvNew = a.vvNew /\ r.nTried = a.nTried /\ r.nNew = a.nNew
           /\ r.vRandom = [a.vRandom EXCEPT ![p] = a.vRandom[q], ![q] = a.vRandom[p]]
           /\ r.mapInfo \in [DOMAIN a.mapInfo -> Info]
           /\ Moved(r, a, p, q)
<1> DEFINE id1 == a.vRandom[p]
           id2 == a.vRandom[q]
           m1 == [a.mapInfo EXCEPT ![id1] = [a.mapInfo[id1] EXCEPT !.nRandomPos = q]]
           m2 == [m1 EXCEPT ![id2] = [m1[id2] EXCEPT !.nRandomPos = p]]
<1>1. id1 \in DOMAIN a.mapInfo /\ id2 \in DOMAIN a.mapInfo
  BY DEF Order
<1>2. /\ r.nIdCount = a.nIdCount /\ r.mapAddr = a.mapAddr /\ r.vvTried = a.vvTried
      /\ r.vvNew = a.vvNew /\ r.nTried = a.nTried /\ r.nNew = a.nNew
  BY DEF SwapRandom, Object
<1>3. r.vRandom = [a.vRandom EXCEPT ![p] = a.vRandom[q], ![q] = a.vRandom[p]]
  BY DEF SwapRandom, Object
<1>4. Object(r)
  BY DEF SwapRandom, Object
<1>5. r.mapInfo = m2
  BY DEF SwapRandom, Object
<1>6. m2 \in [DOMAIN a.mapInfo -> Info]
  <2>0. p \in Nat /\ q \in Nat /\ a.mapInfo \in [DOMAIN a.mapInfo -> Info]
    BY LenProperties DEF AddrTypeOK
  <2>1. ASSUME NEW i \in Info, NEW n \in Nat PROVE [i EXCEPT !.nRandomPos = n] \in Info
    BY <2>1 DEF Info
  <2>2. m1 \in [DOMAIN a.mapInfo -> Info]
    <3>1. [a.mapInfo[id1] EXCEPT !.nRandomPos = q] \in Info
      BY <1>1, <2>0, <2>1
    <3> QED BY <1>1, <2>0, <3>1
  <2> HIDE DEF m1
  <2>3. [m1[id2] EXCEPT !.nRandomPos = p] \in Info
    BY <1>1, <2>0, <2>1, <2>2
  <2> QED BY <1>1, <2>2, <2>3
<1>7. ASSUME NEW id \in DOMAIN a.mapInfo
      PROVE  /\ Same(m2[id], a.mapInfo[id])
             /\ id = a.vRandom[q] => m2[id].nRandomPos = p
             /\ id # a.vRandom[q] /\ id = a.vRandom[p] => m2[id].nRandomPos = q
             /\ id # a.vRandom[q] /\ id # a.vRandom[p] => m2[id].nRandomPos = a.mapInfo[id].nRandomPos
  <2>0. a.mapInfo \in [DOMAIN a.mapInfo -> Info] /\ a.mapInfo[id] \in Info
    BY DEF AddrTypeOK
  <2>1. ASSUME NEW i \in Info, NEW k
        PROVE  Same([i EXCEPT !.nRandomPos = k], i) /\ [i EXCEPT !.nRandomPos = k].nRandomPos = k
    BY DEF Info, Same
  <2>2. /\ id = id1 => m1[id] = [a.mapInfo[id] EXCEPT !.nRandomPos = q]
        /\ id # id1 => m1[id] = a.mapInfo[id]
    BY <1>1, <2>0
  <2>3. m1[id] \in Info /\ Same(m1[id], a.mapInfo[id])
    <3>1. q \in Nat
      BY LenProperties DEF AddrTypeOK
    <3>2. [a.mapInfo[id] EXCEPT !.nRandomPos = q] \in Info
      BY <2>0, <3>1 DEF Info
    <3>3. Same(a.mapInfo[id], a.mapInfo[id])
      BY DEF Same
    <3> QED BY <2>0, <2>1, <2>2, <3>2, <3>3
  <2>4. /\ id = id2 => m2[id] = [m1[id] EXCEPT !.nRandomPos = p]
        /\ id # id2 => m2[id] = m1[id]
    BY <1>1, <2>0
  <2> HIDE DEF m1, m2
  <2>5. CASE id = id2
    <3>1. Same(m2[id], m1[id]) /\ m2[id].nRandomPos = p
      <4>1. PICK info \in Info : info = m1[id]
        BY <2>3
      <4>2. Same([info EXCEPT !.nRandomPos = p], info) /\ [info EXCEPT !.nRandomPos = p].nRandomPos = p
        BY <2>1
      <4>3. m2[id] = [info EXCEPT !.nRandomPos = p]
        BY <2>4, <2>5, <4>1
      <4> QED BY <4>1, <4>2, <4>3
    <3>2. Same(m2[id], a.mapInfo[id])
      BY <2>3, <3>1 DEF Same
    <3> QED BY <2>5, <3>1, <3>2
  <2>6. CASE id # id2
    <3>1. m2[id] = m1[id]
      BY <2>4, <2>6
    <3>2. id = id1 => m1[id].nRandomPos = q
      <4>1. [a.mapInfo[id] EXCEPT !.nRandomPos = q].nRandomPos = q
        BY <2>0, <2>1
      <4> QED BY <2>2, <4>1
    <3> QED BY <2>2, <2>3, <2>6, <3>1, <3>2
  <2> QED BY <2>5, <2>6
<1> QED
  BY <1>2, <1>3, <1>4, <1>5, <1>6, <1>7 DEF Moved

Kept(r, a) == DOMAIN r.mapInfo = DOMAIN a.mapInfo /\ \A id \in DOMAIN a.mapInfo : Same(r.mapInfo[id], a.mapInfo[id])

LEMMA KeptIds ==
    ASSUME NEW a, NEW r, Kept(r, a)
    PROVE  TriedIds(r) = TriedIds(a) /\ NewIds(r) = NewIds(a)
<1>1. TriedIds(r) = TriedIds(a)
  BY DEF Kept, Same, TriedIds
<1> QED BY <1>1 DEF Kept, NewIds

\* The order in vRandom matters to nothing else.
LEMMA KeptInv ==
    ASSUME NEW a, NEW r, NEW x, AInv(a, x), Kept(r, a), Object(r), AddrTypeOK(r), Order(r),
           r.mapAddr = a.mapAddr, r.vvTried = a.vvTried, r.vvNew = a.vvNew, r.nTried = a.nTried, r.nNew = a.nNew
    PROVE  AInv(r, x)
<1>0. TriedIds(r) = TriedIds(a) /\ NewIds(r) = NewIds(a)
  BY KeptIds
<1>1. Addresses(r)
  BY DEF AInv, Addresses, Kept, Same
<1>2. Refs(r, x)
  <2>1. \A id : NewBucketsOf(r, id) = NewBucketsOf(a, id)
    BY DEF NewBucketsOf
  <2>2. \A id \in NewIds(a) : r.mapInfo[id].nRefCount = a.mapInfo[id].nRefCount
    BY DEF Kept, Same, NewIds
  <2> QED BY <1>0, <2>1, <2>2 DEF AInv, Refs
<1>3. Tries(r)
  <2>1. \A id \in TriedIds(a) : Same(r.mapInfo[id], a.mapInfo[id])
    BY DEF Kept, TriedIds
  <2>2. \A k : {id \in TriedIds(a) : GetTriedBucket[a.mapInfo[id].addr] = k}
                 = {id \in TriedIds(r) : GetTriedBucket[r.mapInfo[id].addr] = k}
    BY <1>0, <2>1 DEF Same
  <2>3. \A id \in TriedIds(r) : r.mapInfo[id].nRefCount = 0 /\ r.mapInfo[id].nLastSuccess # 0
    BY <1>0, <2>1 DEF AInv, Tries, Same
  <2> QED BY <1>0, <2>2, <2>3 DEF AInv, Tries
<1>4. Bounded(r)
  BY DEF AInv, Bounded
<1> QED BY <1>1, <1>2, <1>3, <1>4 DEF AInv

LEMMA SwapInv ==
    ASSUME NEW a, NEW x, AInv(a, x), NEW p \in 1 .. Len(a.vRandom), NEW q \in 1 .. Len(a.vRandom),
           NEW r, r = SwapRandom(a, p, q)
    PROVE  /\ AInv(r, x) /\ Kept(r, a)
           /\ r.nIdCount = a.nIdCount /\ r.mapAddr = a.mapAddr /\ r.vvTried = a.vvTried
           /\ r.vvNew = a.vvNew /\ r.nTried = a.nTried /\ r.nNew = a.nNew
           /\ Len(r.vRandom) = Len(a.vRandom)
           /\ r.vRandom[q] = a.vRandom[p]
<1>0. Object(a) /\ AddrTypeOK(a) /\ Order(a) /\ a.vRandom \in Seq(Nat)
  BY DEF AInv, AddrTypeOK
<1>1. /\ Object(r)
      /\ r.nIdCount = a.nIdCount /\ r.mapAddr = a.mapAddr /\ r.vvTried = a.vvTried
      /\ r.vvNew = a.vvNew /\ r.nTried = a.nTried /\ r.nNew = a.nNew
      /\ r.vRandom = [a.vRandom EXCEPT ![p] = a.vRandom[q], ![q] = a.vRandom[p]]
      /\ r.mapInfo \in [DOMAIN a.mapInfo -> Info]
  BY <1>0, SwapFields
<1>2. \A id \in DOMAIN a.mapInfo :
         /\ Same(r.mapInfo[id], a.mapInfo[id])
         /\ id = a.vRandom[q] => r.mapInfo[id].nRandomPos = p
         /\ id # a.vRandom[q] /\ id = a.vRandom[p] => r.mapInfo[id].nRandomPos = q
         /\ id # a.vRandom[q] /\ id # a.vRandom[p] => r.mapInfo[id].nRandomPos = a.mapInfo[id].nRandomPos
  <2>1. Moved(r, a, p, q)
    BY <1>0, SwapFields
  <2> QED BY <2>1 DEF Moved
<1>3. /\ r.vRandom \in Seq(Nat) /\ Len(r.vRandom) = Len(a.vRandom)
      /\ \A i \in 1 .. Len(a.vRandom) : r.vRandom[i] = IF i = q THEN a.vRandom[p]
                                                       ELSE IF i = p THEN a.vRandom[q] ELSE a.vRandom[i]
  <2> DEFINE v == a.vRandom
             w == [v EXCEPT ![p] = v[q]]
  <2>1. v[p] \in Nat /\ v[q] \in Nat
    BY <1>0, ElementOfSeq
  <2>2. /\ w \in Seq(Nat) /\ Len(w) = Len(v)
        /\ \A i \in 1 .. Len(v) : w[i] = IF i = p THEN v[q] ELSE v[i]
    BY <1>0, <2>1, ExceptSeq
  <2> HIDE DEF w
  <2>3. /\ [w EXCEPT ![q] = v[p]] \in Seq(Nat) /\ Len([w EXCEPT ![q] = v[p]]) = Len(w)
        /\ \A i \in 1 .. Len(w) : [w EXCEPT ![q] = v[p]][i] = IF i = q THEN v[p] ELSE w[i]
    BY <2>1, <2>2, ExceptSeq
  <2>4. r.vRandom = [w EXCEPT ![q] = v[p]]
    BY <1>1 DEF w
  <2> QED BY <2>2, <2>3, <2>4
<1>4. AddrTypeOK(r)
  BY <1>0, <1>1, <1>3 DEF AddrTypeOK
<1>5. Order(r)
  <2>1. ASSUME NEW id \in DOMAIN a.mapInfo
        PROVE  r.mapInfo[id].nRandomPos \in 1 .. Len(r.vRandom) /\ r.vRandom[r.mapInfo[id].nRandomPos] = id
    <3> DEFINE pos == a.mapInfo[id].nRandomPos
    <3>1. pos \in 1 .. Len(a.vRandom) /\ a.vRandom[pos] = id
      BY <1>0, <2>1 DEF Order
    <3>2. a.vRandom[p] = id => pos = p
      BY <1>0, <2>1 DEF Order
    <3>3. a.vRandom[q] = id => pos = q
      BY <1>0, <2>1 DEF Order
    <3> QED BY <1>2, <1>3, <3>1, <3>2, <3>3
  <2>2. ASSUME NEW i \in 1 .. Len(a.vRandom)
        PROVE  r.vRandom[i] \in DOMAIN a.mapInfo /\ r.mapInfo[r.vRandom[i]].nRandomPos = i
    <3>1. \A j \in 1 .. Len(a.vRandom) : a.vRandom[j] \in DOMAIN a.mapInfo /\ a.mapInfo[a.vRandom[j]].nRandomPos = j
      BY <1>0 DEF Order
    <3>2. \A j, k \in 1 .. Len(a.vRandom) : a.vRandom[j] = a.vRandom[k] => j = k
      BY <3>1
    <3>3. CASE i = q
      BY <1>2, <1>3, <3>1, <3>2, <3>3
    <3>4. CASE i # q /\ i = p
      BY <1>2, <1>3, <3>1, <3>2, <3>4
    <3>5. CASE i # q /\ i # p
      <4>1. r.vRandom[i] = a.vRandom[i]
        BY <1>3, <3>5
      <4>2. a.vRandom[i] \in DOMAIN a.mapInfo /\ a.vRandom[i] # a.vRandom[q] /\ a.vRandom[i] # a.vRandom[p]
        BY <3>1, <3>2, <3>5
      <4>3. r.mapInfo[a.vRandom[i]].nRandomPos = a.mapInfo[a.vRandom[i]].nRandomPos
        BY <1>2, <4>2
      <4> QED BY <3>1, <4>1, <4>2, <4>3
    <3> QED BY <3>3, <3>4, <3>5
  <2> QED BY <1>1, <1>3, <2>1, <2>2 DEF Order
<1>6. Kept(r, a)
  BY <1>1, <1>2 DEF Kept
<1> QED BY <1>1, <1>3, <1>4, <1>5, <1>6, KeptInv


-----------------------------------------------------------------------------
(* Entries that change their counters.                                     *)

LEMMA FiniteIds ==
    ASSUME NEW a, AddrTypeOK(a)
    PROVE  /\ IsFiniteSet(DOMAIN a.mapInfo) /\ IsFiniteSet(TriedIds(a)) /\ IsFiniteSet(NewIds(a))
           /\ \A S : S \subseteq DOMAIN a.mapInfo => IsFiniteSet(S)
           /\ \A id : IsFiniteSet(NewBucketsOf(a, id))
<1>1. IsFiniteSet(0 .. a.nIdCount - 1)
  <2>1. a.nIdCount - 1 \in Int /\ 0 \in Int
    BY DEF AddrTypeOK
  <2> QED BY <2>1, FS_Interval
<1>2. \A S : S \subseteq DOMAIN a.mapInfo => IsFiniteSet(S)
  <2>1. ASSUME NEW S, S \subseteq DOMAIN a.mapInfo PROVE IsFiniteSet(S)
    <3>1. S \in SUBSET (0 .. a.nIdCount - 1)
      BY <2>1 DEF AddrTypeOK
    <3> QED BY <1>1, <3>1, FS_Subset
  <2> QED BY <2>1
<1>3. IsFiniteSet(NewBuckets)
  BY FS_Interval, AddrAssumption DEF NewBuckets
<1>4. \A id : NewBucketsOf(a, id) \in SUBSET NewBuckets
  BY DEF NewBucketsOf
<1>5. \A id : IsFiniteSet(NewBucketsOf(a, id))
  BY <1>3, <1>4, FS_Subset
<1>6. TriedIds(a) \subseteq DOMAIN a.mapInfo /\ NewIds(a) \subseteq DOMAIN a.mapInfo
  BY DEF TriedIds, NewIds
<1> QED BY <1>2, <1>5, <1>6

\* All fields but mapInfo and vvNew.
SameFields(r, a) ==
    /\ r.nIdCount = a.nIdCount /\ r.mapAddr = a.mapAddr /\ r.vRandom = a.vRandom
    /\ r.vvTried = a.vvTried /\ r.nTried = a.nTried /\ r.nNew = a.nNew

Like(i, j) == i.addr = j.addr /\ i.fInTried = j.fInTried /\ i.nRandomPos = j.nRandomPos

Alike(r, a) == DOMAIN r.mapInfo = DOMAIN a.mapInfo /\ \A id \in DOMAIN a.mapInfo : Like(r.mapInfo[id], a.mapInfo[id])

LEMMA AlikeInv ==
    ASSUME NEW a, NEW x, AInv(a, x), NEW r, Object(r), SameFields(r, a), Alike(r, a),
           r.mapInfo \in [DOMAIN a.mapInfo -> Info], r.vvNew \in [NewBuckets -> SUBSET Nat],
           \A id \in TriedIds(a) : r.mapInfo[id].nRefCount = 0 /\ r.mapInfo[id].nLastSuccess # 0
    PROVE  /\ AddrTypeOK(r) /\ Order(r) /\ Addresses(r) /\ Tries(r)
           /\ TriedIds(r) = TriedIds(a) /\ NewIds(r) = NewIds(a)
<1>1. AddrTypeOK(r)
  BY DEF AInv, AddrTypeOK, SameFields
<1>2. TriedIds(r) = TriedIds(a)
  BY DEF Alike, Like, TriedIds
<1>3. NewIds(r) = NewIds(a)
  BY <1>2 DEF Alike, NewIds
<1>4. Order(r)
  <2>1. \A id \in DOMAIN a.mapInfo : r.mapInfo[id].nRandomPos = a.mapInfo[id].nRandomPos
    BY DEF Alike, Like
  <2>2. DOMAIN r.mapInfo = DOMAIN a.mapInfo /\ r.vRandom = a.vRandom /\ Order(a)
    BY DEF Alike, SameFields, AInv
  <2> QED BY <2>1, <2>2 DEF Order
<1>5. Addresses(r)
  <2>1. \A id \in DOMAIN a.mapInfo : r.mapInfo[id].addr = a.mapInfo[id].addr
    BY DEF Alike, Like
  <2>2. DOMAIN r.mapInfo = DOMAIN a.mapInfo /\ r.mapAddr = a.mapAddr /\ Addresses(a)
    BY DEF Alike, SameFields, AInv
  <2> QED BY <2>1, <2>2 DEF Addresses
<1>6. Tries(r)
  <2>1. \A id \in TriedIds(a) : r.mapInfo[id].addr = a.mapInfo[id].addr
    BY DEF Alike, Like, TriedIds
  <2>2. \A k : {id \in TriedIds(r) : GetTriedBucket[r.mapInfo[id].addr] = k}
                 = {id \in TriedIds(a) : GetTriedBucket[a.mapInfo[id].addr] = k}
    BY <1>2, <2>1
  <2>3. r.vvTried = a.vvTried /\ r.nTried = a.nTried /\ Tries(a)
    BY DEF SameFields, AInv
  <2> QED BY <1>2, <2>2, <2>3 DEF Tries
<1> QED BY <1>1, <1>2, <1>3, <1>4, <1>5, <1>6

\* One more reference is counted, before the entry is in the bucket.
Counted(r, a, i) ==
    /\ Object(r) /\ SameFields(r, a) /\ r.vvNew = a.vvNew
    /\ r.mapInfo = [a.mapInfo EXCEPT ![i] = [a.mapInfo[i] EXCEPT !.nRefCount = a.mapInfo[i].nRefCount + 1]]

LEMMA CountedInv ==
    ASSUME NEW a, AInv(a, None), NEW i \in NewIds(a), a.mapInfo[i].nRefCount # NEW_BUCKETS_PER_ADDRESS,
           NEW r, Counted(r, a, i)
    PROVE  AInv(r, i) /\ Alike(r, a)
<1>0. /\ Object(a) /\ AddrTypeOK(a) /\ a.mapInfo \in [DOMAIN a.mapInfo -> Info] /\ i \in DOMAIN a.mapInfo
      /\ i \in Nat /\ Refs(a, None)
  BY DEF AInv, AddrTypeOK, NewIds
<1>1. Object(r) /\ SameFields(r, a) /\ r.vvNew = a.vvNew
  BY DEF Counted
<1>2. r.mapInfo = [a.mapInfo EXCEPT ![i] = [a.mapInfo[i] EXCEPT !.nRefCount = a.mapInfo[i].nRefCount + 1]]
  BY DEF Counted
<1>3. a.mapInfo[i] \in Info /\ a.mapInfo[i].nRefCount \in Int
  BY <1>0 DEF Info
<1>4. [a.mapInfo[i] EXCEPT !.nRefCount = a.mapInfo[i].nRefCount + 1] \in Info
  BY <1>3 DEF Info
<1>5. r.mapInfo \in [DOMAIN a.mapInfo -> Info]
  BY <1>0, <1>2, <1>4
<1>6. Alike(r, a)
  BY <1>0, <1>2, <1>3 DEF Alike, Like, Info
<1>7. \A id \in DOMAIN a.mapInfo : id # i => r.mapInfo[id] = a.mapInfo[id]
  BY <1>0, <1>2
<1>8. r.mapInfo[i].nRefCount = a.mapInfo[i].nRefCount + 1
  BY <1>0, <1>2, <1>3 DEF Info
<1>9. \A id \in TriedIds(a) : r.mapInfo[id].nRefCount = 0 /\ r.mapInfo[id].nLastSuccess # 0
  <2>1. i \notin TriedIds(a) /\ TriedIds(a) \subseteq DOMAIN a.mapInfo
    BY DEF NewIds, TriedIds
  <2> QED BY <1>7, <2>1 DEF AInv, Tries
<1>10. r.vvNew \in [NewBuckets -> SUBSET Nat]
  BY <1>0, <1>1 DEF AddrTypeOK
<1>11. /\ AddrTypeOK(r) /\ Order(r) /\ Addresses(r) /\ Tries(r)
       /\ TriedIds(r) = TriedIds(a) /\ NewIds(r) = NewIds(a)
  BY <1>1, <1>5, <1>6, <1>9, <1>10, AlikeInv
<1>12. Refs(r, i)
  <2>1. \A id : NewBucketsOf(r, id) = NewBucketsOf(a, id)
    BY <1>1 DEF NewBucketsOf
  <2>2. ASSUME NEW id \in NewIds(a)
        PROVE  /\ r.mapInfo[id].nRefCount = Cardinality(NewBucketsOf(r, id)) + (IF id = i THEN 1 ELSE 0)
               /\ r.mapInfo[id].nRefCount \in 1 .. NEW_BUCKETS_PER_ADDRESS
    <3>1. id \in DOMAIN a.mapInfo /\ id \in Nat /\ id # None
      BY <1>0, <2>2, AddrAssumption DEF NewIds, AddrTypeOK
    <3>2. /\ a.mapInfo[id].nRefCount = Cardinality(NewBucketsOf(a, id)) + (IF id = None THEN 1 ELSE 0)
          /\ a.mapInfo[id].nRefCount \in 1 .. NEW_BUCKETS_PER_ADDRESS
      BY <1>0, <2>2 DEF Refs
    <3>3. Cardinality(NewBucketsOf(a, id)) \in Nat
      BY <1>0, FiniteIds, FS_CardinalityType
    <3>4. CASE id = i
      BY <1>8, <2>1, <3>1, <3>2, <3>3, <3>4, AddrAssumption
    <3>5. CASE id # i
      BY <1>7, <2>1, <3>1, <3>2, <3>3, <3>5
    <3> QED BY <3>4, <3>5
  <2>3. (\A b \in NewBuckets : r.vvNew[b] \subseteq NewIds(r)) /\ r.nNew = Cardinality(NewIds(r))
    BY <1>0, <1>1, <1>11 DEF Refs, SameFields
  <2> QED BY <1>11, <2>2, <2>3 DEF Refs
<1>13. Bounded(r)
  BY <1>1 DEF AInv, Bounded, SameFields
<1> QED BY <1>1, <1>6, <1>11, <1>12, <1>13 DEF AInv


\* A bucket gives up an entry that has other references.
Released(r, a, b, i) ==
    /\ Object(r) /\ SameFields(r, a) /\ r.vvNew = [a.vvNew EXCEPT ![b] = a.vvNew[b] \ {i}]
    /\ r.mapInfo = [a.mapInfo EXCEPT ![i] = [a.mapInfo[i] EXCEPT !.nRefCount = a.mapInfo[i].nRefCount - 1]]

LEMMA ReleasedInv ==
    ASSUME NEW a, NEW x, AInv(a, x), NEW b \in NewBuckets, NEW i \in a.vvNew[b], i # x,
           a.mapInfo[i].nRefCount # 1,
           NEW r, Released(r, a, b, i)
    PROVE  AInv(r, x) /\ Alike(r, a)
<1>0. /\ Object(a) /\ AddrTypeOK(a) /\ a.mapInfo \in [DOMAIN a.mapInfo -> Info] /\ i \in NewIds(a)
      /\ i \in DOMAIN a.mapInfo /\ Refs(a, x) /\ a.vvNew \in [NewBuckets -> SUBSET Nat]
  BY DEF AInv, AddrTypeOK, NewIds, Refs
<1>1. Object(r) /\ SameFields(r, a) /\ r.vvNew = [a.vvNew EXCEPT ![b] = a.vvNew[b] \ {i}]
  BY DEF Released
<1>2. r.mapInfo = [a.mapInfo EXCEPT ![i] = [a.mapInfo[i] EXCEPT !.nRefCount = a.mapInfo[i].nRefCount - 1]]
  BY DEF Released
<1>3. a.mapInfo[i] \in Info /\ a.mapInfo[i].nRefCount \in Int
  BY <1>0 DEF Info
<1>4. [a.mapInfo[i] EXCEPT !.nRefCount = a.mapInfo[i].nRefCount - 1] \in Info
  BY <1>3 DEF Info
<1>5. r.mapInfo \in [DOMAIN a.mapInfo -> Info]
  BY <1>0, <1>2, <1>4
<1>6. Alike(r, a)
  BY <1>0, <1>2, <1>3 DEF Alike, Like, Info
<1>7. \A id \in DOMAIN a.mapInfo : id # i => r.mapInfo[id] = a.mapInfo[id]
  BY <1>0, <1>2
<1>8. r.mapInfo[i].nRefCount = a.mapInfo[i].nRefCount - 1
  BY <1>0, <1>2, <1>3 DEF Info
<1>9. \A id \in TriedIds(a) : r.mapInfo[id].nRefCount = 0 /\ r.mapInfo[id].nLastSuccess # 0
  <2>1. i \notin TriedIds(a) /\ TriedIds(a) \subseteq DOMAIN a.mapInfo
    BY <1>0 DEF NewIds, TriedIds
  <2> QED BY <1>7, <2>1 DEF AInv, Tries
<1>10. r.vvNew \in [NewBuckets -> SUBSET Nat]
  BY <1>0, <1>1
<1>11. /\ AddrTypeOK(r) /\ Order(r) /\ Addresses(r) /\ Tries(r)
       /\ TriedIds(r) = TriedIds(a) /\ NewIds(r) = NewIds(a)
  BY <1>1, <1>5, <1>6, <1>9, <1>10, AlikeInv
<1>12. Refs(r, x)
  <2>1. \A id : id # i => NewBucketsOf(r, id) = NewBucketsOf(a, id)
    BY <1>0, <1>1 DEF NewBucketsOf
  <2>2. NewBucketsOf(r, i) = NewBucketsOf(a, i) \ {b} /\ b \in NewBucketsOf(a, i)
    BY <1>0, <1>1 DEF NewBucketsOf
  <2>3. Cardinality(NewBucketsOf(r, i)) = Cardinality(NewBucketsOf(a, i)) - 1
    BY <1>0, <2>2, FiniteIds, FS_RemoveElement
  <2>4. ASSUME NEW id \in NewIds(a)
        PROVE  /\ r.mapInfo[id].nRefCount = Cardinality(NewBucketsOf(r, id)) + (IF id = x THEN 1 ELSE 0)
               /\ r.mapInfo[id].nRefCount \in 1 .. NEW_BUCKETS_PER_ADDRESS
    <3>1. id \in DOMAIN a.mapInfo
      BY <2>4 DEF NewIds
    <3>2. /\ a.mapInfo[id].nRefCount = Cardinality(NewBucketsOf(a, id)) + (IF id = x THEN 1 ELSE 0)
          /\ a.mapInfo[id].nRefCount \in 1 .. NEW_BUCKETS_PER_ADDRESS
      BY <1>0, <2>4 DEF Refs
    <3>3. Cardinality(NewBucketsOf(a, id)) \in Nat
      BY <1>0, FiniteIds, FS_CardinalityType
    <3>4. CASE id = i
      <4>1. a.mapInfo[i].nRefCount = Cardinality(NewBucketsOf(a, i))
        BY <3>2, <3>3, <3>4
      <4> QED BY <1>8, <2>3, <3>2, <3>3, <3>4, <4>1, AddrAssumption
    <3>5. CASE id # i
      BY <1>7, <2>1, <3>1, <3>2, <3>3, <3>5
    <3> QED BY <3>4, <3>5
  <2>5. (\A c \in NewBuckets : r.vvNew[c] \subseteq NewIds(r)) /\ r.nNew = Cardinality(NewIds(r))
    BY <1>0, <1>1, <1>11 DEF Refs, SameFields
  <2> QED BY <1>11, <2>4, <2>5 DEF Refs
<1>13. Bounded(r)
  <2>1. ASSUME NEW c \in NewBuckets PROVE Cardinality(r.vvNew[c]) <= NEW_BUCKET_SIZE
    <3>1. Cardinality(a.vvNew[c]) <= NEW_BUCKET_SIZE
      BY DEF AInv, Bounded
    <3>2. IsFiniteSet(a.vvNew[c])
      BY <1>0, FiniteIds DEF Refs, NewIds
    <3>3. r.vvNew[c] \in SUBSET a.vvNew[c]
      BY <1>0, <1>1
    <3>4. Cardinality(r.vvNew[c]) <= Cardinality(a.vvNew[c]) /\ IsFiniteSet(r.vvNew[c])
      BY <3>2, <3>3, FS_Subset
    <3>5. Cardinality(r.vvNew[c]) \in Nat /\ Cardinality(a.vvNew[c]) \in Nat
      BY <3>2, <3>4, FS_CardinalityType
    <3> QED BY <3>1, <3>4, <3>5, AddrAssumption
  <2>2. \A k \in TriedBuckets : Len(r.vvTried[k]) <= TRIED_BUCKET_SIZE
    BY <1>1 DEF AInv, Bounded, SameFields
  <2> QED BY <2>1, <2>2 DEF Bounded
<1> QED BY <1>1, <1>6, <1>11, <1>12, <1>13 DEF AInv

\* The entry that was counted enters its bucket.
Placed(r, a, b, i) ==
    /\ Object(r) /\ SameFields(r, a) /\ r.mapInfo = a.mapInfo
    /\ r.vvNew = [a.vvNew EXCEPT ![b] = a.vvNew[b] \cup {i}]

LEMMA PlacedInv ==
    ASSUME NEW a, NEW i \in NewIds(a), AInv(a, i), NEW b \in NewBuckets, i \notin a.vvNew[b],
           Cardinality(a.vvNew[b]) < NEW_BUCKET_SIZE,
           NEW r, Placed(r, a, b, i)
    PROVE  AInv(r, None)
<1>0. /\ Object(a) /\ AddrTypeOK(a) /\ a.mapInfo \in [DOMAIN a.mapInfo -> Info]
      /\ i \in DOMAIN a.mapInfo /\ i \in Nat /\ Refs(a, i) /\ a.vvNew \in [NewBuckets -> SUBSET Nat]
  BY DEF AInv, AddrTypeOK, NewIds
<1>1. Object(r) /\ SameFields(r, a) /\ r.vvNew = [a.vvNew EXCEPT ![b] = a.vvNew[b] \cup {i}] /\ r.mapInfo = a.mapInfo
  BY DEF Placed
<1>2. Alike(r, a) /\ r.mapInfo \in [DOMAIN a.mapInfo -> Info]
  BY <1>0, <1>1 DEF Alike, Like
<1>3. r.vvNew \in [NewBuckets -> SUBSET Nat]
  BY <1>0, <1>1
<1>4. \A id \in TriedIds(a) : r.mapInfo[id].nRefCount = 0 /\ r.mapInfo[id].nLastSuccess # 0
  BY <1>1 DEF AInv, Tries
<1>5. /\ AddrTypeOK(r) /\ Order(r) /\ Addresses(r) /\ Tries(r)
      /\ TriedIds(r) = TriedIds(a) /\ NewIds(r) = NewIds(a)
  BY <1>1, <1>2, <1>3, <1>4, AlikeInv
<1>6. Refs(r, None)
  <2>1. \A id : id # i => NewBucketsOf(r, id) = NewBucketsOf(a, id)
    BY <1>0, <1>1 DEF NewBucketsOf
  <2>2. NewBucketsOf(r, i) = NewBucketsOf(a, i) \cup {b} /\ b \notin NewBucketsOf(a, i)
    BY <1>0, <1>1 DEF NewBucketsOf
  <2>3. Cardinality(NewBucketsOf(r, i)) = Cardinality(NewBucketsOf(a, i)) + 1
    BY <1>0, <2>2, FiniteIds, FS_AddElement
  <2>4. ASSUME NEW id \in NewIds(a)
        PROVE  /\ r.mapInfo[id].nRefCount = Cardinality(NewBucketsOf(r, id)) + (IF id = None THEN 1 ELSE 0)
               /\ r.mapInfo[id].nRefCount \in 1 .. NEW_BUCKETS_PER_ADDRESS
    <3>1. id \in DOMAIN a.mapInfo /\ id \in Nat /\ id # None
      BY <1>0, <2>4, AddrAssumption DEF NewIds, AddrTypeOK
    <3>2. /\ a.mapInfo[id].nRefCount = Cardinality(NewBucketsOf(a, id)) + (IF id = i THEN 1 ELSE 0)
          /\ a.mapInfo[id].nRefCount \in 1 .. NEW_BUCKETS_PER_ADDRESS
      BY <1>0, <2>4 DEF Refs
    <3>3. Cardinality(NewBucketsOf(a, id)) \in Nat
      BY <1>0, FiniteIds, FS_CardinalityType
    <3> QED BY <1>1, <2>1, <2>3, <3>1, <3>2, <3>3
  <2>5. (\A c \in NewBuckets : r.vvNew[c] \subseteq NewIds(r)) /\ r.nNew = Cardinality(NewIds(r))
    BY <1>0, <1>1, <1>5 DEF Refs, SameFields
  <2> QED BY <1>5, <2>4, <2>5 DEF Refs
<1>7. Bounded(r)
  <2>1. ASSUME NEW c \in NewBuckets PROVE Cardinality(r.vvNew[c]) <= NEW_BUCKET_SIZE
    <3>1. Cardinality(a.vvNew[c]) <= NEW_BUCKET_SIZE
      BY DEF AInv, Bounded
    <3>2. IsFiniteSet(a.vvNew[b])
      BY <1>0, FiniteIds DEF Refs, NewIds
    <3>3. Cardinality(a.vvNew[b] \cup {i}) = Cardinality(a.vvNew[b]) + 1 /\ Cardinality(a.vvNew[b]) \in Nat
      BY <3>2, FS_AddElement, FS_CardinalityType
    <3> QED BY <1>0, <1>1, <3>1, <3>3, AddrAssumption
  <2>2. \A k \in TriedBuckets : Len(r.vvTried[k]) <= TRIED_BUCKET_SIZE
    BY <1>1 DEF AInv, Bounded, SameFields
  <2> QED BY <2>1, <2>2 DEF Bounded
<1> QED BY <1>1, <1>5, <1>6, <1>7 DEF AInv


\* r is a without the entry i, which was the last one of vRandom.
Removed(r, a, b, i) ==
    /\ Object(r) /\ r.nIdCount = a.nIdCount /\ r.vvTried = a.vvTried /\ r.nTried = a.nTried
    /\ r.vvNew = [a.vvNew EXCEPT ![b] = a.vvNew[b] \ {i}]
    /\ r.vRandom = Front(a.vRandom)
    /\ r.mapAddr = Without(a.mapAddr, IP[a.mapInfo[i].addr])
    /\ r.mapInfo = Without(a.mapInfo, i)
    /\ r.nNew = a.nNew - 1

\* Only bucket b refers to i, the last entry of vRandom.
LastOne(a, b, i) == NewBucketsOf(a, i) \subseteq {b} /\ a.vRandom[Len(a.vRandom)] = i

Gone(r, a, i) == NewIds(r) = NewIds(a) \ {i} /\ TriedIds(r) = TriedIds(a)

LEMMA RemovedInv ==
    ASSUME NEW a, NEW x, AInv(a, x), NEW b \in NewBuckets, NEW i \in NewIds(a), i # x,
           LastOne(a, b, i),
           NEW r, Removed(r, a, b, i)
    PROVE  AInv(r, x) /\ Gone(r, a, i)
<1>0. /\ Object(a) /\ AddrTypeOK(a) /\ a.mapInfo \in [DOMAIN a.mapInfo -> Info]
      /\ i \in DOMAIN a.mapInfo /\ Refs(a, x) /\ a.vvNew \in [NewBuckets -> SUBSET Nat]
      /\ Order(a) /\ Addresses(a) /\ Tries(a) /\ Bounded(a) /\ a.vRandom \in Seq(Nat)
      /\ Object(r) /\ r.vvNew = [a.vvNew EXCEPT ![b] = a.vvNew[b] \ {i}]
      /\ NewBucketsOf(a, i) \subseteq {b} /\ a.vRandom[Len(a.vRandom)] = i
  BY DEF AInv, AddrTypeOK, NewIds, Removed, LastOne
<1>1. /\ DOMAIN r.mapInfo = DOMAIN a.mapInfo \ {i}
      /\ \A id \in DOMAIN a.mapInfo \ {i} : r.mapInfo[id] = a.mapInfo[id]
  BY DEF Removed, Without, Restrict
<1>2. i \notin TriedIds(a) /\ TriedIds(r) = TriedIds(a)
  BY <1>1 DEF NewIds, TriedIds
<1>3. NewIds(r) = NewIds(a) \ {i}
  BY <1>1, <1>2 DEF NewIds
<1> DEFINE n == Len(a.vRandom)
           ip == IP[a.mapInfo[i].addr]
<1>a. a.vRandom[n] = i /\ NewBucketsOf(a, i) \subseteq {b}
  BY <1>0
<1>4. n \in Nat /\ n >= 1 /\ a.mapInfo[i].nRandomPos = n
  <2>1. a.mapInfo[i].nRandomPos \in 1 .. n /\ n \in Nat
    BY <1>0, LenProperties DEF Order
  <2>2. n \in 1 .. n
    BY <2>1
  <2> QED BY <1>0, <2>1, <2>2 DEF Order
<1>5. /\ r.vRandom \in Seq(Nat) /\ Len(r.vRandom) = n - 1
      /\ \A p \in 1 .. n - 1 : r.vRandom[p] = a.vRandom[p]
  <2>1. \A p \in 1 .. n - 1 : a.vRandom[p] \in Nat
    BY <1>0, <1>4, ElementOfSeq
  <2>2. 1 \in Int /\ n - 1 \in Int /\ (n - 1) - 1 + 1 = n - 1
    BY <1>4
  <2>3. /\ SubSeq(a.vRandom, 1, n - 1) \in Seq(Nat)
        /\ Len(SubSeq(a.vRandom, 1, n - 1)) = IF 1 <= n - 1 THEN (n - 1) - 1 + 1 ELSE 0
        /\ \A p \in 1 .. (n - 1) - 1 + 1 : SubSeq(a.vRandom, 1, n - 1)[p] = a.vRandom[1 + p - 1]
    BY <2>1, <2>2, SubSeqProperties
  <2>4. Front(a.vRandom) = SubSeq(a.vRandom, 1, n - 1)
    BY DEF Front
  <2> HIDE DEF n
  <2> QED BY <1>4, <2>2, <2>3, <2>4 DEF Removed
<1>6. /\ DOMAIN r.mapAddr = DOMAIN a.mapAddr \ {ip}
      /\ \A h \in DOMAIN a.mapAddr \ {ip} : r.mapAddr[h] = a.mapAddr[h]
  BY DEF Removed, Without, Restrict
<1>7. IsFiniteSet(NewIds(a)) /\ IsFiniteSet(NewIds(r)) /\ Cardinality(NewIds(r)) = Cardinality(NewIds(a)) - 1
      /\ Cardinality(NewIds(r)) \in Nat
  BY <1>0, <1>3, FiniteIds, FS_RemoveElement, FS_CardinalityType
<1>8. r.nNew = Cardinality(NewIds(r)) /\ r.nNew \in Nat
  BY <1>0, <1>7 DEF Refs, Removed
<1>9. AddrTypeOK(r)
  <2>1. r.nIdCount = a.nIdCount /\ r.vvTried = a.vvTried /\ r.nTried = a.nTried
    BY DEF Removed
  <2>2. r.mapInfo \in [DOMAIN r.mapInfo -> Info] /\ DOMAIN r.mapInfo \subseteq 0 .. r.nIdCount - 1 /\ r.nIdCount \in Nat
    <3>1. r.mapInfo = [id \in DOMAIN a.mapInfo \ {i} |-> a.mapInfo[id]]
      BY DEF Removed, Without, Restrict
    <3> QED BY <1>0, <2>1, <3>1 DEF AddrTypeOK
  <2>3. r.mapAddr \in [DOMAIN r.mapAddr -> Nat] /\ DOMAIN r.mapAddr \subseteq IPs
    <3>1. r.mapAddr = [h \in DOMAIN a.mapAddr \ {ip} |-> a.mapAddr[h]]
      BY DEF Removed, Without, Restrict
    <3> QED BY <1>0, <3>1 DEF AddrTypeOK
  <2>4. r.vvNew \in [NewBuckets -> SUBSET Nat]
    BY <1>0
  <2> QED BY <1>0, <1>5, <1>8, <2>1, <2>2, <2>3, <2>4 DEF AddrTypeOK
<1>10. Order(r)
  <2>1. ASSUME NEW id \in DOMAIN a.mapInfo \ {i}
        PROVE  r.mapInfo[id].nRandomPos \in 1 .. Len(r.vRandom) /\ r.vRandom[r.mapInfo[id].nRandomPos] = id
    <3>1. a.mapInfo[id].nRandomPos \in 1 .. n /\ a.vRandom[a.mapInfo[id].nRandomPos] = id
      BY <1>0 DEF Order
    <3>2. a.mapInfo[id].nRandomPos # n
      BY <1>a, <3>1
    <3>3. r.mapInfo[id].nRandomPos = a.mapInfo[id].nRandomPos
      BY <1>1
    <3> HIDE DEF n
    <3> QED BY <1>4, <1>5, <3>1, <3>2, <3>3
  <2>2. ASSUME NEW p \in 1 .. n - 1
        PROVE  r.vRandom[p] \in DOMAIN a.mapInfo \ {i} /\ r.mapInfo[r.vRandom[p]].nRandomPos = p
    <3>1. p \in 1 .. n /\ p # n
      BY <1>4
    <3>2. a.vRandom[p] \in DOMAIN a.mapInfo /\ a.mapInfo[a.vRandom[p]].nRandomPos = p
      BY <1>0, <3>1 DEF Order
    <3>3. a.vRandom[p] # i
      BY <1>4, <3>1, <3>2
    <3> QED BY <1>1, <1>5, <3>2, <3>3
  <2> QED BY <1>1, <1>5, <2>1, <2>2 DEF Order
<1>11. Addresses(r)
  <2>1. ASSUME NEW id \in DOMAIN a.mapInfo \ {i}
        PROVE  IP[r.mapInfo[id].addr] \in DOMAIN r.mapAddr /\ r.mapAddr[IP[r.mapInfo[id].addr]] = id
    <3>1. IP[a.mapInfo[id].addr] \in DOMAIN a.mapAddr /\ a.mapAddr[IP[a.mapInfo[id].addr]] = id
      BY <1>0 DEF Addresses
    <3>2. a.mapAddr[ip] = i
      BY <1>0 DEF Addresses
    <3> QED BY <1>1, <1>6, <3>1, <3>2
  <2>2. ASSUME NEW h \in DOMAIN a.mapAddr \ {ip}
        PROVE  r.mapAddr[h] \in DOMAIN r.mapInfo /\ IP[r.mapInfo[r.mapAddr[h]].addr] = h
    <3>1. a.mapAddr[h] \in DOMAIN a.mapInfo /\ IP[a.mapInfo[a.mapAddr[h]].addr] = h
      BY <1>0 DEF Addresses
    <3> QED BY <1>1, <1>6, <3>1
  <2> QED BY <1>1, <1>6, <2>1, <2>2 DEF Addresses
<1>12. Refs(r, x)
  <2>1. \A id : id # i => NewBucketsOf(r, id) = NewBucketsOf(a, id)
    BY <1>0 DEF NewBucketsOf
  <2>2. \A id \in NewIds(r) : id \in NewIds(a) /\ id # i /\ r.mapInfo[id] = a.mapInfo[id]
    BY <1>1, <1>3 DEF NewIds
  <2>3. \A c \in NewBuckets : r.vvNew[c] \subseteq NewIds(r)
    <3>1. \A c \in NewBuckets : c # b => i \notin a.vvNew[c]
      BY <1>a DEF NewBucketsOf
    <3> QED BY <1>0, <1>3, <3>1 DEF Refs
  <2> QED BY <1>0, <1>8, <2>1, <2>2, <2>3 DEF Refs
<1>13. Tries(r)
  <2>1. \A id \in TriedIds(a) : r.mapInfo[id] = a.mapInfo[id]
    BY <1>1, <1>2 DEF TriedIds
  <2>2. \A k : {id \in TriedIds(r) : GetTriedBucket[r.mapInfo[id].addr] = k}
                 = {id \in TriedIds(a) : GetTriedBucket[a.mapInfo[id].addr] = k}
    BY <1>2, <2>1
  <2>3. r.vvTried = a.vvTried /\ r.nTried = a.nTried /\ Tries(a)
    BY <1>0 DEF Removed
  <2> QED BY <1>2, <2>1, <2>2, <2>3 DEF Tries
<1>14. Bounded(r)
  <2>1. ASSUME NEW c \in NewBuckets PROVE Cardinality(r.vvNew[c]) <= NEW_BUCKET_SIZE
    <3>1. Cardinality(a.vvNew[c]) <= NEW_BUCKET_SIZE
      BY <1>0 DEF Bounded
    <3>2. IsFiniteSet(a.vvNew[c])
      BY <1>0, FiniteIds DEF Refs, NewIds
    <3>3. r.vvNew[c] \in SUBSET a.vvNew[c]
      BY <1>0
    <3>4. Cardinality(r.vvNew[c]) <= Cardinality(a.vvNew[c]) /\ IsFiniteSet(r.vvNew[c])
      BY <3>2, <3>3, FS_Subset
    <3>5. Cardinality(r.vvNew[c]) \in Nat /\ Cardinality(a.vvNew[c]) \in Nat
      BY <3>2, <3>4, FS_CardinalityType
    <3> QED BY <3>1, <3>4, <3>5, AddrAssumption
  <2> QED BY <1>0, <2>1 DEF Bounded, Removed
<1> QED BY <1>0, <1>1, <1>2, <1>3, <1>9, <1>10, <1>11, <1>12, <1>13, <1>14 DEF AInv, Gone


\* What ShrinkNew does: at most the entry i goes, and the others keep their addresses.
Shrunk(r, a, b, i) ==
    /\ NewIds(r) = NewIds(a) \/ NewIds(r) = NewIds(a) \ {i}
    /\ TriedIds(r) = TriedIds(a)
    /\ r.vvNew[b] = a.vvNew[b] \ {i}
    /\ \A id \in DOMAIN r.mapInfo : id \in DOMAIN a.mapInfo /\ r.mapInfo[id].addr = a.mapInfo[id].addr

LEMMA ShrinkInv ==
    ASSUME NEW a, NEW x, AInv(a, x), NEW b \in NewBuckets, NEW i \in a.vvNew[b], i # x,
           NEW r, r = [Unref(a, i) EXCEPT !.vvNew[b] = @ \ {i}]
    PROVE  AInv(r, x) /\ Shrunk(r, a, b, i)
<1>0. /\ Object(a) /\ AddrTypeOK(a) /\ i \in NewIds(a) /\ i \in DOMAIN a.mapInfo /\ Refs(a, x)
      /\ a.vvNew \in [NewBuckets -> SUBSET Nat] /\ Order(a) /\ a.vRandom \in Seq(Nat)
  BY DEF AInv, AddrTypeOK, NewIds, Refs
<1>1. CASE a.mapInfo[i].nRefCount # 1
  <2>1. r = [[a EXCEPT !.mapInfo[i].nRefCount = a.mapInfo[i].nRefCount - 1] EXCEPT !.vvNew[b] = @ \ {i}]
    BY <1>1 DEF Unref
  <2>5. Object(r) /\ SameFields(r, a) /\ r.vvNew = [a.vvNew EXCEPT ![b] = a.vvNew[b] \ {i}]
    BY <1>0, <2>1 DEF Object, SameFields
  <2>6. r.mapInfo = [a.mapInfo EXCEPT ![i] = [a.mapInfo[i] EXCEPT !.nRefCount = a.mapInfo[i].nRefCount - 1]]
    BY <1>0, <2>1 DEF Object
  <2>7. Released(r, a, b, i)
    BY <2>5, <2>6 DEF Released
  <2>2. AInv(r, x) /\ Alike(r, a)
    BY <1>1, <2>7, ReleasedInv
  <2>3. TriedIds(r) = TriedIds(a)
    BY <2>2 DEF Alike, Like, TriedIds
  <2>4. NewIds(r) = NewIds(a)
    BY <2>2, <2>3 DEF Alike, NewIds
  <2> QED BY <1>0, <2>2, <2>3, <2>4, <2>5 DEF Alike, Like, Shrunk
<1>2. CASE a.mapInfo[i].nRefCount = 1
  <2> DEFINE info == a.mapInfo[i]
             n == Len(a.vRandom)
  <2>1. info.nRandomPos \in 1 .. n /\ a.vRandom[info.nRandomPos] = i /\ n \in Nat /\ n \in 1 .. n
    <3>1. info.nRandomPos \in 1 .. n /\ a.vRandom[info.nRandomPos] = i /\ n \in Nat
      BY <1>0, LenProperties DEF Order
    <3> QED BY <3>1
  <2>2. PICK last : last = SwapRandom(a, info.nRandomPos, n)
    OBVIOUS
  <2>3. /\ AInv(last, x) /\ Kept(last, a)
        /\ last.nIdCount = a.nIdCount /\ last.mapAddr = a.mapAddr /\ last.vvTried = a.vvTried
        /\ last.vvNew = a.vvNew /\ last.nTried = a.nTried /\ last.nNew = a.nNew
        /\ Len(last.vRandom) = n /\ last.vRandom[n] = i
    BY <2>1, <2>2, SwapInv
  <2>4. r = [[last EXCEPT !.vRandom = Front(last.vRandom),
                          !.mapAddr = Without(last.mapAddr, IP[info.addr]),
                          !.mapInfo = Without(last.mapInfo, i),
                          !.nNew    = a.nNew - 1] EXCEPT !.vvNew[b] = @ \ {i}]
    BY <1>2, <2>2 DEF Unref
  <2>5. Object(last) /\ last.vvNew \in [NewBuckets -> SUBSET Nat]
    BY <1>0, <2>3 DEF AInv
  <2>6. /\ Object(r) /\ r.vvNew = [last.vvNew EXCEPT ![b] = last.vvNew[b] \ {i}]
        /\ r.nIdCount = last.nIdCount /\ r.vvTried = last.vvTried /\ r.nTried = last.nTried
        /\ r.vRandom = Front(last.vRandom) /\ r.mapAddr = Without(last.mapAddr, IP[info.addr])
        /\ r.mapInfo = Without(last.mapInfo, i) /\ r.nNew = a.nNew - 1
    BY <2>4, <2>5 DEF Object
  <2>7. last.mapInfo[i].addr = info.addr
    BY <1>0, <2>3 DEF Kept, Same
  <2>8. Removed(r, last, b, i)
    BY <2>3, <2>6, <2>7 DEF Removed
  <2>9. NewIds(last) = NewIds(a) /\ TriedIds(last) = TriedIds(a)
    BY <2>3, KeptIds
  <2>10. NewBucketsOf(last, i) \subseteq {b}
    <3>1. NewBucketsOf(last, i) = NewBucketsOf(a, i) /\ b \in NewBucketsOf(a, i)
      BY <2>3 DEF NewBucketsOf
    <3>2. IsFiniteSet(NewBucketsOf(a, i)) /\ Cardinality(NewBucketsOf(a, i)) \in Nat
      BY <1>0, FiniteIds, FS_CardinalityType
    <3>3. Cardinality(NewBucketsOf(a, i)) = 1
      BY <1>0, <1>2, <3>2 DEF Refs
    <3>4. PICK y : NewBucketsOf(a, i) = {y}
      BY <3>2, <3>3, FS_Singleton
    <3> QED BY <3>1, <3>4
  <2>11. AInv(r, x) /\ Gone(r, last, i)
    <3>1. AInv(last, x) /\ i \in NewIds(last) /\ LastOne(last, b, i)
      BY <1>0, <2>3, <2>9, <2>10 DEF LastOne
    <3> QED BY <2>8, <3>1, RemovedInv
  <2>12. \A id \in DOMAIN r.mapInfo : id \in DOMAIN a.mapInfo /\ r.mapInfo[id].addr = a.mapInfo[id].addr
    BY <2>3, <2>6 DEF Kept, Same, Without, Restrict
  <2>13. r.vvNew[b] = a.vvNew[b] \ {i}
    BY <1>0, <2>3, <2>6
  <2> QED BY <2>9, <2>11, <2>12, <2>13 DEF Gone, Shrunk
<1> QED BY <1>1, <1>2


-----------------------------------------------------------------------------
(* Add_.                                                                   *)

\* r has the entries of c, or all but one that is not id and was not tried.
Less(r, c, id) ==
    /\ TriedIds(r) = TriedIds(c)
    /\ NewIds(r) = NewIds(c) \/ \E i \in NewIds(c) : i # id /\ NewIds(r) = NewIds(c) \ {i}
    /\ \A j \in DOMAIN r.mapInfo : j \in DOMAIN c.mapInfo /\ r.mapInfo[j].addr = c.mapInfo[j].addr

Entered(c, id, b) ==
    {[r EXCEPT !.vvNew[b] = @ \cup {id}] :
        r \in IF Cardinality(c.vvNew[b]) = NEW_BUCKET_SIZE THEN ShrinkNew(c, b) ELSE {c}}

LEMMA PlacedFields ==
    ASSUME NEW a, NEW x, AInv(a, x), NEW b \in NewBuckets, NEW i,
           NEW r, r = [a EXCEPT !.vvNew[b] = @ \cup {i}]
    PROVE  Placed(r, a, b, i)
<1>0. Object(a) /\ a.vvNew \in [NewBuckets -> SUBSET Nat]
  BY DEF AInv, AddrTypeOK
<1>1. Object(r) /\ SameFields(r, a) /\ r.vvNew = [a.vvNew EXCEPT ![b] = a.vvNew[b] \cup {i}] /\ r.mapInfo = a.mapInfo
  BY <1>0 DEF Object, SameFields
<1> QED BY <1>1 DEF Placed

LEMMA PlacedIds ==
    ASSUME NEW a, NEW b, NEW i, NEW r, Placed(r, a, b, i)
    PROVE  NewIds(r) = NewIds(a) /\ TriedIds(r) = TriedIds(a) /\ r.mapInfo = a.mapInfo
<1>1. r.mapInfo = a.mapInfo
  BY DEF Placed
<1>2. TriedIds(r) = TriedIds(a)
  BY <1>1 DEF TriedIds
<1> QED BY <1>1, <1>2 DEF NewIds

LEMMA EnteredInv ==
    ASSUME NEW c, NEW id \in NewIds(c), AInv(c, id), NEW b \in NewBuckets, id \notin c.vvNew[b],
           NEW r \in Entered(c, id, b)
    PROVE  AInv(r, None) /\ Less(r, c, id)
<1>0. /\ IsFiniteSet(c.vvNew[b]) /\ Cardinality(c.vvNew[b]) \in Nat
      /\ Cardinality(c.vvNew[b]) <= NEW_BUCKET_SIZE /\ NEW_BUCKET_SIZE \in Nat
  <2>1. c.vvNew[b] \subseteq DOMAIN c.mapInfo /\ AddrTypeOK(c)
    BY DEF AInv, Refs, NewIds
  <2>2. IsFiniteSet(c.vvNew[b])
    BY <2>1, FiniteIds
  <2> QED BY <2>2, FS_CardinalityType, AddrAssumption DEF AInv, Bounded
<1>1. CASE Cardinality(c.vvNew[b]) # NEW_BUCKET_SIZE
  <2>1. r = [c EXCEPT !.vvNew[b] = @ \cup {id}]
    BY <1>1 DEF Entered
  <2>2. Placed(r, c, b, id)
    BY <2>1, PlacedFields
  <2>3. Cardinality(c.vvNew[b]) < NEW_BUCKET_SIZE
    BY <1>0, <1>1
  <2>4. AInv(r, None)
    BY <2>2, <2>3, PlacedInv
  <2>5. Less(r, c, id)
    BY <2>2, PlacedIds DEF Less
  <2> QED BY <2>4, <2>5
<1>2. CASE Cardinality(c.vvNew[b]) = NEW_BUCKET_SIZE
  <2>1. PICK m \in ShrinkNew(c, b) : r = [m EXCEPT !.vvNew[b] = @ \cup {id}]
    BY <1>2 DEF Entered
  <2>2. PICK i \in c.vvNew[b] : m = [Unref(c, i) EXCEPT !.vvNew[b] = @ \ {i}]
    BY <2>1 DEF ShrinkNew
  <2>3. i # id /\ i \in NewIds(c)
    BY DEF AInv, Refs
  <2>4. /\ AInv(m, id)
        /\ NewIds(m) = NewIds(c) \/ NewIds(m) = NewIds(c) \ {i}
        /\ TriedIds(m) = TriedIds(c)
        /\ m.vvNew[b] = c.vvNew[b] \ {i}
        /\ \A j \in DOMAIN m.mapInfo : j \in DOMAIN c.mapInfo /\ m.mapInfo[j].addr = c.mapInfo[j].addr
    <3>1. AInv(m, id) /\ Shrunk(m, c, b, i)
      BY <2>2, <2>3, ShrinkInv
    <3> QED BY <3>1 DEF Shrunk
  <2>5. Placed(r, m, b, id)
    BY <2>1, <2>4, PlacedFields
  <2>6. Cardinality(m.vvNew[b]) < NEW_BUCKET_SIZE
    <3>1. Cardinality(c.vvNew[b] \ {i}) = Cardinality(c.vvNew[b]) - 1
      BY <1>0, FS_RemoveElement
    <3> QED BY <1>0, <1>2, <2>4, <3>1
  <2>7. id \in NewIds(m) /\ id \notin m.vvNew[b]
    BY <2>3, <2>4
  <2>8. AInv(r, None)
    BY <2>4, <2>5, <2>6, <2>7, PlacedInv
  <2>9. Less(r, c, id)
    <3>1. NewIds(r) = NewIds(m) /\ TriedIds(r) = TriedIds(m) /\ r.mapInfo = m.mapInfo
      BY <2>5, PlacedIds
    <3> QED BY <2>3, <2>4, <3>1 DEF Less
  <2> QED BY <2>8, <2>9
<1> QED BY <1>1, <1>2


\* r is a with an entry for s, whose first reference is counted.
Created(r, a, s, src) ==
    /\ Object(r) /\ r.nIdCount = a.nIdCount + 1
    /\ r.vvTried = a.vvTried /\ r.vvNew = a.vvNew /\ r.nTried = a.nTried /\ r.nNew = a.nNew + 1
    /\ r.vRandom = Append(a.vRandom, a.nIdCount)
    /\ r.mapAddr = With(a.mapAddr, IP[s], a.nIdCount)
    /\ r.mapInfo \in [DOMAIN a.mapInfo \cup {a.nIdCount} -> Info]
    /\ \A id \in DOMAIN a.mapInfo : r.mapInfo[id] = a.mapInfo[id]
    /\ r.mapInfo[a.nIdCount].addr = s
    /\ r.mapInfo[a.nIdCount].nRefCount = 1
    /\ r.mapInfo[a.nIdCount].fInTried = FALSE
    /\ r.mapInfo[a.nIdCount].nRandomPos = Len(a.vRandom) + 1

LEMMA CreatedInv ==
    ASSUME NEW a, AInv(a, None), NEW s \in Services, NEW src, IP[s] \notin DOMAIN a.mapAddr,
           NEW r, Created(r, a, s, src)
    PROVE  /\ AInv(r, a.nIdCount)
           /\ NewIds(r) = NewIds(a) \cup {a.nIdCount} /\ TriedIds(r) = TriedIds(a)
           /\ a.nIdCount \notin DOMAIN a.mapInfo
<1> DEFINE i == a.nIdCount
           n == Len(a.vRandom)
<1>0. /\ Object(a) /\ AddrTypeOK(a) /\ a.mapInfo \in [DOMAIN a.mapInfo -> Info]
      /\ Refs(a, None) /\ a.vvNew \in [NewBuckets -> SUBSET Nat]
      /\ Order(a) /\ Addresses(a) /\ Tries(a) /\ Bounded(a) /\ a.vRandom \in Seq(Nat)
  BY DEF AInv, AddrTypeOK
<1>1. /\ Object(r) /\ r.nIdCount = i + 1
      /\ r.vvTried = a.vvTried /\ r.vvNew = a.vvNew /\ r.nTried = a.nTried /\ r.nNew = a.nNew + 1
      /\ r.vRandom = Append(a.vRandom, i)
      /\ r.mapInfo \in [DOMAIN a.mapInfo \cup {i} -> Info]
      /\ \A id \in DOMAIN a.mapInfo : r.mapInfo[id] = a.mapInfo[id]
      /\ r.mapInfo[i].addr = s /\ r.mapInfo[i].nRefCount = 1
      /\ r.mapInfo[i].fInTried = FALSE /\ r.mapInfo[i].nRandomPos = n + 1
  BY DEF Created
<1>2. /\ DOMAIN r.mapAddr = DOMAIN a.mapAddr \cup {IP[s]} /\ r.mapAddr[IP[s]] = i
      /\ \A h \in DOMAIN a.mapAddr : r.mapAddr[h] = a.mapAddr[h]
      /\ r.mapAddr = [h \in DOMAIN a.mapAddr \cup {IP[s]} |-> IF h = IP[s] THEN i ELSE a.mapAddr[h]]
  BY DEF Created, With
<1>3. i \in Nat /\ i \notin DOMAIN a.mapInfo /\ DOMAIN r.mapInfo = DOMAIN a.mapInfo \cup {i}
  <2>1. i \in Nat /\ DOMAIN a.mapInfo \subseteq 0 .. i - 1
    BY <1>0 DEF AddrTypeOK
  <2> QED BY <1>1, <2>1
<1>4. TriedIds(r) = TriedIds(a)
  BY <1>1, <1>3 DEF TriedIds
<1>5. NewIds(r) = NewIds(a) \cup {i} /\ i \notin NewIds(a) /\ i \notin TriedIds(a)
  BY <1>3, <1>4 DEF NewIds, TriedIds
<1>6. /\ r.vRandom \in Seq(Nat) /\ Len(r.vRandom) = n + 1 /\ n \in Nat /\ r.vRandom[n + 1] = i
      /\ \A p \in 1 .. n : r.vRandom[p] = a.vRandom[p]
  BY <1>0, <1>1, <1>3, AppendProperties, LenProperties
<1> HIDE DEF n
<1>7. AddrTypeOK(r)
  <2>1. DOMAIN r.mapInfo \subseteq 0 .. r.nIdCount - 1 /\ r.nIdCount \in Nat
    BY <1>0, <1>1, <1>3 DEF AddrTypeOK
  <2>2. r.mapAddr \in [DOMAIN r.mapAddr -> Nat] /\ DOMAIN r.mapAddr \subseteq IPs
    <3>1. IP[s] \in IPs
      BY AddrAssumption
    <3> QED BY <1>0, <1>2, <1>3, <3>1 DEF AddrTypeOK
  <2>3. {r.nTried, r.nNew} \subseteq Nat
    BY <1>0, <1>1 DEF AddrTypeOK
  <2>4. r.vvTried \in [TriedBuckets -> Seq(Nat)]
    BY <1>0, <1>1 DEF AddrTypeOK
  <2> QED BY <1>0, <1>1, <1>3, <1>6, <2>1, <2>2, <2>3, <2>4 DEF AddrTypeOK
<1>8. Order(r)
  <2>1. ASSUME NEW id \in DOMAIN r.mapInfo
        PROVE  r.mapInfo[id].nRandomPos \in 1 .. Len(r.vRandom) /\ r.vRandom[r.mapInfo[id].nRandomPos] = id
    <3>1. CASE id = i
      BY <1>1, <1>6, <3>1
    <3>2. CASE id \in DOMAIN a.mapInfo
      <4>1. a.mapInfo[id].nRandomPos \in 1 .. n /\ a.vRandom[a.mapInfo[id].nRandomPos] = id
        BY <1>0, <3>2 DEF Order, n
      <4> QED BY <1>1, <1>6, <3>2, <4>1
    <3> QED BY <1>3, <3>1, <3>2
  <2>2. ASSUME NEW p \in 1 .. Len(r.vRandom)
        PROVE  r.vRandom[p] \in DOMAIN r.mapInfo /\ r.mapInfo[r.vRandom[p]].nRandomPos = p
    <3>1. CASE p = n + 1
      BY <1>1, <1>3, <1>6, <3>1
    <3>2. CASE p \in 1 .. n
      <4>1. a.vRandom[p] \in DOMAIN a.mapInfo /\ a.mapInfo[a.vRandom[p]].nRandomPos = p
        BY <1>0, <3>2 DEF Order, n
      <4> QED BY <1>1, <1>3, <1>6, <3>2, <4>1
    <3> QED BY <1>6, <3>1, <3>2
  <2> QED BY <2>1, <2>2 DEF Order
<1>9. Addresses(r)
  <2>1. ASSUME NEW id \in DOMAIN r.mapInfo
        PROVE  IP[r.mapInfo[id].addr] \in DOMAIN r.mapAddr /\ r.mapAddr[IP[r.mapInfo[id].addr]] = id
    <3>1. CASE id = i
      BY <1>1, <1>2, <3>1
    <3>2. CASE id \in DOMAIN a.mapInfo
      <4>1. IP[a.mapInfo[id].addr] \in DOMAIN a.mapAddr /\ a.mapAddr[IP[a.mapInfo[id].addr]] = id
        BY <1>0, <3>2 DEF Addresses
      <4> QED BY <1>1, <1>2, <3>2, <4>1
    <3> QED BY <1>3, <3>1, <3>2
  <2>2. ASSUME NEW h \in DOMAIN r.mapAddr
        PROVE  r.mapAddr[h] \in DOMAIN r.mapInfo /\ IP[r.mapInfo[r.mapAddr[h]].addr] = h
    <3>1. CASE h = IP[s]
      BY <1>1, <1>2, <1>3, <3>1
    <3>2. CASE h \in DOMAIN a.mapAddr
      <4>1. a.mapAddr[h] \in DOMAIN a.mapInfo /\ IP[a.mapInfo[a.mapAddr[h]].addr] = h
        BY <1>0, <3>2 DEF Addresses
      <4> QED BY <1>1, <1>2, <1>3, <3>2, <4>1
    <3> QED BY <1>2, <3>1, <3>2
  <2> QED BY <2>1, <2>2 DEF Addresses
<1>10. Refs(r, i)
  <2>1. \A id : NewBucketsOf(r, id) = NewBucketsOf(a, id)
    BY <1>1 DEF NewBucketsOf
  <2>2. Cardinality(NewBucketsOf(a, i)) = 0
    <3>1. NewBucketsOf(a, i) = {}
      BY <1>0, <1>5 DEF Refs, NewBucketsOf
    <3> QED BY <3>1, FS_EmptySet
  <2>3. ASSUME NEW id \in NewIds(r)
        PROVE  /\ r.mapInfo[id].nRefCount = Cardinality(NewBucketsOf(r, id)) + (IF id = i THEN 1 ELSE 0)
               /\ r.mapInfo[id].nRefCount \in 1 .. NEW_BUCKETS_PER_ADDRESS
    <3>1. CASE id = i
      BY <1>1, <2>1, <2>2, <3>1, AddrAssumption
    <3>2. CASE id \in NewIds(a)
      <4>1. id \in DOMAIN a.mapInfo /\ id # None /\ id # i
        BY <1>0, <1>5, <3>2, AddrAssumption DEF NewIds, AddrTypeOK
      <4>2. /\ a.mapInfo[id].nRefCount = Cardinality(NewBucketsOf(a, id)) + (IF id = None THEN 1 ELSE 0)
            /\ a.mapInfo[id].nRefCount \in 1 .. NEW_BUCKETS_PER_ADDRESS
        BY <1>0, <3>2 DEF Refs
      <4> QED BY <1>1, <2>1, <4>1, <4>2
    <3> QED BY <1>5, <3>1, <3>2
  <2>4. r.nNew = Cardinality(NewIds(r))
    <3>1. Cardinality(NewIds(a) \cup {i}) = Cardinality(NewIds(a)) + 1
      BY <1>0, <1>5, FiniteIds, FS_AddElement
    <3> QED BY <1>0, <1>1, <1>5, <3>1 DEF Refs
  <2>5. \A b \in NewBuckets : r.vvNew[b] \subseteq NewIds(r)
    BY <1>0, <1>1, <1>5 DEF Refs
  <2> QED BY <2>3, <2>4, <2>5 DEF Refs
<1>11. Tries(r)
  <2>1. \A id \in TriedIds(a) : r.mapInfo[id] = a.mapInfo[id]
    BY <1>1 DEF TriedIds
  <2>2. \A k : {id \in TriedIds(r) : GetTriedBucket[r.mapInfo[id].addr] = k}
                 = {id \in TriedIds(a) : GetTriedBucket[a.mapInfo[id].addr] = k}
    BY <1>4, <2>1
  <2>3. r.vvTried = a.vvTried /\ r.nTried = a.nTried /\ Tries(a)
    BY <1>0, <1>1
  <2> QED BY <1>4, <2>1, <2>2, <2>3 DEF Tries
<1>12. Bounded(r)
  BY <1>0, <1>1 DEF Bounded
<1> QED BY <1>1, <1>3, <1>4, <1>5, <1>7, <1>8, <1>9, <1>10, <1>11, <1>12 DEF AInv

LEMMA CreateFields ==
    ASSUME NEW a, AInv(a, None), NEW s \in Services, NEW src \in Sources,
           NEW r, r = [Create(a, s, src) EXCEPT !.mapInfo[a.nIdCount].nRefCount = @ + 1]
    PROVE  Created(r, a, s, src)
<1> DEFINE i == a.nIdCount
           m == Create(a, s, src)
           new == [addr |-> s, source |-> src, nLastSuccess |-> 0, nRefCount |-> 0,
                   fInTried |-> FALSE, nRandomPos |-> Len(a.vRandom) + 1]
           one == [new EXCEPT !.nRefCount = new.nRefCount + 1]
<1>0. Object(a) /\ AddrTypeOK(a) /\ a.mapInfo \in [DOMAIN a.mapInfo -> Info] /\ i \in Nat
      /\ Len(a.vRandom) \in Nat /\ i \notin DOMAIN a.mapInfo
  <2>1. Object(a) /\ AddrTypeOK(a) /\ a.mapInfo \in [DOMAIN a.mapInfo -> Info] /\ i \in Nat
        /\ a.vRandom \in Seq(Nat) /\ DOMAIN a.mapInfo \subseteq 0 .. i - 1
    BY DEF AInv, AddrTypeOK
  <2> QED BY <2>1, LenProperties
<1>1. /\ Object(m) /\ m.nIdCount = i + 1 /\ m.mapInfo = With(a.mapInfo, i, new)
      /\ m.vvTried = a.vvTried /\ m.vvNew = a.vvNew /\ m.nTried = a.nTried /\ m.nNew = a.nNew + 1
      /\ m.vRandom = Append(a.vRandom, i) /\ m.mapAddr = With(a.mapAddr, IP[s], i)
  BY <1>0 DEF Object, Create
<1> HIDE DEF m, new
<1>2. /\ Object(r) /\ r.nIdCount = i + 1
      /\ r.vvTried = a.vvTried /\ r.vvNew = a.vvNew /\ r.nTried = a.nTried /\ r.nNew = a.nNew + 1
      /\ r.vRandom = Append(a.vRandom, i) /\ r.mapAddr = With(a.mapAddr, IP[s], i)
  <2>1. r = [m EXCEPT !.mapInfo[i].nRefCount = @ + 1]
    BY DEF m
  <2> QED BY <1>1, <2>1 DEF Object
<1>3. r.mapInfo = [m.mapInfo EXCEPT ![i] = [m.mapInfo[i] EXCEPT !.nRefCount = m.mapInfo[i].nRefCount + 1]]
  <2>1. r = [m EXCEPT !.mapInfo[i].nRefCount = @ + 1]
    BY DEF m
  <2> QED BY <1>1, <2>1 DEF Object
<1>4. /\ DOMAIN m.mapInfo = DOMAIN a.mapInfo \cup {i} /\ m.mapInfo[i] = new
      /\ \A id \in DOMAIN a.mapInfo : m.mapInfo[id] = a.mapInfo[id]
      /\ m.mapInfo = [x \in DOMAIN a.mapInfo \cup {i} |-> IF x = i THEN new ELSE a.mapInfo[x]]
  <2>1. m.mapInfo = [x \in DOMAIN a.mapInfo \cup {i} |-> IF x = i THEN new ELSE a.mapInfo[x]]
    BY <1>1 DEF With
  <2> QED BY <1>0, <2>1
<1>5. /\ new \in Info /\ new.addr = s /\ new.nRefCount = 0 /\ new.fInTried = FALSE
      /\ new.nRandomPos = Len(a.vRandom) + 1
  BY <1>0, AddrAssumption DEF new, Info
<1>6. /\ one \in Info /\ one.addr = s /\ one.nRefCount = 1 /\ one.fInTried = FALSE
      /\ one.nRandomPos = Len(a.vRandom) + 1
  BY <1>5 DEF Info
<1>7. r.mapInfo[i] = one
  <2>1. r.mapInfo[i] = [m.mapInfo[i] EXCEPT !.nRefCount = m.mapInfo[i].nRefCount + 1]
    BY <1>3, <1>4
  <2>2. [m.mapInfo[i] EXCEPT !.nRefCount = m.mapInfo[i].nRefCount + 1] = one
    BY <1>4, Zenon
  <2> QED BY <2>1, <2>2
<1>8. DOMAIN r.mapInfo = DOMAIN a.mapInfo \cup {i} /\ \A id \in DOMAIN a.mapInfo : r.mapInfo[id] = a.mapInfo[id]
  <2>1. DOMAIN r.mapInfo = DOMAIN m.mapInfo /\ \A id \in DOMAIN m.mapInfo : id # i => r.mapInfo[id] = m.mapInfo[id]
    BY <1>3
  <2>2. \A id \in DOMAIN a.mapInfo : id # i /\ id \in DOMAIN m.mapInfo
    BY <1>0, <1>4
  <2> QED BY <1>4, <2>1, <2>2
<1> HIDE DEF one
<1>9. r.mapInfo \in [DOMAIN a.mapInfo \cup {i} -> Info]
  <2>1. \A id \in DOMAIN a.mapInfo \cup {i} : r.mapInfo[id] \in Info
    BY <1>0, <1>6, <1>7, <1>8
  <2>2. r.mapInfo = [id \in DOMAIN a.mapInfo \cup {i} |-> r.mapInfo[id]]
    BY <1>3, <1>8
  <2> QED BY <2>1, <2>2
<1> QED BY <1>2, <1>6, <1>7, <1>8, <1>9 DEF Created


\* r is a with an entry for s, and perhaps without one that was not tried.
Learnt(r, a, s) ==
    /\ IP[s] \notin DOMAIN a.mapAddr /\ a.nIdCount \notin DOMAIN a.mapInfo
    /\ TriedIds(r) = TriedIds(a)
    /\ \/ NewIds(r) = NewIds(a) \cup {a.nIdCount}
       \/ \E i \in NewIds(a) : NewIds(r) = (NewIds(a) \ {i}) \cup {a.nIdCount}
    /\ r.mapInfo[a.nIdCount].addr = s
    /\ \A j \in DOMAIN r.mapInfo : j # a.nIdCount => j \in DOMAIN a.mapInfo /\ r.mapInfo[j].addr = a.mapInfo[j].addr

LEMMA LearnInv ==
    ASSUME NEW a, AInv(a, None), NEW s \in Services, NEW src \in Sources, IP[s] \notin DOMAIN a.mapAddr,
           NEW b \in NewBuckets, NEW r \in Enter(Create(a, s, src), a.nIdCount, b)
    PROVE  AInv(r, None) /\ Learnt(r, a, s)
<1> DEFINE i == a.nIdCount
           m == Create(a, s, src)
<1>1. PICK c : c = [m EXCEPT !.mapInfo[i].nRefCount = @ + 1]
  OBVIOUS
<1>2. Created(c, a, s, src)
  BY <1>1, CreateFields
<1>3. /\ AInv(c, i) /\ NewIds(c) = NewIds(a) \cup {i} /\ TriedIds(c) = TriedIds(a) /\ i \notin DOMAIN a.mapInfo
  BY <1>2, CreatedInv
<1>4. m.vvNew = a.vvNew /\ c.vvNew = a.vvNew
  <2>1. m.vvNew = a.vvNew
    BY DEF Create, AInv, Object
  <2> QED BY <1>2, <2>1 DEF Created
<1>5. i \notin a.vvNew[b]
  BY <1>3 DEF AInv, Refs, NewIds
<1>6. r \in Entered(c, i, b)
  <2> HIDE DEF m
  <2> QED BY <1>1, <1>4, <1>5 DEF Enter, Entered, m
<1>7. AInv(r, None) /\ Less(r, c, i)
  <2>1. i \in NewIds(c) /\ i \notin c.vvNew[b]
    BY <1>3, <1>4, <1>5
  <2> QED BY <1>3, <1>6, <2>1, EnteredInv
<1>8. /\ c.mapInfo[i].addr = s /\ DOMAIN c.mapInfo = DOMAIN a.mapInfo \cup {i}
      /\ \A j \in DOMAIN a.mapInfo : c.mapInfo[j] = a.mapInfo[j]
  BY <1>2 DEF Created
<1>9. i \notin NewIds(a)
  BY <1>3 DEF NewIds
<1>10. NewIds(r) = NewIds(a) \cup {i} \/ \E k \in NewIds(a) : NewIds(r) = (NewIds(a) \ {k}) \cup {i}
  <2>1. NewIds(r) = NewIds(c) \/ \E k \in NewIds(c) : k # i /\ NewIds(r) = NewIds(c) \ {k}
    BY <1>7 DEF Less
  <2> QED BY <1>3, <1>9, <2>1
<1>11. i \in DOMAIN r.mapInfo
  BY <1>9, <1>10 DEF NewIds
<1>12. \A j \in DOMAIN r.mapInfo : j \in DOMAIN c.mapInfo /\ r.mapInfo[j].addr = c.mapInfo[j].addr
  BY <1>7 DEF Less
<1>13. \A j \in DOMAIN r.mapInfo : j # i => j \in DOMAIN a.mapInfo /\ r.mapInfo[j].addr = a.mapInfo[j].addr
  BY <1>8, <1>12
<1>14. r.mapInfo[i].addr = s /\ TriedIds(r) = TriedIds(a)
  BY <1>3, <1>7, <1>8, <1>11, <1>12 DEF Less
<1> QED BY <1>3, <1>7, <1>10, <1>13, <1>14 DEF Learnt

LEMMA AgainInv ==
    ASSUME NEW a, AInv(a, None), NEW i \in NewIds(a), a.mapInfo[i].nRefCount # NEW_BUCKETS_PER_ADDRESS,
           NEW b \in NewBuckets, NEW r \in Enter(a, i, b)
    PROVE  AInv(r, None) /\ Less(r, a, i)
<1>1. CASE i \in a.vvNew[b]
  <2>1. r = a
    BY <1>1 DEF Enter
  <2> QED BY <2>1 DEF Less
<1>2. CASE i \notin a.vvNew[b]
  <2>1. PICK c : c = [a EXCEPT !.mapInfo[i].nRefCount = @ + 1]
    OBVIOUS
  <2>2. Counted(c, a, i)
    <3>1. Object(a) /\ a.mapInfo \in [DOMAIN a.mapInfo -> Info] /\ i \in DOMAIN a.mapInfo
      BY DEF AInv, AddrTypeOK, NewIds
    <3>2. Object(c) /\ SameFields(c, a) /\ c.vvNew = a.vvNew
      BY <2>1, <3>1 DEF Object, SameFields
    <3>3. c.mapInfo = [a.mapInfo EXCEPT ![i] = [a.mapInfo[i] EXCEPT !.nRefCount = a.mapInfo[i].nRefCount + 1]]
      BY <2>1, <3>1 DEF Object
    <3> QED BY <3>2, <3>3 DEF Counted
  <2>3. AInv(c, i) /\ Alike(c, a)
    BY <2>2, CountedInv
  <2>4. c.vvNew = a.vvNew
    BY <2>2 DEF Counted
  <2>5. TriedIds(c) = TriedIds(a)
    BY <2>3 DEF Alike, Like, TriedIds
  <2>6. NewIds(c) = NewIds(a)
    BY <2>3, <2>5 DEF Alike, NewIds
  <2>7. r \in Entered(c, i, b)
    BY <1>2, <2>1, <2>4 DEF Enter, Entered
  <2>8. AInv(r, None) /\ Less(r, c, i)
    <3>1. i \in NewIds(c) /\ i \notin c.vvNew[b]
      BY <1>2, <2>4, <2>6
    <3> QED BY <2>3, <2>7, <3>1, EnteredInv
  <2>9. \A j \in DOMAIN r.mapInfo : j \in DOMAIN a.mapInfo /\ r.mapInfo[j].addr = a.mapInfo[j].addr
    BY <2>3, <2>8 DEF Less, Alike, Like
  <2> QED BY <2>5, <2>6, <2>8, <2>9 DEF Less
<1> QED BY <1>1, <1>2


-----------------------------------------------------------------------------
(* Good_.                                                                  *)

\* Entries keep their ids, addresses and places; i moves to tried bucket k.
ToTried(r, a, i) ==
    /\ Object(r) /\ r.nIdCount = a.nIdCount /\ r.mapAddr = a.mapAddr /\ r.vRandom = a.vRandom
    /\ r.mapInfo \in [DOMAIN a.mapInfo -> Info]
    /\ \A id \in DOMAIN a.mapInfo :
          /\ r.mapInfo[id].addr = a.mapInfo[id].addr /\ r.mapInfo[id].nRandomPos = a.mapInfo[id].nRandomPos
          /\ r.mapInfo[id].nLastSuccess = a.mapInfo[id].nLastSuccess
    /\ r.mapInfo[i].nRefCount = 0 /\ r.mapInfo[i].fInTried = TRUE

\* It is put at the end, in front of nothing.
Appended(r, a, i, k) ==
    /\ ToTried(r, a, i)
    /\ \A id \in DOMAIN a.mapInfo : id # i => r.mapInfo[id] = a.mapInfo[id]
    /\ r.vvNew = [b \in NewBuckets |-> a.vvNew[b] \ {i}]
    /\ r.vvTried = [a.vvTried EXCEPT ![k] = Append(a.vvTried[k], i)]
    /\ r.nTried = a.nTried + 1 /\ r.nNew = a.nNew - 1

LEMMA ToTriedBase ==
    ASSUME NEW a, AInv(a, None), NEW i, NEW r, ToTried(r, a, i),
           r.vvTried \in [TriedBuckets -> Seq(Nat)], r.vvNew \in [NewBuckets -> SUBSET Nat],
           r.nTried \in Nat, r.nNew \in Nat
    PROVE  AddrTypeOK(r) /\ Order(r) /\ Addresses(r) /\ Object(r)
<1>0. Object(a) /\ AddrTypeOK(a) /\ Order(a) /\ Addresses(a)
  BY DEF AInv
<1>1. /\ r.nIdCount = a.nIdCount /\ r.mapAddr = a.mapAddr /\ r.vRandom = a.vRandom /\ Object(r)
      /\ r.mapInfo \in [DOMAIN a.mapInfo -> Info] /\ DOMAIN r.mapInfo = DOMAIN a.mapInfo
      /\ \A id \in DOMAIN a.mapInfo :
            r.mapInfo[id].addr = a.mapInfo[id].addr /\ r.mapInfo[id].nRandomPos = a.mapInfo[id].nRandomPos
  BY DEF ToTried
<1>2. AddrTypeOK(r)
  BY <1>0, <1>1 DEF AddrTypeOK
<1>3. Order(r)
  BY <1>0, <1>1 DEF Order
<1>4. Addresses(r)
  <2>1. DOMAIN r.mapInfo = DOMAIN a.mapInfo /\ r.mapAddr = a.mapAddr
    BY <1>1
  <2>2. \A id \in DOMAIN a.mapInfo : r.mapInfo[id].addr = a.mapInfo[id].addr
    BY <1>1
  <2> QED BY <1>0, <2>1, <2>2 DEF Addresses
<1> QED BY <1>1, <1>2, <1>3, <1>4

LEMMA AppendSet ==
    ASSUME NEW s \in Seq(Nat), Distinct(s), NEW e \in Nat, e \notin ToSet(s), NEW t, t = Append(s, e)
    PROVE  t \in Seq(Nat) /\ Len(s) \in Nat /\ Len(t) = Len(s) + 1 /\ ToSet(t) = ToSet(s) \cup {e} /\ Distinct(t)
<1>1. /\ t \in Seq(Nat) /\ Len(t) = Len(s) + 1
      /\ \A j \in 1 .. Len(s) : t[j] = s[j]
      /\ t[Len(s) + 1] = e
  BY AppendProperties
<1>2. Len(s) \in Nat /\ DOMAIN s = 1 .. Len(s) /\ DOMAIN t = 1 .. Len(t)
  BY <1>1, LenProperties
<1>3. \A j \in 1 .. Len(t) : j \in 1 .. Len(s) \/ j = Len(s) + 1
  BY <1>1, <1>2
<1>4. \A j \in 1 .. Len(s) : j \in 1 .. Len(t) /\ Len(s) + 1 \in 1 .. Len(t)
  BY <1>1, <1>2
<1>5. ToSet(t) = ToSet(s) \cup {e}
  <2>1. \A y \in ToSet(t) : y \in ToSet(s) \cup {e}
    BY <1>1, <1>2, <1>3 DEF ToSet
  <2>2. \A y \in ToSet(s) : y \in ToSet(t)
    BY <1>1, <1>2, <1>4 DEF ToSet
  <2>3. e \in ToSet(t)
    <3>1. Len(s) + 1 \in DOMAIN t
      BY <1>1, <1>2
    <3> QED BY <1>1, <3>1 DEF ToSet
  <2> QED BY <2>1, <2>2, <2>3
<1>6. \A j \in 1 .. Len(s) : s[j] # e
  BY <1>2 DEF ToSet
<1>7. Distinct(t)
  BY <1>1, <1>3, <1>6 DEF Distinct
<1> QED BY <1>1, <1>2, <1>5, <1>7

LEMMA AppendedInv ==
    ASSUME NEW a, AInv(a, None), NEW i \in NewIds(a), a.mapInfo[i].nLastSuccess # 0,
           NEW k, k = GetTriedBucket[a.mapInfo[i].addr], Len(a.vvTried[k]) < TRIED_BUCKET_SIZE,
           NEW r, Appended(r, a, i, k)
    PROVE  AInv(r, None) /\ NewIds(r) = NewIds(a) \ {i} /\ TriedIds(r) = TriedIds(a) \cup {i}
<1>0. /\ Object(a) /\ AddrTypeOK(a) /\ a.mapInfo \in [DOMAIN a.mapInfo -> Info]
      /\ i \in DOMAIN a.mapInfo /\ i \in Nat /\ i \notin TriedIds(a)
      /\ Refs(a, None) /\ Tries(a) /\ Bounded(a) /\ a.vvNew \in [NewBuckets -> SUBSET Nat]
      /\ a.vvTried \in [TriedBuckets -> Seq(Nat)] /\ a.nTried \in Nat /\ a.nNew \in Nat
  BY DEF AInv, AddrTypeOK, NewIds
<1>1. k \in TriedBuckets
  BY <1>0, AddrAssumption DEF Info
<1>2. /\ r.mapInfo \in [DOMAIN a.mapInfo -> Info] /\ DOMAIN r.mapInfo = DOMAIN a.mapInfo
      /\ \A id \in DOMAIN a.mapInfo : id # i => r.mapInfo[id] = a.mapInfo[id]
      /\ r.mapInfo[i].addr = a.mapInfo[i].addr /\ r.mapInfo[i].nLastSuccess # 0
      /\ r.mapInfo[i].nRefCount = 0 /\ r.mapInfo[i].fInTried = TRUE
  BY <1>0 DEF Appended, ToTried
<1>3. /\ r.vvNew = [b \in NewBuckets |-> a.vvNew[b] \ {i}]
      /\ r.vvTried = [a.vvTried EXCEPT ![k] = Append(a.vvTried[k], i)]
      /\ r.nTried = a.nTried + 1 /\ r.nNew = a.nNew - 1
  BY DEF Appended
<1>4. TriedIds(r) = TriedIds(a) \cup {i}
  BY <1>0, <1>2 DEF TriedIds
<1>5. NewIds(r) = NewIds(a) \ {i}
  BY <1>2, <1>4 DEF NewIds
<1>6. /\ Cardinality(TriedIds(r)) = Cardinality(TriedIds(a)) + 1
      /\ Cardinality(NewIds(r)) = Cardinality(NewIds(a)) - 1 /\ Cardinality(NewIds(r)) \in Nat
  <2>1. IsFiniteSet(TriedIds(a)) /\ IsFiniteSet(NewIds(a))
    BY <1>0, FiniteIds
  <2>2. Cardinality(TriedIds(r)) = Cardinality(TriedIds(a)) + 1
    BY <1>0, <1>4, <2>1, FS_AddElement
  <2>3. Cardinality(NewIds(r)) = Cardinality(NewIds(a)) - 1 /\ IsFiniteSet(NewIds(r))
    BY <1>5, <2>1, FS_RemoveElement
  <2> QED BY <2>2, <2>3, FS_CardinalityType
<1>7. /\ r.vvTried[k] \in Seq(Nat) /\ Len(a.vvTried[k]) \in Nat /\ Len(r.vvTried[k]) = Len(a.vvTried[k]) + 1
      /\ ToSet(r.vvTried[k]) = ToSet(a.vvTried[k]) \cup {i} /\ Distinct(r.vvTried[k])
  <2>1. a.vvTried[k] \in Seq(Nat) /\ r.vvTried[k] = Append(a.vvTried[k], i)
    BY <1>0, <1>1, <1>3
  <2>2. Distinct(a.vvTried[k]) /\ i \notin ToSet(a.vvTried[k])
    BY <1>0, <1>1 DEF Tries
  <2> QED BY <1>0, <2>1, <2>2, AppendSet
<1>a. \A l \in TriedBuckets : l # k => r.vvTried[l] = a.vvTried[l]
  BY <1>0, <1>3
<1>8. AddrTypeOK(r) /\ Order(r) /\ Addresses(r) /\ Object(r)
  <2>1. r.vvTried \in [TriedBuckets -> Seq(Nat)]
    <3>1. DOMAIN r.vvTried = TriedBuckets /\ \A l \in TriedBuckets : r.vvTried[l] \in Seq(Nat)
      BY <1>0, <1>3, <1>7, <1>a
    <3>2. r.vvTried = [l \in TriedBuckets |-> r.vvTried[l]]
      BY <1>0, <1>3
    <3> QED BY <3>1, <3>2
  <2>2. r.vvNew \in [NewBuckets -> SUBSET Nat]
    <3>1. \A b \in NewBuckets : a.vvNew[b] \ {i} \in SUBSET Nat
      BY <1>0
    <3>2. r.vvNew = [b \in NewBuckets |-> a.vvNew[b] \ {i}]
      BY <1>3
    <3> QED BY ONLY <3>1, <3>2
  <2>3. r.nTried \in Nat /\ r.nNew \in Nat
    <3>1. a.nNew = Cardinality(NewIds(a)) /\ a.nTried \in Nat /\ a.nNew \in Nat
      BY <1>0 DEF Refs
    <3>2. r.nNew = Cardinality(NewIds(r)) /\ r.nTried = a.nTried + 1
      BY <1>3, <1>6, <3>1
    <3> QED BY <1>6, <3>1, <3>2
  <2>4. ToTried(r, a, i)
    BY DEF Appended
  <2> QED BY <2>1, <2>2, <2>3, <2>4, ToTriedBase
<1>b. \A b \in NewBuckets : r.vvNew[b] = a.vvNew[b] \ {i}
  BY <1>3
<1>9. Refs(r, None)
  <2>1. \A id : id # i => NewBucketsOf(r, id) = NewBucketsOf(a, id)
    BY <1>b DEF NewBucketsOf
  <2>2. \A id \in NewIds(r) : id \in NewIds(a) /\ id # i /\ r.mapInfo[id] = a.mapInfo[id]
    BY <1>2, <1>5 DEF NewIds
  <2>3. \A b \in NewBuckets : r.vvNew[b] \subseteq NewIds(r)
    <3>1. \A b \in NewBuckets : a.vvNew[b] \subseteq NewIds(a)
      BY <1>0 DEF Refs
    <3> QED BY <1>5, <1>b, <3>1
  <2>4. r.nNew = Cardinality(NewIds(r))
    BY <1>0, <1>3, <1>6 DEF Refs
  <2> QED BY <1>0, <2>1, <2>2, <2>3, <2>4 DEF Refs
<1>10. Tries(r)
  <2>1. \A id \in TriedIds(r) : r.mapInfo[id].nRefCount = 0 /\ r.mapInfo[id].nLastSuccess # 0
    <3>1. \A id \in TriedIds(a) : id # i /\ id \in DOMAIN a.mapInfo
      BY <1>0 DEF TriedIds
    <3> QED BY <1>0, <1>2, <1>4, <3>1 DEF Tries
  <2>2. ASSUME NEW l \in TriedBuckets, l # k
        PROVE  /\ ToSet(r.vvTried[l]) = {id \in TriedIds(r) : GetTriedBucket[r.mapInfo[id].addr] = l}
               /\ Distinct(r.vvTried[l])
    <3>1. r.vvTried[l] = a.vvTried[l]
      BY <1>a, <2>2
    <3>2. {id \in TriedIds(r) : GetTriedBucket[r.mapInfo[id].addr] = l}
            = {id \in TriedIds(a) : GetTriedBucket[a.mapInfo[id].addr] = l}
      BY <1>0, <1>2, <1>4, <2>2 DEF TriedIds
    <3> QED BY <1>0, <3>1, <3>2 DEF Tries
  <2>4. ToSet(r.vvTried[k]) = {id \in TriedIds(r) : GetTriedBucket[r.mapInfo[id].addr] = k}
    <3>1. {id \in TriedIds(r) : GetTriedBucket[r.mapInfo[id].addr] = k}
            = {id \in TriedIds(a) : GetTriedBucket[a.mapInfo[id].addr] = k} \cup {i}
      BY <1>0, <1>2, <1>4 DEF TriedIds
    <3> QED BY <1>0, <1>1, <1>7, <3>1 DEF Tries
  <2>6. r.nTried = Cardinality(TriedIds(r))
    BY <1>0, <1>3, <1>6 DEF Tries
  <2> QED BY <1>1, <1>7, <2>1, <2>2, <2>4, <2>6 DEF Tries
<1>11. Bounded(r)
  <2>1. ASSUME NEW b \in NewBuckets PROVE Cardinality(r.vvNew[b]) <= NEW_BUCKET_SIZE
    <3>1. IsFiniteSet(a.vvNew[b]) /\ Cardinality(a.vvNew[b]) <= NEW_BUCKET_SIZE
      BY <1>0, FiniteIds DEF Bounded, Refs, NewIds
    <3>2. Cardinality(a.vvNew[b] \ {i}) <= Cardinality(a.vvNew[b]) /\ Cardinality(a.vvNew[b]) \in Nat
          /\ Cardinality(a.vvNew[b] \ {i}) \in Nat
      <4>1. a.vvNew[b] \ {i} \in SUBSET a.vvNew[b]
        OBVIOUS
      <4>2. IsFiniteSet(a.vvNew[b] \ {i}) /\ Cardinality(a.vvNew[b] \ {i}) <= Cardinality(a.vvNew[b])
        BY <3>1, <4>1, FS_Subset
      <4> QED BY <3>1, <4>2, FS_CardinalityType
    <3>3. r.vvNew[b] = a.vvNew[b] \ {i} /\ NEW_BUCKET_SIZE \in Nat
      BY <1>b, AddrAssumption
    <3> QED BY <3>1, <3>2, <3>3
  <2>2. ASSUME NEW l \in TriedBuckets PROVE Len(r.vvTried[l]) <= TRIED_BUCKET_SIZE
    <3>1. CASE l = k
      <4>1. TRIED_BUCKET_SIZE \in Nat
        BY AddrAssumption
      <4>3. ASSUME NEW m \in Nat, NEW n \in Nat, m < n PROVE m + 1 <= n
        BY <4>3
      <4>2. Len(r.vvTried[k]) <= TRIED_BUCKET_SIZE
        <5>1. Len(a.vvTried[k]) + 1 <= TRIED_BUCKET_SIZE
          BY <1>7, <4>1, <4>3
        <5> QED BY <1>7, <5>1
      <4> QED BY <3>1, <4>2
    <3>2. CASE l # k
      BY <1>0, <1>a, <3>2 DEF Bounded
    <3> QED BY <3>1, <3>2
  <2> QED BY <2>1, <2>2 DEF Bounded
<1> QED BY <1>4, <1>5, <1>8, <1>9, <1>10, <1>11 DEF AInv


InPlace(t, s, p, e) ==
    t \in Seq(Nat) /\ Len(t) = Len(s) /\ ToSet(t) = (ToSet(s) \ {s[p]}) \cup {e} /\ Distinct(t)

LEMMA ReplaceSet ==
    ASSUME NEW s \in Seq(Nat), Distinct(s), NEW e \in Nat, e \notin ToSet(s), NEW p \in 1 .. Len(s),
           NEW t, t = [s EXCEPT ![p] = e]
    PROVE  InPlace(t, s, p, e)
<1>1. /\ t \in Seq(Nat) /\ Len(t) = Len(s)
      /\ \A j \in 1 .. Len(s) : t[j] = IF j = p THEN e ELSE s[j]
  BY ExceptSeq
<1>2. DOMAIN s = 1 .. Len(s) /\ DOMAIN t = 1 .. Len(s)
  BY <1>1, LenProperties
<1>3. \A j \in 1 .. Len(s) : s[j] # e
  BY <1>2 DEF ToSet
<1>4. \A j \in 1 .. Len(s) : s[j] = s[p] => j = p
  BY DEF Distinct
<1>5. ToSet(t) = (ToSet(s) \ {s[p]}) \cup {e}
  <2>1. \A y \in ToSet(t) : y \in (ToSet(s) \ {s[p]}) \cup {e}
    BY <1>1, <1>2, <1>4 DEF ToSet
  <2>2. \A y \in ToSet(s) : y # s[p] => y \in ToSet(t)
    BY <1>1, <1>2 DEF ToSet
  <2>3. e \in ToSet(t)
    BY <1>1, <1>2 DEF ToSet
  <2> QED BY <2>1, <2>2, <2>3
<1>6. Distinct(t)
  BY <1>1, <1>3 DEF Distinct
<1> QED BY <1>1, <1>5, <1>6 DEF InPlace

Permuted(v, s) == v \in Seq(Nat) /\ Len(v) = Len(s) /\ ToSet(v) = ToSet(s) /\ Distinct(v)

\* It takes the place of the p-th entry of v, the shuffled bucket, which goes
\* to new bucket u.
Replaced(r, a, i, k, v, p, u) ==
    /\ ToTried(r, a, i)
    /\ r.mapInfo[v[p]].nRefCount = 1 /\ r.mapInfo[v[p]].fInTried = FALSE
    /\ \A id \in DOMAIN a.mapInfo : id # i /\ id # v[p] => r.mapInfo[id] = a.mapInfo[id]
    /\ r.vvNew = [b \in NewBuckets |-> IF b = u THEN (a.vvNew[b] \ {i}) \cup {v[p]} ELSE a.vvNew[b] \ {i}]
    /\ r.vvTried = [a.vvTried EXCEPT ![k] = [v EXCEPT ![p] = i]]
    /\ r.nTried = a.nTried /\ r.nNew = a.nNew

HasRoom(a, u, i) == Cardinality(a.vvNew[u] \ {i}) < NEW_BUCKET_SIZE

Exchanged(r, a, i, old) ==
    /\ old \in TriedIds(a)
    /\ NewIds(r) = (NewIds(a) \ {i}) \cup {old} /\ TriedIds(r) = (TriedIds(a) \ {old}) \cup {i}

LEMMA ReplacedInv ==
    ASSUME NEW a, AInv(a, None), NEW i \in NewIds(a), a.mapInfo[i].nLastSuccess # 0,
           NEW k, k = GetTriedBucket[a.mapInfo[i].addr],
           NEW v, Permuted(v, a.vvTried[k]), NEW p \in 1 .. Len(v), NEW u \in NewBuckets, HasRoom(a, u, i),
           NEW r, Replaced(r, a, i, k, v, p, u)
    PROVE  AInv(r, None) /\ Exchanged(r, a, i, v[p])
<1> DEFINE old == v[p]
<1>0. /\ Object(a) /\ AddrTypeOK(a) /\ a.mapInfo \in [DOMAIN a.mapInfo -> Info]
      /\ i \in DOMAIN a.mapInfo /\ i \in Nat /\ i \notin TriedIds(a)
      /\ Refs(a, None) /\ Tries(a) /\ Bounded(a) /\ a.vvNew \in [NewBuckets -> SUBSET Nat]
      /\ a.vvTried \in [TriedBuckets -> Seq(Nat)] /\ a.nTried \in Nat /\ a.nNew \in Nat
  BY DEF AInv, AddrTypeOK, NewIds
<1>1. k \in TriedBuckets
  BY <1>0, AddrAssumption DEF Info
<1>2. /\ r.vvNew = [b \in NewBuckets |-> IF b = u THEN (a.vvNew[b] \ {i}) \cup {old} ELSE a.vvNew[b] \ {i}]
      /\ r.vvTried = [a.vvTried EXCEPT ![k] = [v EXCEPT ![p] = i]]
      /\ r.nTried = a.nTried /\ r.nNew = a.nNew
  BY DEF Replaced
<1>3. v \in Seq(Nat) /\ Len(v) = Len(a.vvTried[k]) /\ ToSet(v) = ToSet(a.vvTried[k]) /\ Distinct(v)
  BY DEF Permuted
<1>4. /\ old \in TriedIds(a) /\ old \in ToSet(v) /\ old \in DOMAIN a.mapInfo /\ old # i
      /\ GetTriedBucket[a.mapInfo[old].addr] = k
  <2>1. DOMAIN v = 1 .. Len(v)
    BY <1>3, LenProperties
  <2>2. old \in ToSet(v)
    BY <2>1 DEF ToSet
  <2>3. ToSet(v) = {id \in TriedIds(a) : GetTriedBucket[a.mapInfo[id].addr] = k}
    BY <1>0, <1>1, <1>3 DEF Tries
  <2> QED BY <1>0, <2>2, <2>3 DEF TriedIds
<1>5. /\ r.mapInfo \in [DOMAIN a.mapInfo -> Info] /\ DOMAIN r.mapInfo = DOMAIN a.mapInfo
      /\ \A id \in DOMAIN a.mapInfo : id # i /\ id # old => r.mapInfo[id] = a.mapInfo[id]
      /\ \A id \in DOMAIN a.mapInfo : r.mapInfo[id].addr = a.mapInfo[id].addr
      /\ r.mapInfo[i].nLastSuccess # 0
      /\ r.mapInfo[i].nRefCount = 0 /\ r.mapInfo[i].fInTried = TRUE
      /\ r.mapInfo[old].nRefCount = 1 /\ r.mapInfo[old].fInTried = FALSE
  BY <1>0 DEF Replaced, ToTried
<1>6. TriedIds(r) = (TriedIds(a) \ {old}) \cup {i}
  BY <1>0, <1>4, <1>5 DEF TriedIds
<1>7. NewIds(r) = (NewIds(a) \ {i}) \cup {old} /\ old \notin NewIds(a)
  BY <1>0, <1>4, <1>5, <1>6 DEF NewIds
<1> HIDE DEF old
<1>8. Cardinality(TriedIds(r)) = Cardinality(TriedIds(a)) /\ Cardinality(NewIds(r)) = Cardinality(NewIds(a))
  <2>1. /\ IsFiniteSet(TriedIds(a)) /\ IsFiniteSet(NewIds(a))
        /\ Cardinality(TriedIds(a)) \in Nat /\ Cardinality(NewIds(a)) \in Nat
    BY <1>0, FiniteIds, FS_CardinalityType
  <2>2. IsFiniteSet(TriedIds(a) \ {old}) /\ Cardinality(TriedIds(a) \ {old}) = Cardinality(TriedIds(a)) - 1
    BY <1>4, <2>1, FS_RemoveElement
  <2>3. Cardinality(TriedIds(r)) = Cardinality(TriedIds(a) \ {old}) + 1
    <3>1. i \notin TriedIds(a) \ {old}
      BY <1>0
    <3> QED BY <1>6, <2>2, <3>1, FS_AddElement
  <2>4. IsFiniteSet(NewIds(a) \ {i}) /\ Cardinality(NewIds(a) \ {i}) = Cardinality(NewIds(a)) - 1
    BY <2>1, FS_RemoveElement
  <2>5. Cardinality(NewIds(r)) = Cardinality(NewIds(a) \ {i}) + 1
    <3>1. old \notin NewIds(a) \ {i}
      BY <1>7
    <3> QED BY <1>7, <2>4, <3>1, FS_AddElement
  <2> QED BY <2>1, <2>2, <2>3, <2>4, <2>5
<1>9. /\ r.vvTried[k] \in Seq(Nat) /\ Len(r.vvTried[k]) = Len(a.vvTried[k])
      /\ ToSet(r.vvTried[k]) = (ToSet(a.vvTried[k]) \ {old}) \cup {i} /\ Distinct(r.vvTried[k])
  <2>1. r.vvTried[k] = [v EXCEPT ![p] = i]
    BY <1>0, <1>1, <1>2
  <2>2. i \notin ToSet(v)
    BY <1>0, <1>1, <1>3 DEF Tries
  <2>3. /\ r.vvTried[k] \in Seq(Nat) /\ Len(r.vvTried[k]) = Len(v)
        /\ ToSet(r.vvTried[k]) = (ToSet(v) \ {v[p]}) \cup {i} /\ Distinct(r.vvTried[k])
    <3>1. i \in Nat /\ v \in Seq(Nat) /\ Distinct(v)
      BY <1>0, <1>3
    <3>2. InPlace(r.vvTried[k], v, p, i)
      BY <2>1, <2>2, <3>1, ReplaceSet
    <3> QED BY <3>2 DEF InPlace
  <2> QED BY <1>3, <2>3 DEF old
<1>10. \A l \in TriedBuckets : l # k => r.vvTried[l] = a.vvTried[l]
  BY <1>0, <1>2
<1>11. AddrTypeOK(r) /\ Order(r) /\ Addresses(r) /\ Object(r)
  <2>1. r.vvTried \in [TriedBuckets -> Seq(Nat)]
    <3>1. DOMAIN r.vvTried = TriedBuckets /\ \A l \in TriedBuckets : r.vvTried[l] \in Seq(Nat)
      BY <1>0, <1>2, <1>9, <1>10
    <3>2. r.vvTried = [l \in TriedBuckets |-> r.vvTried[l]]
      BY <1>0, <1>2
    <3> QED BY <3>1, <3>2
  <2>2. r.vvNew \in [NewBuckets -> SUBSET Nat]
    <3>1. old \in Nat
      BY <1>0, <1>4 DEF AddrTypeOK
    <3> QED BY <1>0, <1>2, <3>1
  <2>3. r.nTried \in Nat /\ r.nNew \in Nat
    BY <1>0, <1>2
  <2>4. ToTried(r, a, i)
    BY DEF Replaced
  <2> QED BY <2>1, <2>2, <2>3, <2>4, ToTriedBase
<1>12. Refs(r, None)
  <2>1. \A id : id # i /\ id # old => NewBucketsOf(r, id) = NewBucketsOf(a, id)
    BY <1>0, <1>2 DEF NewBucketsOf
  <2>2. NewBucketsOf(r, old) = {u}
    <3>1. \A b \in NewBuckets : old \notin a.vvNew[b]
      BY <1>0, <1>7 DEF Refs
    <3> QED BY <1>2, <1>4, <3>1 DEF NewBucketsOf
  <2>3. Cardinality(NewBucketsOf(r, old)) = 1 /\ old # None
    <3>1. old \in Nat /\ None \notin Nat
      BY <1>0, <1>4, AddrAssumption DEF AddrTypeOK
    <3>2. Cardinality({u}) = 1
      BY FS_Singleton
    <3> QED BY <2>2, <3>1, <3>2
  <2>4. ASSUME NEW id \in NewIds(r)
        PROVE  /\ r.mapInfo[id].nRefCount = Cardinality(NewBucketsOf(r, id)) + (IF id = None THEN 1 ELSE 0)
               /\ r.mapInfo[id].nRefCount \in 1 .. NEW_BUCKETS_PER_ADDRESS
    <3>1. CASE id = old
      BY <1>5, <2>3, <3>1, AddrAssumption
    <3>2. CASE id # old
      <4>1. id \in NewIds(a) /\ id # i /\ id \in DOMAIN a.mapInfo
        BY <1>7, <3>2 DEF NewIds
      <4>2. r.mapInfo[id] = a.mapInfo[id]
        BY <1>5, <3>2, <4>1
      <4> QED BY <1>0, <2>1, <3>2, <4>1, <4>2 DEF Refs
    <3> QED BY <3>1, <3>2
  <2>5. \A b \in NewBuckets : r.vvNew[b] \subseteq NewIds(r)
    <3>1. \A b \in NewBuckets : a.vvNew[b] \subseteq NewIds(a)
      BY <1>0 DEF Refs
    <3>2. \A b \in NewBuckets : r.vvNew[b] \subseteq (a.vvNew[b] \ {i}) \cup {old}
      BY <1>2
    <3> QED BY <1>7, <3>1, <3>2
  <2>6. r.nNew = Cardinality(NewIds(r))
    BY <1>0, <1>2, <1>8 DEF Refs
  <2> QED BY <2>4, <2>5, <2>6 DEF Refs
<1>13. Tries(r)
  <2>1. \A id \in TriedIds(r) : r.mapInfo[id].nRefCount = 0 /\ r.mapInfo[id].nLastSuccess # 0
    <3>1. \A id \in TriedIds(r) : id = i \/ (id # i /\ id # old /\ id \in TriedIds(a) /\ id \in DOMAIN a.mapInfo)
      BY <1>0, <1>4, <1>6 DEF TriedIds
    <3> QED BY <1>0, <1>5, <3>1 DEF Tries
  <2>2. ASSUME NEW l \in TriedBuckets, l # k
        PROVE  /\ ToSet(r.vvTried[l]) = {id \in TriedIds(r) : GetTriedBucket[r.mapInfo[id].addr] = l}
               /\ Distinct(r.vvTried[l])
    <3>1. r.vvTried[l] = a.vvTried[l]
      BY <1>10, <2>2
    <3>2. {id \in TriedIds(r) : GetTriedBucket[r.mapInfo[id].addr] = l}
            = {id \in TriedIds(a) : GetTriedBucket[a.mapInfo[id].addr] = l}
      <4>1. TriedIds(a) \subseteq DOMAIN a.mapInfo
        BY DEF TriedIds
      <4> QED BY <1>0, <1>4, <1>5, <1>6, <2>2, <4>1
    <3> QED BY <1>0, <3>1, <3>2 DEF Tries
  <2>3. ToSet(r.vvTried[k]) = {id \in TriedIds(r) : GetTriedBucket[r.mapInfo[id].addr] = k}
    <3>1. {id \in TriedIds(r) : GetTriedBucket[r.mapInfo[id].addr] = k}
            = ({id \in TriedIds(a) : GetTriedBucket[a.mapInfo[id].addr] = k} \ {old}) \cup {i}
      <4>1. TriedIds(a) \subseteq DOMAIN a.mapInfo
        BY DEF TriedIds
      <4> QED BY <1>0, <1>4, <1>5, <1>6, <4>1
    <3> QED BY <1>0, <1>1, <1>9, <3>1 DEF Tries
  <2>4. r.nTried = Cardinality(TriedIds(r))
    BY <1>0, <1>2, <1>8 DEF Tries
  <2> QED BY <1>1, <1>9, <2>1, <2>2, <2>3, <2>4 DEF Tries
<1>14. Bounded(r)
  <2>1. ASSUME NEW b \in NewBuckets PROVE Cardinality(r.vvNew[b]) <= NEW_BUCKET_SIZE
    <3>1. IsFiniteSet(a.vvNew[b]) /\ Cardinality(a.vvNew[b]) <= NEW_BUCKET_SIZE
      BY <1>0, FiniteIds DEF Bounded, Refs, NewIds
    <3>2. /\ IsFiniteSet(a.vvNew[b] \ {i}) /\ Cardinality(a.vvNew[b] \ {i}) <= Cardinality(a.vvNew[b])
          /\ Cardinality(a.vvNew[b]) \in Nat /\ Cardinality(a.vvNew[b] \ {i}) \in Nat
      <4>1. a.vvNew[b] \ {i} \in SUBSET a.vvNew[b]
        OBVIOUS
      <4>2. IsFiniteSet(a.vvNew[b] \ {i}) /\ Cardinality(a.vvNew[b] \ {i}) <= Cardinality(a.vvNew[b])
        BY <3>1, <4>1, FS_Subset
      <4> QED BY <3>1, <4>2, FS_CardinalityType
    <3>3. CASE b # u
      <4>1. r.vvNew[b] = a.vvNew[b] \ {i} /\ NEW_BUCKET_SIZE \in Nat
        BY <1>2, <3>3, AddrAssumption
      <4> QED BY <3>1, <3>2, <4>1
    <3>4. CASE b = u
      <4>1. Cardinality((a.vvNew[b] \ {i}) \cup {old}) = Cardinality(a.vvNew[b] \ {i}) + 1
        <5>1. old \notin a.vvNew[b] \ {i}
          BY <1>0, <1>7 DEF Refs
        <5> QED BY <3>2, <5>1, FS_AddElement
      <4>2. Cardinality(a.vvNew[b] \ {i}) < NEW_BUCKET_SIZE /\ NEW_BUCKET_SIZE \in Nat
        BY <3>4, AddrAssumption DEF HasRoom
      <4>3. r.vvNew[b] = (a.vvNew[b] \ {i}) \cup {old}
        BY <1>2, <3>4
      <4> QED BY <3>2, <4>1, <4>2, <4>3
    <3> QED BY <3>3, <3>4
  <2>2. ASSUME NEW l \in TriedBuckets PROVE Len(r.vvTried[l]) <= TRIED_BUCKET_SIZE
    BY <1>0, <1>9, <1>10 DEF Bounded
  <2> QED BY <2>1, <2>2 DEF Bounded
<1> QED BY <1>4, <1>6, <1>7, <1>11, <1>12, <1>13, <1>14 DEF AInv, Exchanged, old


-----------------------------------------------------------------------------
(* Loops.                                                                  *)

\* Induction over the naturals.
LEMMA CountUp ==
    ASSUME NEW S, 0 \in S, \A n \in Nat : n \in S => n + 1 \in S
    PROVE  Nat \subseteq S
<1> SUFFICES ASSUME Nat \ S # {} PROVE FALSE
  OBVIOUS
<1> DEFINE R == OpToRel(<, Nat)
<1>1. IsWellFoundedOn(R, Nat)
  BY NatLessThanWellFounded
<1>2. \A m, n \in Nat : m < n => <<m, n>> \in R
  BY DEF OpToRel
<1> HIDE DEF R
<1>a. PICK n \in Nat \ S : \A y \in Nat \ S : ~(<<y, n>> \in R)
  BY <1>1, WFMin
<1>3. \A y \in Nat \ S : ~(y < n)
  BY <1>2, <1>a
<1>4. n # 0
  OBVIOUS
<1>5. n - 1 \in Nat /\ n - 1 < n /\ (n - 1) + 1 = n
  BY <1>4
<1>6. n - 1 \in S
  BY <1>3, <1>5
<1> QED BY <1>5, <1>6

SwapRounds(f, a, n, q) == f[0] = a /\ \A i \in 1 .. n : f[i] = SwapRandom(f[i - 1], i, q[i])

LEMMA SwappedRounds ==
    ASSUME NEW a, NEW n \in Nat, NEW q, NEW f, f = Swapped(a, n, q)
    PROVE  SwapRounds(f, a, n, q)
<1> DEFINE Rounds(g, m) ==
              /\ g = [i \in 0 .. m |-> g[i]]
              /\ g[0] = a /\ \A i \in 1 .. m : g[i] = SwapRandom(g[i - 1], i, q[i])
           S == {m \in Nat : \E g : Rounds(g, m)}
<1>1. 0 \in S
  <2>1. Rounds([i \in 0 .. 0 |-> a], 0)
    OBVIOUS
  <2> QED BY <2>1
<1>2. ASSUME NEW m \in Nat, m \in S PROVE m + 1 \in S
  <2>1. PICK g : Rounds(g, m)
    BY <1>2
  <2> DEFINE h == [i \in 0 .. m + 1 |-> IF i = m + 1 THEN SwapRandom(g[m], m + 1, q[m + 1]) ELSE g[i]]
  <2>2. h = [i \in 0 .. m + 1 |-> h[i]]
    OBVIOUS
  <2>3. h[0] = a
    BY <2>1
  <2>4. ASSUME NEW i \in 1 .. m + 1 PROVE h[i] = SwapRandom(h[i - 1], i, q[i])
    <3>1. CASE i = m + 1
      <4>1. h[i] = SwapRandom(g[m], i, q[i]) /\ h[i - 1] = g[m]
        BY <3>1
      <4> HIDE DEF h
      <4> QED BY <4>1
    <3>2. CASE i # m + 1
      <4>1. i \in 1 .. m /\ h[i] = g[i] /\ h[i - 1] = g[i - 1]
        BY <3>2
      <4> HIDE DEF h
      <4> QED BY <2>1, <4>1
    <3> QED BY <3>1, <3>2
  <2> HIDE DEF h
  <2>5. Rounds(h, m + 1)
    BY <2>2, <2>3, <2>4
  <2>6. m + 1 \in Nat
    OBVIOUS
  <2> HIDE DEF Rounds
  <2> QED BY <2>5, <2>6
<1>3. Nat \subseteq S
  <2>1. \A m \in Nat : m \in S => m + 1 \in S
    BY <1>2
  <2> HIDE DEF S
  <2> QED BY <1>1, <2>1, CountUp
<1>4. PICK g : Rounds(g, n)
  BY <1>3
<1> DEFINE F(u) == [i \in 0 .. n |-> IF i = 0 THEN a ELSE SwapRandom(u[i - 1], i, q[i])]
<1>5. g = F(g)
  <2>1. g = [i \in 0 .. n |-> g[i]] /\ g[0] = a /\ \A i \in 1 .. n : g[i] = SwapRandom(g[i - 1], i, q[i])
    BY <1>4
  <2>2. \A i \in 0 .. n : i # 0 => i \in 1 .. n
    OBVIOUS
  <2>3. \A i \in 0 .. n : g[i] = IF i = 0 THEN a ELSE SwapRandom(g[i - 1], i, q[i])
    BY <2>1, <2>2
  <2> QED BY <2>1, <2>3, Zenon
<1>6. f = CHOOSE u : u = F(u)
  BY DEF Swapped
<1>7. f = F(f)
  <2> HIDE DEF F
  <2> QED BY <1>5, <1>6
<1>8. \A i \in 0 .. n : f[i] = IF i = 0 THEN a ELSE SwapRandom(f[i - 1], i, q[i])
  BY <1>7
<1> QED BY <1>8 DEF SwapRounds


LEMMA SwappedInv ==
    ASSUME NEW a, AInv(a, None), NEW n \in Nat, NEW q \in [1 .. n -> 1 .. Len(a.vRandom)],
           \A i \in 1 .. n : q[i] >= i
    PROVE  AInv(Swapped(a, n, q)[n], None) /\ Kept(Swapped(a, n, q)[n], a)
<1>1. PICK f : f = Swapped(a, n, q)
  OBVIOUS
<1>2. f[0] = a /\ \A i \in 1 .. n : f[i] = SwapRandom(f[i - 1], i, q[i])
  <2>1. SwapRounds(f, a, n, q)
    BY <1>1, SwappedRounds
  <2> QED BY <2>1 DEF SwapRounds
<1> DEFINE S == {m \in Nat : m <= n => /\ AInv(f[m], None) /\ Kept(f[m], a)
                                       /\ Len(f[m].vRandom) = Len(a.vRandom)}
<1>3. 0 \in S
  <2>1. Kept(a, a)
    BY DEF Kept, Same
  <2> QED BY <1>2, <2>1
<1>4. ASSUME NEW m \in Nat, m \in S, m + 1 <= n
      PROVE  AInv(f[m + 1], None) /\ Kept(f[m + 1], a) /\ Len(f[m + 1].vRandom) = Len(a.vRandom)
  <2>1. AInv(f[m], None) /\ Kept(f[m], a) /\ Len(f[m].vRandom) = Len(a.vRandom)
    BY <1>4
  <2>2. m + 1 \in 1 .. n /\ (m + 1) - 1 = m
    BY <1>4
  <2>3. f[m + 1] = SwapRandom(f[m], m + 1, q[m + 1])
    BY <1>2, <2>2
  <2>4. q[m + 1] \in 1 .. Len(f[m].vRandom) /\ m + 1 \in 1 .. Len(f[m].vRandom)
    <3>1. q[m + 1] \in 1 .. Len(a.vRandom) /\ q[m + 1] >= m + 1
      BY <2>2
    <3>2. Len(a.vRandom) \in Nat
      BY LenProperties DEF AInv, AddrTypeOK
    <3> QED BY <2>1, <3>1, <3>2
  <2>5. AInv(f[m + 1], None) /\ Kept(f[m + 1], f[m]) /\ Len(f[m + 1].vRandom) = Len(f[m].vRandom)
    BY <2>1, <2>3, <2>4, SwapInv
  <2>6. Kept(f[m + 1], a)
    BY <2>1, <2>5 DEF Kept, Same
  <2> QED BY <2>1, <2>5, <2>6
<1>5. Nat \subseteq S
  <2>1. \A m \in Nat : m \in S => m + 1 \in S
    BY <1>4
  <2> HIDE DEF S
  <2> QED BY <1>3, <2>1, CountUp
<1>6. n \in S
  BY <1>5
<1> QED BY <1>1, <1>6

\* One round of the loop of SelectTried.
Round(a, r, p, i) ==
    LET Success(id) == a.mapInfo[id].nLastSuccess
        nTemp == r.vTried[p]
        older == r.nOldest = None \/ Success(nTemp) < Success(r.nOldest)
    IN  [vTried     |-> [r.vTried EXCEPT ![p] = r.vTried[i], ![i] = nTemp],
         nOldest    |-> IF older THEN nTemp ELSE r.nOldest,
         nOldestPos |-> IF older THEN p ELSE r.nOldestPos]

Start(v) == [vTried |-> v, nOldest |-> None, nOldestPos |-> 0]

ShuffleRounds(f, a, v, n, q) == f[0] = Start(v) /\ \A i \in 1 .. n : f[i] = Round(a, f[i - 1], q[i], i)

LEMMA ShuffledRounds ==
    ASSUME NEW a, NEW v, NEW n \in Nat, NEW q, NEW f, f = Shuffled(a, v, n, q)
    PROVE  ShuffleRounds(f, a, v, n, q)
<1> DEFINE Rounds(g, m) ==
              /\ g = [i \in 0 .. m |-> g[i]]
              /\ g[0] = Start(v) /\ \A i \in 1 .. m : g[i] = Round(a, g[i - 1], q[i], i)
           S == {m \in Nat : \E g : Rounds(g, m)}
<1>1. 0 \in S
  <2>1. Rounds([i \in 0 .. 0 |-> Start(v)], 0)
    OBVIOUS
  <2> QED BY <2>1
<1>2. ASSUME NEW m \in Nat, m \in S PROVE m + 1 \in S
  <2>1. PICK g : Rounds(g, m)
    BY <1>2
  <2> DEFINE h == [i \in 0 .. m + 1 |-> IF i = m + 1 THEN Round(a, g[m], q[m + 1], m + 1) ELSE g[i]]
  <2>2. h = [i \in 0 .. m + 1 |-> h[i]]
    OBVIOUS
  <2>3. h[0] = Start(v)
    BY <2>1
  <2>4. ASSUME NEW i \in 1 .. m + 1 PROVE h[i] = Round(a, h[i - 1], q[i], i)
    <3>1. CASE i = m + 1
      <4>1. h[i] = Round(a, g[m], q[i], i) /\ h[i - 1] = g[m]
        BY <3>1
      <4> HIDE DEF h
      <4> QED BY <4>1
    <3>2. CASE i # m + 1
      <4>1. i \in 1 .. m /\ h[i] = g[i] /\ h[i - 1] = g[i - 1]
        BY <3>2
      <4> HIDE DEF h
      <4> QED BY <2>1, <4>1
    <3> QED BY <3>1, <3>2
  <2> HIDE DEF h
  <2>5. Rounds(h, m + 1)
    BY <2>2, <2>3, <2>4
  <2>6. m + 1 \in Nat
    OBVIOUS
  <2> HIDE DEF Rounds
  <2> QED BY <2>5, <2>6
<1>3. Nat \subseteq S
  <2>1. \A m \in Nat : m \in S => m + 1 \in S
    BY <1>2
  <2> HIDE DEF S
  <2> QED BY <1>1, <2>1, CountUp
<1>4. PICK g : Rounds(g, n)
  BY <1>3
<1> DEFINE F(u) == [i \in 0 .. n |-> IF i = 0 THEN Start(v) ELSE Round(a, u[i - 1], q[i], i)]
<1>5. g = F(g)
  <2>1. g = [i \in 0 .. n |-> g[i]] /\ g[0] = Start(v) /\ \A i \in 1 .. n : g[i] = Round(a, g[i - 1], q[i], i)
    BY <1>4
  <2>2. \A i \in 0 .. n : i # 0 => i \in 1 .. n
    OBVIOUS
  <2>3. \A i \in 0 .. n : g[i] = IF i = 0 THEN Start(v) ELSE Round(a, g[i - 1], q[i], i)
    BY <2>1, <2>2
  <2> QED BY <2>1, <2>3, Zenon
<1>6. f = CHOOSE u : u = F(u)
  BY Zenon DEF Shuffled, Start, Round
<1>7. f = F(f)
  <2> HIDE DEF F
  <2> QED BY <1>5, <1>6
<1>8. \A i \in 0 .. n : f[i] = IF i = 0 THEN Start(v) ELSE Round(a, f[i - 1], q[i], i)
  BY <1>7
<1> QED BY <1>8 DEF ShuffleRounds

LEMMA PermutedSwap ==
    ASSUME NEW s \in Seq(Nat), NEW v, Permuted(v, s), NEW p \in 1 .. Len(s), NEW i \in 1 .. Len(s),
           NEW t, t = [v EXCEPT ![p] = v[i], ![i] = v[p]]
    PROVE  Permuted(t, s)
<1> DEFINE w == [v EXCEPT ![p] = v[i]]
<1>1. v \in Seq(Nat) /\ Len(v) = Len(s) /\ ToSet(v) = ToSet(s) /\ Distinct(v)
  BY DEF Permuted
<1>2. v[p] \in Nat /\ v[i] \in Nat
  BY <1>1, ElementOfSeq
<1>3. w \in Seq(Nat) /\ Len(w) = Len(v) /\ \A j \in 1 .. Len(v) : w[j] = IF j = p THEN v[i] ELSE v[j]
  <2>1. v \in Seq(Nat) /\ p \in 1 .. Len(v) /\ v[i] \in Nat
    BY <1>1, <1>2
  <2>2. PICK e \in Nat : e = v[i]
    BY <1>2
  <2>3. /\ [v EXCEPT ![p] = e] \in Seq(Nat) /\ Len([v EXCEPT ![p] = e]) = Len(v)
        /\ \A j \in 1 .. Len(v) : [v EXCEPT ![p] = e][j] = IF j = p THEN e ELSE v[j]
    BY <2>1, ExceptSeq
  <2> QED BY <2>2, <2>3
<1>4. t = [w EXCEPT ![i] = v[p]]
  OBVIOUS
<1> HIDE DEF w
<1>5. t \in Seq(Nat) /\ Len(t) = Len(w) /\ \A j \in 1 .. Len(w) : t[j] = IF j = i THEN v[p] ELSE w[j]
  <2>1. w \in Seq(Nat) /\ i \in 1 .. Len(w)
    BY <1>1, <1>3
  <2>2. /\ [w EXCEPT ![i] = v[p]] \in Seq(Nat) /\ Len([w EXCEPT ![i] = v[p]]) = Len(w)
        /\ \A j \in 1 .. Len(w) : [w EXCEPT ![i] = v[p]][j] = IF j = i THEN v[p] ELSE w[j]
    <3>1. v[p] \in Nat
      BY <1>2
    <3> QED BY ONLY <2>1, <3>1, ExceptSeq
  <2> QED BY <1>4, <2>2
<1>6. \A j \in 1 .. Len(s) : t[j] = IF j = i THEN v[p] ELSE IF j = p THEN v[i] ELSE v[j]
  BY <1>1, <1>3, <1>5
<1>7. DOMAIN t = 1 .. Len(s) /\ DOMAIN v = 1 .. Len(s)
  BY <1>1, <1>3, <1>5, LenProperties
<1>8. ToSet(t) = ToSet(v)
  <2>1. \A y \in ToSet(t) : y \in ToSet(v)
    BY <1>6, <1>7 DEF ToSet
  <2>2. \A y \in ToSet(v) : y \in ToSet(t)
    <3> SUFFICES ASSUME NEW j \in 1 .. Len(s) PROVE v[j] \in ToSet(t)
      BY <1>7 DEF ToSet
    <3>1. CASE j = i
      <4>1. t[p] = v[j]
        BY <1>6, <3>1
      <4> QED BY <1>7, <4>1 DEF ToSet
    <3>2. CASE j = p
      <4>1. t[i] = v[j]
        BY <1>6, <3>2
      <4> QED BY <1>7, <4>1 DEF ToSet
    <3>3. CASE j # i /\ j # p
      <4>1. t[j] = v[j]
        BY <1>6, <3>3
      <4> QED BY <1>7, <4>1 DEF ToSet
    <3> QED BY <3>1, <3>2, <3>3
  <2> QED BY <2>1, <2>2
<1>9. Distinct(t)
  <2>1. \A j, l \in 1 .. Len(s) : v[j] = v[l] => j = l
    BY <1>1 DEF Distinct
  <2>2. Len(t) = Len(s)
    BY <1>1, <1>3, <1>5
  <2> QED BY <1>6, <2>1, <2>2 DEF Distinct
<1> QED BY <1>1, <1>3, <1>5, <1>8, <1>9 DEF Permuted


LEMMA MinOfTwo ==
    ASSUME NEW m \in Nat, NEW n \in Nat
    PROVE  Min({m, n}) \in {m, n} /\ Min({m, n}) <= m /\ Min({m, n}) <= n
<1>1. \E x \in {m, n} : \A y \in {m, n} : x <= y
  OBVIOUS
<1> QED BY <1>1 DEF Min

\* SelectTried permutes the bucket and names one of its places.
LEMMA SelectedInv ==
    ASSUME NEW a, NEW k, a.vvTried[k] \in Seq(Nat), Distinct(a.vvTried[k]), Len(a.vvTried[k]) >= 1,
           NEW sel \in SelectTried(a, k)
    PROVE  Permuted(sel.vTried, a.vvTried[k]) /\ sel.nOldestPos \in 1 .. Len(sel.vTried)
<1> DEFINE v == a.vvTried[k]
           n == Min({TRIED_ENTRIES_INSPECT_ON_EVICT, Len(v)})
<1>1. Len(v) \in Nat /\ n \in Nat /\ n >= 1 /\ n <= Len(v)
  <2>1. Len(v) \in Nat /\ TRIED_ENTRIES_INSPECT_ON_EVICT \in Nat /\ TRIED_ENTRIES_INSPECT_ON_EVICT >= 1
    BY LenProperties, AddrAssumption
  <2>2. n \in {TRIED_ENTRIES_INSPECT_ON_EVICT, Len(v)} /\ n <= Len(v)
    BY <2>1, MinOfTwo
  <2> HIDE DEF n
  <2> QED BY <2>1, <2>2
<1>2. PICK q \in [1 .. n -> 1 .. Len(v)] : sel = Shuffled(a, v, n, q)[n] /\ \A i \in 1 .. n : q[i] >= i
  BY DEF SelectTried
<1> HIDE DEF n
<1>3. PICK f : f = Shuffled(a, v, n, q)
  OBVIOUS
<1>4. f[0] = Start(v) /\ \A i \in 1 .. n : f[i] = Round(a, f[i - 1], q[i], i)
  <2>1. ShuffleRounds(f, a, v, n, q)
    BY <1>1, <1>3, ShuffledRounds
  <2> QED BY <2>1 DEF ShuffleRounds
<1> DEFINE S == {m \in Nat : m <= n => /\ Permuted(f[m].vTried, v)
                                       /\ m = 0 => f[m].nOldest = None
                                       /\ m # 0 => f[m].nOldestPos \in 1 .. Len(v)}
<1>5. 0 \in S
  <2>1. f[0].vTried = v /\ f[0].nOldest = None
    BY <1>4 DEF Start
  <2>2. Permuted(v, v)
    BY DEF Permuted
  <2> QED BY <2>1, <2>2
<1>6. ASSUME NEW m \in Nat, m \in S, m + 1 <= n
      PROVE  Permuted(f[m + 1].vTried, v) /\ f[m + 1].nOldestPos \in 1 .. Len(v)
  <2>1. /\ Permuted(f[m].vTried, v)
        /\ m = 0 => f[m].nOldest = None
        /\ m # 0 => f[m].nOldestPos \in 1 .. Len(v)
    BY <1>1, <1>6
  <2>2. m + 1 \in 1 .. n /\ (m + 1) - 1 = m
    BY <1>6
  <2>3. f[m + 1] = Round(a, f[m], q[m + 1], m + 1)
    BY <1>4, <2>2
  <2>4. q[m + 1] \in 1 .. Len(v) /\ m + 1 \in 1 .. Len(v)
    BY <1>1, <1>2, <2>2
  <2>5. PICK p \in 1 .. Len(v) : p = q[m + 1]
    BY <2>4
  <2>6. PICK i \in 1 .. Len(v) : i = m + 1
    BY <2>4
  <2>7. f[i] = Round(a, f[m], p, i)
    BY <2>3, <2>5, <2>6
  <2>8. f[i].vTried = [f[m].vTried EXCEPT ![p] = f[m].vTried[i], ![i] = f[m].vTried[p]]
    BY <2>7 DEF Round
  <2>9. Permuted(f[i].vTried, v)
    BY <2>1, <2>8, PermutedSwap
  <2>10. f[i].nOldestPos \in 1 .. Len(v)
    <3>1. f[i].nOldestPos = p \/ f[i].nOldestPos = f[m].nOldestPos
      BY <2>7 DEF Round
    <3>2. f[m].nOldest = None => f[i].nOldestPos = p
      BY <2>7 DEF Round
    <3> QED BY <2>1, <3>1, <3>2
  <2> QED BY <2>6, <2>9, <2>10
<1>7. Nat \subseteq S
  <2>1. \A m \in Nat : m \in S => m + 1 \in S
    BY <1>6
  <2> HIDE DEF S
  <2> QED BY <1>5, <2>1, CountUp
<1>8. n \in S
  BY <1>1, <1>7
<1>9. Permuted(f[n].vTried, v) /\ f[n].nOldestPos \in 1 .. Len(v)
  BY <1>1, <1>8
<1>10. sel = f[n]
  BY <1>2, <1>3
<1> QED BY <1>9, <1>10 DEF Permuted


-----------------------------------------------------------------------------
(* Good_, together.                                                        *)

\* The entry has left the new buckets.
Out(a, i) ==
    [a EXCEPT !.vvNew = [b \in NewBuckets |-> a.vvNew[b] \ {i}],
              !.mapInfo[i].nRefCount = @ - Cardinality(NewBucketsOf(a, i)),
              !.nNew = @ - 1]

OutFields(o, a, i) ==
    /\ Object(o) /\ o.nIdCount = a.nIdCount /\ o.mapAddr = a.mapAddr /\ o.vRandom = a.vRandom
    /\ o.vvTried = a.vvTried /\ o.nTried = a.nTried /\ o.nNew = a.nNew - 1
    /\ o.vvNew = [b \in NewBuckets |-> a.vvNew[b] \ {i}]
    /\ o.mapInfo \in [DOMAIN a.mapInfo -> Info]
    /\ \A id \in DOMAIN a.mapInfo : id # i => o.mapInfo[id] = a.mapInfo[id]
    /\ o.mapInfo[i].addr = a.mapInfo[i].addr /\ o.mapInfo[i].nRandomPos = a.mapInfo[i].nRandomPos
    /\ o.mapInfo[i].nLastSuccess = a.mapInfo[i].nLastSuccess /\ o.mapInfo[i].nRefCount = 0

LEMMA OutInv ==
    ASSUME NEW a, AInv(a, None), NEW i \in NewIds(a), NEW o, o = Out(a, i)
    PROVE  OutFields(o, a, i)
<1>0. /\ Object(a) /\ AddrTypeOK(a) /\ a.mapInfo \in [DOMAIN a.mapInfo -> Info]
      /\ i \in DOMAIN a.mapInfo /\ i \in Nat /\ i # None /\ Refs(a, None)
  <2>1. Object(a) /\ AddrTypeOK(a) /\ Refs(a, None) /\ i \in DOMAIN a.mapInfo
    BY DEF AInv, NewIds
  <2>2. a.mapInfo \in [DOMAIN a.mapInfo -> Info] /\ DOMAIN a.mapInfo \subseteq 0 .. a.nIdCount - 1
    BY <2>1 DEF AddrTypeOK
  <2>3. i \in Nat /\ i # None
    BY <2>1, <2>2, AddrAssumption
  <2> QED BY <2>1, <2>2, <2>3
<1> DEFINE c == Cardinality(NewBucketsOf(a, i))
<1>1. /\ Object(o) /\ o.nIdCount = a.nIdCount /\ o.mapAddr = a.mapAddr /\ o.vRandom = a.vRandom
      /\ o.vvTried = a.vvTried /\ o.nTried = a.nTried /\ o.nNew = a.nNew - 1
      /\ o.vvNew = [b \in NewBuckets |-> a.vvNew[b] \ {i}]
  BY <1>0 DEF Object, Out
<1>2. o.mapInfo = [a.mapInfo EXCEPT ![i] = [a.mapInfo[i] EXCEPT !.nRefCount = a.mapInfo[i].nRefCount - c]]
  BY <1>0 DEF Object, Out
<1>3. a.mapInfo[i] \in Info /\ a.mapInfo[i].nRefCount = c /\ c \in Nat
  <2>1. c \in Nat
    BY <1>0, FiniteIds, FS_CardinalityType
  <2> QED BY <1>0, <2>1 DEF Refs
<1> HIDE DEF c
<1>4. PICK info : info = [a.mapInfo[i] EXCEPT !.nRefCount = a.mapInfo[i].nRefCount - c]
  OBVIOUS
<1>5. /\ info \in Info /\ info.addr = a.mapInfo[i].addr /\ info.nRandomPos = a.mapInfo[i].nRandomPos
      /\ info.nLastSuccess = a.mapInfo[i].nLastSuccess /\ info.nRefCount = 0
  BY <1>3, <1>4 DEF Info
<1>6. o.mapInfo = [a.mapInfo EXCEPT ![i] = info]
  BY <1>2, <1>4
<1>7. /\ o.mapInfo \in [DOMAIN a.mapInfo -> Info] /\ o.mapInfo[i] = info
      /\ \A id \in DOMAIN a.mapInfo : id # i => o.mapInfo[id] = a.mapInfo[id]
  BY <1>0, <1>5, <1>6
<1> QED BY <1>1, <1>5, <1>7 DEF OutFields

LEMMA AppendedFields ==
    ASSUME NEW a, AInv(a, None), NEW i \in NewIds(a), NEW o, OutFields(o, a, i), NEW k,
           NEW r, r = [o EXCEPT !.vvTried[k] = Append(@, i), !.nTried = @ + 1, !.mapInfo[i].fInTried = TRUE]
    PROVE  Appended(r, a, i, k)
<1>0. i \in DOMAIN a.mapInfo /\ a.mapInfo \in [DOMAIN a.mapInfo -> Info]
  BY DEF AInv, AddrTypeOK, NewIds
<1>1. /\ Object(o) /\ o.nIdCount = a.nIdCount /\ o.mapAddr = a.mapAddr /\ o.vRandom = a.vRandom
      /\ o.vvTried = a.vvTried /\ o.nTried = a.nTried /\ o.nNew = a.nNew - 1
      /\ o.vvNew = [b \in NewBuckets |-> a.vvNew[b] \ {i}]
  BY DEF OutFields
<1>2. /\ o.mapInfo \in [DOMAIN a.mapInfo -> Info]
      /\ \A id \in DOMAIN a.mapInfo : id # i => o.mapInfo[id] = a.mapInfo[id]
      /\ o.mapInfo[i].addr = a.mapInfo[i].addr /\ o.mapInfo[i].nRandomPos = a.mapInfo[i].nRandomPos
      /\ o.mapInfo[i].nLastSuccess = a.mapInfo[i].nLastSuccess /\ o.mapInfo[i].nRefCount = 0
  BY DEF OutFields
<1>3. /\ Object(r) /\ r.nIdCount = a.nIdCount /\ r.mapAddr = a.mapAddr /\ r.vRandom = a.vRandom
      /\ r.vvTried = [a.vvTried EXCEPT ![k] = Append(a.vvTried[k], i)]
      /\ r.nTried = a.nTried + 1 /\ r.nNew = a.nNew - 1
      /\ r.vvNew = [b \in NewBuckets |-> a.vvNew[b] \ {i}]
  BY <1>1 DEF Object
<1>4. r.mapInfo = [o.mapInfo EXCEPT ![i] = [o.mapInfo[i] EXCEPT !.fInTried = TRUE]]
  BY <1>1 DEF Object
<1>5. PICK info : info = [o.mapInfo[i] EXCEPT !.fInTried = TRUE]
  OBVIOUS
<1>6. o.mapInfo[i] \in Info
  BY <1>0, <1>2
<1>7. /\ info \in Info /\ info.addr = o.mapInfo[i].addr /\ info.nRandomPos = o.mapInfo[i].nRandomPos
      /\ info.nLastSuccess = o.mapInfo[i].nLastSuccess /\ info.nRefCount = o.mapInfo[i].nRefCount
      /\ info.fInTried = TRUE
  BY <1>5, <1>6 DEF Info
<1>8. r.mapInfo = [o.mapInfo EXCEPT ![i] = info]
  BY <1>4, <1>5
<1>9. /\ r.mapInfo \in [DOMAIN a.mapInfo -> Info] /\ r.mapInfo[i] = info
      /\ \A id \in DOMAIN a.mapInfo : id # i => r.mapInfo[id] = a.mapInfo[id]
  <2>1. PICK m : m = o.mapInfo
    OBVIOUS
  <2>2. PICK n : n = [m EXCEPT ![i] = info]
    OBVIOUS
  <2>3. m \in [DOMAIN a.mapInfo -> Info] /\ info \in Info
    BY <1>2, <1>7, <2>1
  <2>4. n \in [DOMAIN a.mapInfo -> Info] /\ n[i] = info /\ \A id \in DOMAIN a.mapInfo : id # i => n[id] = m[id]
    BY <1>0, <2>2, <2>3
  <2>5. r.mapInfo = n
    BY <1>8, <2>1, <2>2
  <2>6. \A id \in DOMAIN a.mapInfo : id # i => m[id] = a.mapInfo[id]
    BY <1>2, <2>1
  <2> QED BY <2>4, <2>5, <2>6
<1>10. ToTried(r, a, i)
  <2>1. ASSUME NEW id \in DOMAIN a.mapInfo
        PROVE  /\ r.mapInfo[id].addr = a.mapInfo[id].addr /\ r.mapInfo[id].nRandomPos = a.mapInfo[id].nRandomPos
               /\ r.mapInfo[id].nLastSuccess = a.mapInfo[id].nLastSuccess
    BY <1>2, <1>7, <1>9
  <2>2. r.mapInfo[i].nRefCount = 0 /\ r.mapInfo[i].fInTried = TRUE
    BY <1>2, <1>7, <1>9
  <2> QED BY <1>3, <1>9, <2>1, <2>2 DEF ToTried
<1> QED BY <1>3, <1>9, <1>10 DEF Appended

LEMMA ReplacedFields ==
    ASSUME NEW a, AInv(a, None), NEW i \in NewIds(a), NEW o, OutFields(o, a, i), NEW k,
           NEW v, NEW p, v[p] \in TriedIds(a), NEW u \in NewBuckets,
           NEW r, r = [o EXCEPT !.mapInfo[v[p]].fInTried = FALSE, !.mapInfo[v[p]].nRefCount = 1,
                                !.vvNew[u] = @ \cup {v[p]},
                                !.nNew = @ + 1,
                                !.vvTried[k] = [v EXCEPT ![p] = i],
                                !.mapInfo[i].fInTried = TRUE]
    PROVE  Replaced(r, a, i, k, v, p, u)
<1>0. /\ i \in DOMAIN a.mapInfo /\ a.mapInfo \in [DOMAIN a.mapInfo -> Info] /\ v[p] \in DOMAIN a.mapInfo /\ v[p] # i
      /\ a.vvNew \in [NewBuckets -> SUBSET Nat] /\ a.nNew \in Nat
  BY DEF AInv, AddrTypeOK, NewIds, TriedIds
<1>1. /\ Object(o) /\ o.nIdCount = a.nIdCount /\ o.mapAddr = a.mapAddr /\ o.vRandom = a.vRandom
      /\ o.vvTried = a.vvTried /\ o.nTried = a.nTried /\ o.nNew = a.nNew - 1
      /\ o.vvNew = [b \in NewBuckets |-> a.vvNew[b] \ {i}]
  BY DEF OutFields
<1>2. /\ o.mapInfo \in [DOMAIN a.mapInfo -> Info]
      /\ \A id \in DOMAIN a.mapInfo : id # i => o.mapInfo[id] = a.mapInfo[id]
      /\ o.mapInfo[i].addr = a.mapInfo[i].addr /\ o.mapInfo[i].nRandomPos = a.mapInfo[i].nRandomPos
      /\ o.mapInfo[i].nLastSuccess = a.mapInfo[i].nLastSuccess /\ o.mapInfo[i].nRefCount = 0
  BY DEF OutFields
<1>3. PICK old : old = v[p]
  OBVIOUS
<1>4. /\ Object(r) /\ r.nIdCount = a.nIdCount /\ r.mapAddr = a.mapAddr /\ r.vRandom = a.vRandom
      /\ r.vvTried = [a.vvTried EXCEPT ![k] = [v EXCEPT ![p] = i]]
      /\ r.nTried = a.nTried /\ r.nNew = (a.nNew - 1) + 1
      /\ r.vvNew = [o.vvNew EXCEPT ![u] = o.vvNew[u] \cup {old}]
  BY <1>1, <1>3 DEF Object
<1>5. r.vvNew = [b \in NewBuckets |-> IF b = u THEN (a.vvNew[b] \ {i}) \cup {v[p]} ELSE a.vvNew[b] \ {i}]
  <2>1. PICK w : w = o.vvNew
    OBVIOUS
  <2>2. w = [b \in NewBuckets |-> a.vvNew[b] \ {i}]
    BY <1>1, <2>1
  <2>3. r.vvNew = [w EXCEPT ![u] = w[u] \cup {v[p]}]
    BY <1>3, <1>4, <2>1
  <2> QED BY <2>2, <2>3
<1> DEFINE m1 == [o.mapInfo EXCEPT ![old] = [o.mapInfo[old] EXCEPT !.fInTried = FALSE]]
           m2 == [m1 EXCEPT ![old] = [m1[old] EXCEPT !.nRefCount = 1]]
           m3 == [m2 EXCEPT ![i] = [m2[i] EXCEPT !.fInTried = TRUE]]
<1>6. r.mapInfo = m3
  BY <1>1, <1>3 DEF Object
<1>7. /\ m1 \in [DOMAIN a.mapInfo -> Info] /\ m1[old].fInTried = FALSE
      /\ m1[old].addr = a.mapInfo[old].addr /\ m1[old].nRandomPos = a.mapInfo[old].nRandomPos
      /\ m1[old].nLastSuccess = a.mapInfo[old].nLastSuccess
      /\ \A id \in DOMAIN a.mapInfo : id # old => m1[id] = o.mapInfo[id]
  <2>1. PICK info : info = [o.mapInfo[old] EXCEPT !.fInTried = FALSE]
    OBVIOUS
  <2>2. o.mapInfo[old] \in Info /\ o.mapInfo[old] = a.mapInfo[old] /\ old \in DOMAIN a.mapInfo
    BY <1>0, <1>2, <1>3
  <2>3. /\ info \in Info /\ info.addr = o.mapInfo[old].addr /\ info.nRandomPos = o.mapInfo[old].nRandomPos
        /\ info.nLastSuccess = o.mapInfo[old].nLastSuccess /\ info.fInTried = FALSE
    BY <2>1, <2>2 DEF Info
  <2>4. m1 = [o.mapInfo EXCEPT ![old] = info]
    BY <2>1
  <2> HIDE DEF m1
  <2> QED BY <1>2, <2>2, <2>3, <2>4
<1> HIDE DEF m1
<1>8. /\ m2 \in [DOMAIN a.mapInfo -> Info] /\ m2[old].fInTried = FALSE /\ m2[old].nRefCount = 1
      /\ m2[old].addr = a.mapInfo[old].addr /\ m2[old].nRandomPos = a.mapInfo[old].nRandomPos
      /\ m2[old].nLastSuccess = a.mapInfo[old].nLastSuccess
      /\ \A id \in DOMAIN a.mapInfo : id # old => m2[id] = o.mapInfo[id]
  <2>1. PICK info : info = [m1[old] EXCEPT !.nRefCount = 1]
    OBVIOUS
  <2>2. m1[old] \in Info /\ old \in DOMAIN a.mapInfo
    BY <1>0, <1>3, <1>7
  <2>3. /\ info \in Info /\ info.addr = m1[old].addr /\ info.nRandomPos = m1[old].nRandomPos
        /\ info.nLastSuccess = m1[old].nLastSuccess /\ info.fInTried = m1[old].fInTried /\ info.nRefCount = 1
    BY <2>1, <2>2 DEF Info
  <2>4. m2 = [m1 EXCEPT ![old] = info]
    BY <2>1
  <2> HIDE DEF m2
  <2> QED BY <1>7, <2>2, <2>3, <2>4
<1> HIDE DEF m2
<1>9. /\ m3 \in [DOMAIN a.mapInfo -> Info] /\ m3[i].fInTried = TRUE /\ m3[i].nRefCount = 0
      /\ m3[i].addr = a.mapInfo[i].addr /\ m3[i].nRandomPos = a.mapInfo[i].nRandomPos
      /\ m3[i].nLastSuccess = a.mapInfo[i].nLastSuccess
      /\ \A id \in DOMAIN a.mapInfo : id # i => m3[id] = m2[id]
  <2>1. PICK info : info = [m2[i] EXCEPT !.fInTried = TRUE]
    OBVIOUS
  <2>2. m2[i] \in Info /\ m2[i] = o.mapInfo[i]
    BY <1>0, <1>3, <1>8
  <2>3. /\ info \in Info /\ info.addr = m2[i].addr /\ info.nRandomPos = m2[i].nRandomPos
        /\ info.nLastSuccess = m2[i].nLastSuccess /\ info.fInTried = TRUE /\ info.nRefCount = m2[i].nRefCount
    BY <2>1, <2>2 DEF Info
  <2>4. m3 = [m2 EXCEPT ![i] = info]
    BY <2>1
  <2> HIDE DEF m3
  <2> QED BY <1>0, <1>2, <1>8, <2>2, <2>3, <2>4
<1> HIDE DEF m3
<1>10. \A id \in DOMAIN a.mapInfo : id # i /\ id # old => m3[id] = a.mapInfo[id]
  BY <1>2, <1>8, <1>9
<1>11. m3[old] = m2[old]
  BY <1>0, <1>3, <1>9
<1>12. ToTried(r, a, i)
  <2>1. ASSUME NEW id \in DOMAIN a.mapInfo
        PROVE  /\ m3[id].addr = a.mapInfo[id].addr /\ m3[id].nRandomPos = a.mapInfo[id].nRandomPos
               /\ m3[id].nLastSuccess = a.mapInfo[id].nLastSuccess
    BY <1>8, <1>9, <1>10, <1>11
  <2> QED BY <1>4, <1>6, <1>9, <2>1 DEF ToTried
<1>13. r.nNew = a.nNew
  BY <1>0, <1>4
<1> QED BY <1>3, <1>4, <1>5, <1>6, <1>8, <1>10, <1>11, <1>12, <1>13 DEF Replaced


\* i is tried in r, and perhaps one entry that was tried is not any more.
Reached(r, a, i) ==
    /\ DOMAIN r.mapInfo = DOMAIN a.mapInfo /\ \A id \in DOMAIN a.mapInfo : r.mapInfo[id].addr = a.mapInfo[id].addr
    /\ \/ NewIds(r) = NewIds(a) \ {i} /\ TriedIds(r) = TriedIds(a) \cup {i}
       \/ \E old : Exchanged(r, a, i, old)

LEMMA MakeTriedInv ==
    ASSUME NEW a, AInv(a, None), NEW i \in NewIds(a), a.mapInfo[i].nLastSuccess # 0,
           NEW nOrigin \in NewBucketsOf(a, i), NEW r \in MakeTried(a, i, nOrigin)
    PROVE  AInv(r, None) /\ Reached(r, a, i)
<1>0. /\ AddrTypeOK(a) /\ a.mapInfo \in [DOMAIN a.mapInfo -> Info] /\ i \in DOMAIN a.mapInfo
      /\ a.vvTried \in [TriedBuckets -> Seq(Nat)] /\ Tries(a) /\ Refs(a, None) /\ Bounded(a)
  BY DEF AInv, AddrTypeOK, NewIds
<1>1. PICK o : o = Out(a, i)
  OBVIOUS
<1>2. OutFields(o, a, i)
  BY <1>1, OutInv
<1>3. PICK k : k = GetTriedBucket[a.mapInfo[i].addr]
  OBVIOUS
<1>4. k \in TriedBuckets
  BY <1>0, <1>3, AddrAssumption DEF Info
<1>5. o.vvTried = a.vvTried /\ \A b \in NewBuckets : o.vvNew[b] = a.vvNew[b] \ {i}
  BY <1>2 DEF OutFields
<1>6. r \in IF Len(o.vvTried[k]) < TRIED_BUCKET_SIZE
            THEN {[o EXCEPT !.vvTried[k] = Append(@, i), !.nTried = @ + 1, !.mapInfo[i].fInTried = TRUE]}
            ELSE {Replace(o, k, sel, i, nOrigin) : sel \in SelectTried(o, k)}
  BY <1>1, <1>3 DEF MakeTried, Out
<1>7. CASE Len(a.vvTried[k]) < TRIED_BUCKET_SIZE
  <2>1. r = [o EXCEPT !.vvTried[k] = Append(@, i), !.nTried = @ + 1, !.mapInfo[i].fInTried = TRUE]
    BY <1>5, <1>6, <1>7
  <2>2. Appended(r, a, i, k)
    BY <1>2, <2>1, AppendedFields
  <2>3. AInv(r, None) /\ NewIds(r) = NewIds(a) \ {i} /\ TriedIds(r) = TriedIds(a) \cup {i}
    BY <1>3, <1>7, <2>2, AppendedInv
  <2>4. DOMAIN r.mapInfo = DOMAIN a.mapInfo /\ \A id \in DOMAIN a.mapInfo : r.mapInfo[id].addr = a.mapInfo[id].addr
    BY <2>2 DEF Appended, ToTried
  <2> QED BY <2>3, <2>4 DEF Reached
<1>8. CASE ~(Len(a.vvTried[k]) < TRIED_BUCKET_SIZE)
  <2>1. PICK sel \in SelectTried(o, k) : r = Replace(o, k, sel, i, nOrigin)
    BY <1>5, <1>6, <1>8
  <2>2. Permuted(sel.vTried, a.vvTried[k]) /\ sel.nOldestPos \in 1 .. Len(sel.vTried)
    <3>1. o.vvTried[k] \in Seq(Nat) /\ Distinct(o.vvTried[k]) /\ Len(o.vvTried[k]) >= 1
      <4>1. a.vvTried[k] \in Seq(Nat) /\ Distinct(a.vvTried[k])
        BY <1>0, <1>4 DEF Tries
      <4>2. Len(a.vvTried[k]) \in Nat /\ TRIED_BUCKET_SIZE \in Nat /\ TRIED_BUCKET_SIZE >= 1
        BY <4>1, LenProperties, AddrAssumption
      <4>3. Len(a.vvTried[k]) >= 1
        BY <1>8, <4>2
      <4> QED BY <1>5, <4>1, <4>3
    <3>2. Permuted(sel.vTried, o.vvTried[k]) /\ sel.nOldestPos \in 1 .. Len(sel.vTried)
      BY <3>1, SelectedInv
    <3> QED BY <1>5, <3>2
  <2>3. PICK v : v = sel.vTried
    OBVIOUS
  <2>4. PICK p : p = sel.nOldestPos
    OBVIOUS
  <2>5. Permuted(v, a.vvTried[k]) /\ p \in 1 .. Len(v)
    BY <2>2, <2>3, <2>4
  <2>6. v[p] \in TriedIds(a) /\ v[p] \in DOMAIN a.mapInfo /\ v[p] # i
    <3>1. DOMAIN v = 1 .. Len(v)
      BY <2>5, LenProperties DEF Permuted
    <3>2. v[p] \in ToSet(v)
      BY <2>5, <3>1 DEF ToSet
    <3>3. v[p] \in ToSet(a.vvTried[k])
      BY <2>5, <3>2 DEF Permuted
    <3> QED BY <1>0, <1>4, <3>3 DEF Tries, TriedIds, NewIds
  <2>7. PICK u : u = BackToNew(o, nOrigin, v[p])
    OBVIOUS
  <2>8. u \in NewBuckets /\ HasRoom(a, u, i)
    <3>1. o.mapInfo[v[p]] \in Info
      BY <1>2, <2>6 DEF OutFields
    <3>2. GetNewBucket[<<IP[o.mapInfo[v[p]].addr], o.mapInfo[v[p]].source>>] \in NewBuckets
      BY <3>1, AddrAssumption DEF Info
    <3>3. nOrigin \in NewBuckets /\ i \in a.vvNew[nOrigin]
      BY DEF NewBucketsOf
    <3>4. Cardinality(a.vvNew[nOrigin] \ {i}) < NEW_BUCKET_SIZE
      <4>1. IsFiniteSet(a.vvNew[nOrigin]) /\ Cardinality(a.vvNew[nOrigin]) <= NEW_BUCKET_SIZE
        BY <1>0, <3>3, FiniteIds DEF Bounded, Refs, NewIds
      <4>2. Cardinality(a.vvNew[nOrigin] \ {i}) = Cardinality(a.vvNew[nOrigin]) - 1
            /\ Cardinality(a.vvNew[nOrigin]) \in Nat
        BY <3>3, <4>1, FS_RemoveElement, FS_CardinalityType
      <4> QED BY <4>1, <4>2, AddrAssumption
    <3>5. u = nOrigin \/ (u \in NewBuckets /\ Cardinality(o.vvNew[u]) < NEW_BUCKET_SIZE)
      BY <2>7, <3>2 DEF BackToNew
    <3> QED BY <1>5, <3>3, <3>4, <3>5 DEF HasRoom
  <2>9. r = [o EXCEPT !.mapInfo[v[p]].fInTried = FALSE, !.mapInfo[v[p]].nRefCount = 1,
                      !.vvNew[u] = @ \cup {v[p]},
                      !.nNew = @ + 1,
                      !.vvTried[k] = [v EXCEPT ![p] = i],
                      !.mapInfo[i].fInTried = TRUE]
    BY <2>1, <2>3, <2>4, <2>7 DEF Replace
  <2>10. Replaced(r, a, i, k, v, p, u)
    BY <1>2, <2>6, <2>8, <2>9, ReplacedFields
  <2>11. AInv(r, None) /\ Exchanged(r, a, i, v[p])
    BY <1>3, <2>5, <2>8, <2>10, ReplacedInv
  <2>12. DOMAIN r.mapInfo = DOMAIN a.mapInfo /\ \A id \in DOMAIN a.mapInfo : r.mapInfo[id].addr = a.mapInfo[id].addr
    BY <2>10 DEF Replaced, ToTried
  <2> QED BY <2>11, <2>12 DEF Reached
<1> QED BY <1>7, <1>8

\* The time of an entry that was reached is noted.
Noted(r, a, i) ==
    /\ AInv(r, None) /\ Alike(r, a) /\ r.vvNew = a.vvNew /\ r.mapInfo[i].nLastSuccess # 0
    /\ NewIds(r) = NewIds(a) /\ TriedIds(r) = TriedIds(a)

LEMMA NotedInv ==
    ASSUME NEW a, AInv(a, None), NEW i \in DOMAIN a.mapInfo, NEW t \in 1 .. MaxTime,
           NEW r, r = [a EXCEPT !.mapInfo[i].nLastSuccess = t]
    PROVE  Noted(r, a, i)
<1>0. /\ Object(a) /\ AddrTypeOK(a) /\ a.mapInfo \in [DOMAIN a.mapInfo -> Info] /\ Refs(a, None) /\ Bounded(a)
      /\ a.vvNew \in [NewBuckets -> SUBSET Nat] /\ t \in 0 .. MaxTime /\ t # 0
  <2>1. MaxTime \in Nat
    BY AddrAssumption
  <2>2. t \in 0 .. MaxTime /\ t # 0
    BY <2>1
  <2> QED BY <2>2 DEF AInv, AddrTypeOK
<1>1. Object(r) /\ SameFields(r, a) /\ r.vvNew = a.vvNew
  BY <1>0 DEF Object, SameFields
<1>2. r.mapInfo = [a.mapInfo EXCEPT ![i] = [a.mapInfo[i] EXCEPT !.nLastSuccess = t]]
  BY <1>0 DEF Object
<1>3. PICK info : info = [a.mapInfo[i] EXCEPT !.nLastSuccess = t]
  OBVIOUS
<1>4. a.mapInfo[i] \in Info
  BY <1>0
<1>5. /\ info \in Info /\ Like(info, a.mapInfo[i]) /\ info.nLastSuccess = t
      /\ info.nRefCount = a.mapInfo[i].nRefCount
  BY <1>0, <1>3, <1>4 DEF Info, Like
<1>6. PICK m : m = a.mapInfo
  OBVIOUS
<1>7. PICK n : n = [m EXCEPT ![i] = info]
  OBVIOUS
<1>8. m \in [DOMAIN a.mapInfo -> Info]
  BY <1>0, <1>6
<1>9. /\ n \in [DOMAIN a.mapInfo -> Info] /\ n[i] = info
      /\ \A id \in DOMAIN a.mapInfo : id # i => n[id] = m[id]
  BY <1>5, <1>7, <1>8
<1>10. r.mapInfo = n
  BY <1>2, <1>3, <1>6, <1>7
<1>11. /\ r.mapInfo \in [DOMAIN a.mapInfo -> Info] /\ r.mapInfo[i] = info
       /\ \A id \in DOMAIN a.mapInfo : id # i => r.mapInfo[id] = a.mapInfo[id]
  BY <1>6, <1>9, <1>10
<1>12. Alike(r, a)
  BY <1>5, <1>11 DEF Alike, Like
<1>13. \A id \in DOMAIN a.mapInfo : r.mapInfo[id].nRefCount = a.mapInfo[id].nRefCount
  BY <1>5, <1>11
<1>14. r.mapInfo[i].nLastSuccess # 0
  BY <1>0, <1>5, <1>11
<1>15. \A id \in TriedIds(a) : r.mapInfo[id].nRefCount = 0 /\ r.mapInfo[id].nLastSuccess # 0
  <2>1. \A id \in TriedIds(a) : id \in DOMAIN a.mapInfo /\ a.mapInfo[id].nRefCount = 0 /\ a.mapInfo[id].nLastSuccess # 0
    BY DEF AInv, Tries, TriedIds
  <2> QED BY <1>11, <1>13, <1>14, <2>1
<1>16. r.vvNew \in [NewBuckets -> SUBSET Nat]
  BY <1>0, <1>1
<1>17. /\ AddrTypeOK(r) /\ Order(r) /\ Addresses(r) /\ Tries(r)
       /\ TriedIds(r) = TriedIds(a) /\ NewIds(r) = NewIds(a)
  BY <1>1, <1>11, <1>12, <1>15, <1>16, AlikeInv
<1>18. Refs(r, None)
  <2>1. \A id : NewBucketsOf(r, id) = NewBucketsOf(a, id)
    BY <1>1 DEF NewBucketsOf
  <2>2. \A id \in NewIds(a) : r.mapInfo[id].nRefCount = a.mapInfo[id].nRefCount
    BY <1>13 DEF NewIds
  <2>3. r.nNew = a.nNew
    BY <1>1 DEF SameFields
  <2> QED BY <1>0, <1>1, <1>17, <2>1, <2>2, <2>3 DEF Refs
<1>19. Bounded(r)
  BY <1>0, <1>1 DEF Bounded, SameFields
<1> QED BY <1>1, <1>12, <1>14, <1>17, <1>18, <1>19 DEF AInv, Noted


-----------------------------------------------------------------------------
(* What the invariant says of Check_.                                      *)

LEMMA DistinctLen ==
    ASSUME NEW s \in Seq(Nat), Distinct(s)
    PROVE  IsFiniteSet(ToSet(s)) /\ Len(s) = Cardinality(ToSet(s))
<1>1. Len(s) \in Nat /\ s \in [1 .. Len(s) -> Nat] /\ DOMAIN s = 1 .. Len(s)
  BY LenProperties
<1>2. s \in Bijection(1 .. Len(s), ToSet(s))
  <2>1. s \in [1 .. Len(s) -> ToSet(s)]
    BY <1>1 DEF ToSet
  <2>2. s \in Injection(1 .. Len(s), ToSet(s))
    BY <2>1 DEF Injection, IsInjective, Distinct
  <2>3. s \in Surjection(1 .. Len(s), ToSet(s))
    BY <1>1, <2>1 DEF Surjection, ToSet
  <2> QED BY <2>2, <2>3 DEF Bijection
<1>3. IsFiniteSet(1 .. Len(s)) /\ Cardinality(1 .. Len(s)) = Len(s)
  <2>1. 1 \in Int /\ Len(s) \in Int
    BY <1>1
  <2>2. IsFiniteSet(1 .. Len(s)) /\ Cardinality(1 .. Len(s)) = IF 1 > Len(s) THEN 0 ELSE Len(s) - 1 + 1
    BY <2>1, FS_Interval
  <2> QED BY <1>1, <2>2
<1>4. ExistsBijection(1 .. Len(s), ToSet(s))
  BY <1>2 DEF ExistsBijection
<1> QED BY <1>3, <1>4, FS_Bijection

LEMMA InvChecks ==
    ASSUME AInv(am, None)
    PROVE  CheckOK /\ BucketsBounded
<1>0. /\ AddrTypeOK(am) /\ Order(am) /\ Addresses(am) /\ Refs(am, None) /\ Tries(am) /\ Bounded(am)
      /\ am.vRandom \in Seq(Nat) /\ am.vvTried \in [TriedBuckets -> Seq(Nat)]
  BY DEF AInv, AddrTypeOK
<1>1. RandomOK(am)
  <2>1. DOMAIN am.vRandom = 1 .. Len(am.vRandom)
    BY <1>0, LenProperties
  <2>2. Distinct(am.vRandom)
    BY <1>0 DEF Order, Distinct
  <2>3. ToSet(am.vRandom) = DOMAIN am.mapInfo
    <3>1. \A y \in ToSet(am.vRandom) : y \in DOMAIN am.mapInfo
      BY <1>0, <2>1 DEF Order, ToSet
    <3>2. ASSUME NEW y \in DOMAIN am.mapInfo PROVE y \in ToSet(am.vRandom)
      <4>1. am.mapInfo[y].nRandomPos \in 1 .. Len(am.vRandom) /\ am.vRandom[am.mapInfo[y].nRandomPos] = y
        BY <1>0 DEF Order
      <4> QED BY <2>1, <4>1 DEF ToSet
    <3> QED BY <3>1, <3>2
  <2>4. Len(am.vRandom) = Cardinality(DOMAIN am.mapInfo)
    <3>1. Len(am.vRandom) = Cardinality(ToSet(am.vRandom))
      BY <1>0, <2>2, DistinctLen
    <3> QED BY <2>3, <3>1
  <2>5. \A id \in DOMAIN am.mapInfo :
          /\ am.mapInfo[id].nRandomPos \in DOMAIN am.vRandom /\ am.vRandom[am.mapInfo[id].nRandomPos] = id
          /\ IP[am.mapInfo[id].addr] \in DOMAIN am.mapAddr /\ am.mapAddr[IP[am.mapInfo[id].addr]] = id
    BY <1>0, <2>1 DEF Order, Addresses
  <2>6. \A ip \in DOMAIN am.mapAddr : am.mapAddr[ip] \in DOMAIN am.mapInfo
    BY <1>0 DEF Addresses
  <2> QED BY <2>4, <2>5, <2>6 DEF RandomOK
<1>2. RefCountsOK(am)
  <2>1. ASSUME NEW id \in NewIds(am)
        PROVE  /\ am.mapInfo[id].nRefCount = Cardinality(NewBucketsOf(am, id))
               /\ am.mapInfo[id].nRefCount \in 1 .. NEW_BUCKETS_PER_ADDRESS
    <3>1. id # None
      BY <1>0, AddrAssumption DEF NewIds, AddrTypeOK
    <3>2. /\ am.mapInfo[id].nRefCount = Cardinality(NewBucketsOf(am, id)) + (IF id = None THEN 1 ELSE 0)
          /\ am.mapInfo[id].nRefCount \in 1 .. NEW_BUCKETS_PER_ADDRESS
      BY <1>0 DEF Refs
    <3>3. Cardinality(NewBucketsOf(am, id)) \in Nat
      BY <1>0, FiniteIds, FS_CardinalityType
    <3> QED BY <3>1, <3>2, <3>3
  <2> QED BY <1>0, <2>1 DEF Refs, RefCountsOK
<1>3. TriedOK(am)
  <2>1. ASSUME NEW k \in TriedBuckets PROVE Len(am.vvTried[k]) = Cardinality(ToSet(am.vvTried[k]))
    BY <1>0, DistinctLen DEF Tries
  <2> QED BY <1>0, <2>1 DEF Tries, TriedOK
<1> QED BY <1>0, <1>1, <1>2, <1>3 DEF CheckOK, BucketsBounded

LEMMA EmptyInv ==
    ASSUME AddrInit
    PROVE  AInv(am, None)
<1>0. /\ am.nIdCount = 0 /\ am.mapInfo = [id \in {} |-> None] /\ am.mapAddr = [ip \in {} |-> None]
      /\ am.vRandom = << >> /\ am.vvTried = [k \in TriedBuckets |-> << >>] /\ am.vvNew = [b \in NewBuckets |-> {}]
      /\ am.nTried = 0 /\ am.nNew = 0 /\ Object(am)
  BY DEF AddrInit, Empty, Object
<1>1. DOMAIN am.mapInfo = {} /\ DOMAIN am.mapAddr = {} /\ TriedIds(am) = {} /\ NewIds(am) = {}
  BY <1>0 DEF TriedIds, NewIds
<1>2. << >> \in Seq(Nat) /\ Len(<< >>) = 0 /\ ToSet(<< >>) = {} /\ Distinct(<< >>)
  BY EmptySeq DEF ToSet, Distinct
<1>3. AddrTypeOK(am)
  <2>1. am.mapInfo \in [DOMAIN am.mapInfo -> Info] /\ am.mapAddr \in [DOMAIN am.mapAddr -> Nat]
    BY <1>0, <1>1
  <2>2. am.vRandom \in Seq(Nat) /\ am.vvTried \in [TriedBuckets -> Seq(Nat)]
    BY <1>0, <1>2
  <2> QED BY <1>0, <1>1, <2>1, <2>2 DEF AddrTypeOK
<1>4. Order(am) /\ Addresses(am)
  BY <1>0, <1>1, <1>2 DEF Order, Addresses
<1>5. Refs(am, None)
  BY <1>0, <1>1, FS_EmptySet DEF Refs
<1>6. Tries(am)
  <2>1. \A k \in TriedBuckets : am.vvTried[k] = << >>
    BY <1>0
  <2> QED BY <1>0, <1>1, <1>2, <2>1, FS_EmptySet DEF Tries
<1>7. Bounded(am)
  <2>1. NEW_BUCKET_SIZE \in Nat /\ TRIED_BUCKET_SIZE \in Nat
    BY AddrAssumption
  <2>2. \A b \in NewBuckets : Cardinality(am.vvNew[b]) = 0
    BY <1>0, FS_EmptySet
  <2>3. \A k \in TriedBuckets : Len(am.vvTried[k]) = 0
    BY <1>0, <1>2
  <2> QED BY <2>1, <2>2, <2>3 DEF Bounded
<1> QED BY <1>0, <1>3, <1>4, <1>5, <1>6, <1>7 DEF AInv

-----------------------------------------------------------------------------
(* Sets in ascending order.                                                *)

\* s lists S in ascending order; the last part says how many come before each.
Lists(s, S) ==
    /\ s \in [1 .. Cardinality(S) -> S] /\ s \in Seq(Nat) /\ Len(s) = Cardinality(S)
    /\ \A i, j \in 1 .. Cardinality(S) : i < j => s[i] < s[j]
    /\ \A x \in S : \E p \in 1 .. Cardinality(S) : s[p] = x
    /\ \A p \in 1 .. Cardinality(S) : Cardinality({y \in S : y < s[p]}) = p - 1

LEMMA IntervalCard ==
    ASSUME NEW m \in Nat
    PROVE  /\ IsFiniteSet(1 .. m) /\ Cardinality(1 .. m) = m
           /\ IsFiniteSet(0 .. m - 1) /\ Cardinality(0 .. m - 1) = m
<1>1. 1 \in Int /\ 0 \in Int /\ m \in Int /\ m - 1 \in Int
  OBVIOUS
<1>2. IsFiniteSet(1 .. m) /\ Cardinality(1 .. m) = IF 1 > m THEN 0 ELSE m - 1 + 1
  BY <1>1, FS_Interval
<1>3. IsFiniteSet(0 .. m - 1) /\ Cardinality(0 .. m - 1) = IF 0 > m - 1 THEN 0 ELSE (m - 1) - 0 + 1
  BY <1>1, FS_Interval
<1> QED BY <1>2, <1>3

\* Functions that keep the order, from an interval onto a finite set.
LEMMA IncreasingLists ==
    ASSUME NEW S \in SUBSET Nat, IsFiniteSet(S), NEW s \in [1 .. Cardinality(S) -> S],
           \A i, j \in 1 .. Cardinality(S) : i < j => s[i] < s[j]
    PROVE  Lists(s, S)
<1> DEFINE n == Cardinality(S)
<1>0. n \in Nat /\ IsFiniteSet(1 .. n) /\ Cardinality(1 .. n) = n
  BY FS_CardinalityType, IntervalCard
<1> HIDE DEF n
<1>a. s \in [1 .. n -> S] /\ \A i, j \in 1 .. n : i < j => s[i] < s[j]
  BY DEF n
<1>1. \A i, j \in 1 .. n : s[i] = s[j] => i = j
  <2> SUFFICES ASSUME NEW i \in 1 .. n, NEW j \in 1 .. n, s[i] = s[j] PROVE i = j
    OBVIOUS
  <2>1. s[i] \in Nat /\ s[j] \in Nat
    BY <1>a
  <2>2. i < j \/ j < i \/ i = j
    BY <1>0
  <2> QED BY <1>a, <2>1, <2>2
<1>2. s \in Surjection(1 .. n, S)
  <2>1. s \in Injection(1 .. n, S)
    BY <1>a, <1>1 DEF Injection, IsInjective
  <2> QED BY <1>0, <2>1, FS_Injection DEF n
<1>3. \A x \in S : \E p \in 1 .. n : s[p] = x
  BY <1>2 DEF Surjection
<1>4. s \in Seq(Nat) /\ Len(s) = n
  <2>1. s \in [1 .. n -> Nat]
    BY <1>a
  <2>2. s \in Seq(Nat)
    BY <1>0, <2>1, SeqDef
  <2>3. DOMAIN s = 1 .. Len(s) /\ Len(s) \in Nat /\ DOMAIN s = 1 .. n
    BY <2>1, <2>2, LenProperties
  <2>4. Cardinality(1 .. Len(s)) = Len(s)
    BY <2>3, IntervalCard
  <2> QED BY <1>0, <2>2, <2>3, <2>4
<1>5. ASSUME NEW p \in 1 .. n PROVE Cardinality({y \in S : y < s[p]}) = p - 1
  <2> DEFINE L == {y \in S : y < s[p]}
             f == [i \in 1 .. p - 1 |-> s[i]]
  <2>1. p - 1 \in Nat /\ 1 .. p - 1 \subseteq 1 .. n /\ \A i \in 1 .. p - 1 : i < p
    BY <1>0
  <2>2. f \in [1 .. p - 1 -> L]
    BY <1>a, <2>1
  <2>3. f \in Injection(1 .. p - 1, L)
    BY <1>1, <2>1, <2>2 DEF Injection, IsInjective
  <2>4. ASSUME NEW y \in L PROVE \E i \in 1 .. p - 1 : f[i] = y
    <3>1. PICK i \in 1 .. n : s[i] = y
      BY <1>3
    <3>2. s[p] \in Nat /\ y \in Nat /\ y < s[p]
      BY <1>a
    <3>3. i < p
      <4>1. i < p \/ i = p \/ p < i
        BY <1>0
      <4>2. p < i => s[p] < y
        BY <1>a, <3>1
      <4> QED BY <3>1, <3>2, <4>1, <4>2
    <3>4. i \in 1 .. p - 1
      BY <1>0, <3>3
    <3> QED BY <3>1, <3>4
  <2>5. f \in Surjection(1 .. p - 1, L)
    BY <2>2, <2>4 DEF Surjection
  <2>6. ExistsBijection(1 .. p - 1, L)
    BY <2>3, <2>5 DEF ExistsBijection, Bijection
  <2>7. IsFiniteSet(1 .. p - 1) /\ Cardinality(1 .. p - 1) = p - 1
    BY <2>1, IntervalCard
  <2> HIDE DEF L, f
  <2>8. Cardinality(L) = p - 1
    BY <2>6, <2>7, FS_Bijection
  <2> QED BY <2>8 DEF L
<1> QED BY <1>a, <1>3, <1>4, <1>5 DEF Lists, n

LEMMA AscendingLists ==
    ASSUME NEW S \in SUBSET Nat, IsFiniteSet(S)
    PROVE  Lists(Ascending(S), S)
<1> DEFINE n == Cardinality(S)
           Upto(x) == {y \in S : y <= x}
           rank == [x \in S |-> Cardinality(Upto(x))]
<1>0. n \in Nat /\ IsFiniteSet(1 .. n) /\ Cardinality(1 .. n) = n
  BY FS_CardinalityType, IntervalCard
<1>1. ASSUME NEW x \in S PROVE IsFiniteSet(Upto(x)) /\ rank[x] \in 1 .. n /\ x \in Upto(x)
  <2>1. Upto(x) \in SUBSET S /\ x \in Upto(x)
    OBVIOUS
  <2> HIDE DEF Upto
  <2>2. IsFiniteSet(Upto(x)) /\ Cardinality(Upto(x)) <= n
    BY <2>1, FS_Subset
  <2>3. Cardinality(Upto(x)) \in Nat /\ Cardinality(Upto(x)) # 0
    BY <2>1, <2>2, FS_CardinalityType, FS_EmptySet
  <2>4. rank[x] = Cardinality(Upto(x))
    OBVIOUS
  <2> HIDE DEF rank
  <2>5. rank[x] \in 1 .. n
    <3> HIDE DEF n
    <3> QED BY <1>0, <2>2, <2>3, <2>4
  <2> QED BY <2>1, <2>2, <2>5
<1>2. ASSUME NEW x \in S, NEW y \in S, x < y PROVE rank[x] < rank[y]
  <2>1. Upto(x) \in SUBSET Upto(y) /\ y \in Upto(y) /\ y \notin Upto(x)
    <3>1. \A z \in S : z <= x => z <= y
      BY <1>2
    <3>2. ~(y <= x)
      BY <1>2
    <3>3. y <= y
      OBVIOUS
    <3>4. Upto(x) \in SUBSET Upto(y)
      BY <3>1
    <3> QED BY <3>2, <3>3, <3>4
  <2> HIDE DEF Upto
  <2>2. IsFiniteSet(Upto(x)) /\ IsFiniteSet(Upto(y)) /\ Upto(x) # Upto(y)
    BY <1>1, <2>1
  <2>3. Cardinality(Upto(x)) <= Cardinality(Upto(y)) /\ Cardinality(Upto(x)) # Cardinality(Upto(y))
    BY <2>1, <2>2, FS_Subset
  <2>4. Cardinality(Upto(x)) \in Nat /\ Cardinality(Upto(y)) \in Nat
    BY <2>2, FS_CardinalityType
  <2> QED BY <2>3, <2>4
<1>3. rank \in [S -> 1 .. n]
  BY <1>1
<1> HIDE DEF rank
<1>4. rank \in Surjection(S, 1 .. n)
  <2>1. \A x, y \in S : rank[x] = rank[y] => x = y
    <3> SUFFICES ASSUME NEW x \in S, NEW y \in S, rank[x] = rank[y] PROVE x = y
      OBVIOUS
    <3>1. x < y \/ y < x \/ x = y
      OBVIOUS
    <3>2. rank[x] \in Nat /\ rank[y] \in Nat
      BY <1>3
    <3> QED BY <1>2, <3>1, <3>2
  <2>2. rank \in Injection(S, 1 .. n)
    BY <1>3, <2>1 DEF Injection, IsInjective
  <2> QED BY <1>0, <2>2, FS_Injection
<1> DEFINE s == [p \in 1 .. n |-> CHOOSE x \in S : rank[x] = p]
<1>5. \A p \in 1 .. n : s[p] \in S /\ rank[s[p]] = p
  <2>1. \A p \in 1 .. n : \E x \in S : rank[x] = p
    BY <1>4 DEF Surjection
  <2> QED BY <2>1
<1>6. s \in [1 .. n -> S]
  BY <1>5
<1> HIDE DEF s
<1>7. \A i, j \in 1 .. n : i < j => s[i] < s[j]
  <2> SUFFICES ASSUME NEW i \in 1 .. n, NEW j \in 1 .. n, i < j PROVE s[i] < s[j]
    OBVIOUS
  <2>1. s[i] \in S /\ s[j] \in S /\ rank[s[i]] = i /\ rank[s[j]] = j
    BY <1>5
  <2>2. s[i] \in Nat /\ s[j] \in Nat
    BY <2>1
  <2>3. s[i] < s[j] \/ s[j] < s[i] \/ s[i] = s[j]
    BY <2>2
  <2>4. s[j] < s[i] => j < i
    BY <1>2, <2>1
  <2> QED BY <1>0, <2>1, <2>3, <2>4
<1>8. /\ Ascending(S) \in [1 .. n -> S]
      /\ \A i, j \in 1 .. n : i < j => Ascending(S)[i] < Ascending(S)[j]
  BY <1>6, <1>7 DEF Ascending
<1> QED BY <1>8, IncreasingLists

-----------------------------------------------------------------------------
(* Starting again: the entries get new ids, the new ones first.            *)

Ids(a) == 0 .. a.nNew + a.nTried - 1

\* The id that an entry had before.
OldId(a) ==
    [i \in Ids(a) |-> IF i < a.nNew THEN Ascending(NewIds(a))[i + 1] ELSE Ascending(TriedIds(a))[i - a.nNew + 1]]

Numbering(f, a) ==
    /\ f \in [Ids(a) -> DOMAIN a.mapInfo]
    /\ \A i, j \in Ids(a) : f[i] = f[j] => i = j
    /\ \A i \in Ids(a) : i < a.nNew <=> f[i] \in NewIds(a)
    /\ \A id \in DOMAIN a.mapInfo : \E i \in Ids(a) : f[i] = id

\* Both lists of a.
ListsOf(a) ==
    /\ Lists(Ascending(NewIds(a)), NewIds(a)) /\ a.nNew = Cardinality(NewIds(a)) /\ a.nNew \in Nat
    /\ Lists(Ascending(TriedIds(a)), TriedIds(a)) /\ a.nTried = Cardinality(TriedIds(a)) /\ a.nTried \in Nat

LEMMA BothLists ==
    ASSUME NEW a, AInv(a, None)
    PROVE  ListsOf(a)
<1>0. AddrTypeOK(a) /\ Refs(a, None) /\ Tries(a)
  BY DEF AInv
<1>1. IsFiniteSet(NewIds(a)) /\ IsFiniteSet(TriedIds(a))
  BY <1>0, FiniteIds
<1>2. NewIds(a) \in SUBSET Nat /\ TriedIds(a) \in SUBSET Nat
  BY <1>0 DEF NewIds, TriedIds, AddrTypeOK
<1>3. Lists(Ascending(NewIds(a)), NewIds(a)) /\ Lists(Ascending(TriedIds(a)), TriedIds(a))
  BY <1>1, <1>2, AscendingLists
<1>4. a.nNew = Cardinality(NewIds(a)) /\ a.nTried = Cardinality(TriedIds(a)) /\ a.nNew \in Nat /\ a.nTried \in Nat
  BY <1>0 DEF Refs, Tries, AddrTypeOK
<1> QED BY <1>3, <1>4 DEF ListsOf

\* What a list of the set S is, of which n is the size.
LEMMA ListElements ==
    ASSUME NEW S \in SUBSET Nat, NEW n \in Nat, n = Cardinality(S), NEW s, Lists(s, S)
    PROVE  /\ \A i \in 1 .. n : s[i] \in S
           /\ \A i, j \in 1 .. n : s[i] = s[j] => i = j
           /\ \A x \in S : \E p \in 1 .. n : s[p] = x
<1>1. s \in [1 .. n -> S] /\ \A i, j \in 1 .. n : i < j => s[i] < s[j]
  BY DEF Lists
<1>2. \A x \in S : \E p \in 1 .. n : s[p] = x
  BY DEF Lists
<1>3. ASSUME NEW i \in 1 .. n, NEW j \in 1 .. n, s[i] = s[j] PROVE i = j
  <2>1. s[i] \in Nat /\ s[j] \in Nat
    BY <1>1
  <2>2. i < j \/ j < i \/ i = j
    OBVIOUS
  <2> QED BY <1>1, <1>3, <2>1, <2>2
<1> QED BY <1>1, <1>2, <1>3

LEMMA OldIdNumbers ==
    ASSUME NEW a, AInv(a, None)
    PROVE  Numbering(OldId(a), a)
<1> DEFINE N == NewIds(a)
           T == TriedIds(a)
           n == a.nNew
           t == a.nTried
           sN == Ascending(N)
           sT == Ascending(T)
           f == OldId(a)
<1>0. ListsOf(a)
  BY BothLists
<1>1. /\ N \in SUBSET Nat /\ T \in SUBSET Nat /\ N \cup T = DOMAIN a.mapInfo /\ N \cap T = {}
  BY DEF AInv, AddrTypeOK, NewIds, TriedIds
<1>2. n \in Nat /\ t \in Nat
  BY <1>0 DEF ListsOf
<1>3. /\ \A i \in 1 .. n : sN[i] \in N
      /\ \A i, j \in 1 .. n : sN[i] = sN[j] => i = j
      /\ \A x \in N : \E p \in 1 .. n : sN[p] = x
  BY <1>0, <1>1, ListElements DEF ListsOf
<1>4. /\ \A i \in 1 .. t : sT[i] \in T
      /\ \A i, j \in 1 .. t : sT[i] = sT[j] => i = j
      /\ \A x \in T : \E p \in 1 .. t : sT[p] = x
  BY <1>0, <1>1, ListElements DEF ListsOf
<1>5. \A i \in Ids(a) : f[i] = IF i < n THEN sN[i + 1] ELSE sT[i - n + 1]
  BY DEF OldId
<1>6. \A i \in Ids(a) : IF i < n THEN i + 1 \in 1 .. n ELSE i - n + 1 \in 1 .. t
  BY <1>2 DEF Ids
<1>6a. \A i \in Ids(a) : i \in Nat
  BY <1>2 DEF Ids
<1>6b. DOMAIN f = Ids(a) /\ f = [i \in Ids(a) |-> f[i]]
  BY DEF OldId
<1> HIDE DEF N, T, n, t, sN, sT, f
<1>7. \A i \in Ids(a) : IF i < n THEN f[i] \in N ELSE f[i] \in T
  BY <1>3, <1>4, <1>5, <1>6
<1>8. \A i \in Ids(a) : f[i] \in DOMAIN a.mapInfo /\ (i < n <=> f[i] \in N)
  BY <1>1, <1>7
<1>9. f \in [Ids(a) -> DOMAIN a.mapInfo]
  BY <1>6b, <1>8
<1>10. ASSUME NEW i \in Ids(a), NEW j \in Ids(a), f[i] = f[j] PROVE i = j
  <2>1. i < n <=> j < n
    BY <1>8, <1>10
  <2>2. CASE i < n
    <3>1. i + 1 = j + 1
      BY <1>3, <1>5, <1>6, <1>10, <2>1, <2>2
    <3> QED BY <1>6a, <3>1
  <2>3. CASE ~(i < n)
    <3>1. i - n + 1 = j - n + 1
      BY <1>4, <1>5, <1>6, <1>10, <2>1, <2>3
    <3> QED BY <1>2, <1>6a, <3>1
  <2> QED BY <2>2, <2>3
<1>11. ASSUME NEW id \in DOMAIN a.mapInfo PROVE \E i \in Ids(a) : f[i] = id
  <2>1. CASE id \in N
    <3>1. PICK p \in 1 .. n : sN[p] = id
      BY <1>3, <2>1
    <3>2. p - 1 \in Ids(a) /\ p - 1 < n /\ (p - 1) + 1 = p
      BY <1>2 DEF Ids, n, t
    <3>3. f[p - 1] = sN[(p - 1) + 1]
      BY <1>5, <3>2
    <3> QED BY <3>1, <3>2, <3>3
  <2>2. CASE id \in T
    <3>1. PICK p \in 1 .. t : sT[p] = id
      BY <1>4, <2>2
    <3>2. n + p - 1 \in Ids(a) /\ ~(n + p - 1 < n) /\ (n + p - 1) - n + 1 = p
      BY <1>2 DEF Ids, n, t
    <3>3. f[n + p - 1] = sT[(n + p - 1) - n + 1]
      BY <1>5, <3>2
    <3> QED BY <3>1, <3>2, <3>3
  <2> QED BY <1>1, <2>1, <2>2
<1> QED BY <1>8, <1>9, <1>10, <1>11 DEF Numbering, N, n, f


\* The length of a sequence that is given as a function.
LEMMA FunctionLen ==
    ASSUME NEW m \in Nat, NEW g, DOMAIN g = 1 .. m, g = [i \in 1 .. m |-> g[i]]
    PROVE  Len(g) = m
<1> DEFINE R == {g[i] : i \in 1 .. m}
<1>1. g \in [1 .. m -> R]
  OBVIOUS
<1> HIDE DEF R
<1>2. g \in Seq(R)
  BY <1>1, SeqDef
<1>3. DOMAIN g = 1 .. Len(g) /\ Len(g) \in Nat
  BY <1>2, LenProperties
<1>4. Cardinality(1 .. Len(g)) = Len(g) /\ Cardinality(1 .. m) = m
  BY <1>3, IntervalCard
<1> QED BY <1>3, <1>4

\* peers.dat, with the ids the next start will give out.
Written(file, a, f) ==
    /\ DOMAIN file.vNew = 1 .. a.nNew /\ Len(file.vNew) = a.nNew
    /\ \A i \in 1 .. a.nNew : file.vNew[i] = Stored(a.mapInfo[f[i - 1]])
    /\ DOMAIN file.vTried = 1 .. a.nTried /\ Len(file.vTried) = a.nTried
    /\ \A i \in 1 .. a.nTried : file.vTried[i] = Stored(a.mapInfo[f[a.nNew + i - 1]])
    /\ \A b \in NewBuckets : file.vvNew[b] = {i \in 0 .. a.nNew - 1 : f[i] \in a.vvNew[b]}

\* The entries that Serialize takes for new.
Counts(a) == {id \in DOMAIN a.mapInfo : a.mapInfo[id].nRefCount # 0}

LEMMA CountsNew ==
    ASSUME NEW a, AInv(a, None)
    PROVE  Counts(a) = NewIds(a)
<1>0. AddrTypeOK(a) /\ Refs(a, None) /\ Tries(a) /\ NewIds(a) \cup TriedIds(a) = DOMAIN a.mapInfo
  BY DEF AInv, NewIds, TriedIds
<1>1. \A id \in NewIds(a) : a.mapInfo[id].nRefCount # 0
  <2>1. \A id \in NewIds(a) : a.mapInfo[id].nRefCount \in 1 .. NEW_BUCKETS_PER_ADDRESS
    BY <1>0 DEF Refs
  <2> QED BY <2>1, AddrAssumption
<1>2. \A id \in TriedIds(a) : a.mapInfo[id].nRefCount = 0
  BY <1>0 DEF Tries
<1> QED BY <1>0, <1>1, <1>2 DEF Counts

\* The place of an entry in the first list.
Index(a, news, id) ==
    LET n == Cardinality({i \in news : i < id}) IN IF n < a.nNew THEN n ELSE 0

LEMMA IndexOfNew ==
    ASSUME NEW a, AInv(a, None), NEW p \in 1 .. a.nNew
    PROVE  Index(a, NewIds(a), Ascending(NewIds(a))[p]) = p - 1
<1>1. ListsOf(a)
  BY BothLists
<1>2. a.nNew \in Nat /\ a.nNew = Cardinality(NewIds(a)) /\ Lists(Ascending(NewIds(a)), NewIds(a))
  BY <1>1 DEF ListsOf
<1>3. Cardinality({y \in NewIds(a) : y < Ascending(NewIds(a))[p]}) = p - 1
  BY <1>2 DEF Lists
<1>4. p - 1 < a.nNew
  BY <1>2
<1> QED BY <1>3, <1>4 DEF Index

LEMMA SerializeWrites ==
    ASSUME NEW a, AInv(a, None), NEW file, file = Serialize(a)
    PROVE  Written(file, a, OldId(a))
<1> DEFINE n == a.nNew
           t == a.nTried
           sN == Ascending(NewIds(a))
           sT == Ascending(TriedIds(a))
           f == OldId(a)
<1>0. ListsOf(a)
  BY BothLists
<1>1. n \in Nat /\ t \in Nat /\ Len(sN) = n /\ Len(sT) = t
  BY <1>0 DEF ListsOf, Lists
<1>2. Min({n, Len(sN)}) = n /\ Min({t, Len(sT)}) = t
  BY <1>1, MinOfTwo
<1>3. Counts(a) = NewIds(a)
  BY CountsNew
<1>4. /\ file.vNew = [i \in 1 .. Min({n, Len(Ascending(Counts(a)))}) |-> Stored(a.mapInfo[Ascending(Counts(a))[i]])]
      /\ file.vTried = [i \in 1 .. Min({t, Len(sT)}) |-> Stored(a.mapInfo[sT[i]])]
      /\ file.vvNew = [b \in NewBuckets |-> {Index(a, Counts(a), id) : id \in a.vvNew[b]}]
  BY DEF Serialize, Counts, Index
<1>5. /\ file.vNew = [i \in 1 .. n |-> Stored(a.mapInfo[sN[i]])]
      /\ file.vTried = [i \in 1 .. t |-> Stored(a.mapInfo[sT[i]])]
      /\ file.vvNew = [b \in NewBuckets |-> {Index(a, NewIds(a), id) : id \in a.vvNew[b]}]
  BY <1>2, <1>3, <1>4
<1>6. \A i \in 1 .. n : i - 1 \in 0 .. n - 1 /\ f[i - 1] = sN[i]
  <2>1. ASSUME NEW i \in 1 .. n PROVE i - 1 \in 0 .. n - 1 /\ f[i - 1] = sN[i]
    <3>1. i - 1 \in Ids(a) /\ i - 1 < n /\ (i - 1) + 1 = i /\ i - 1 \in 0 .. n - 1
      BY <1>1 DEF Ids
    <3> QED BY <3>1 DEF OldId
  <2> QED BY <2>1
<1>7. \A i \in 1 .. t : f[n + i - 1] = sT[i]
  <2>1. ASSUME NEW i \in 1 .. t PROVE f[n + i - 1] = sT[i]
    <3>1. n + i - 1 \in Ids(a) /\ ~(n + i - 1 < n) /\ (n + i - 1) - n + 1 = i
      BY <1>1 DEF Ids
    <3> QED BY <3>1 DEF OldId
  <2> QED BY <2>1
<1>8. ASSUME NEW b \in NewBuckets PROVE file.vvNew[b] = {i \in 0 .. n - 1 : f[i] \in a.vvNew[b]}
  <2>1. file.vvNew[b] = {Index(a, NewIds(a), id) : id \in a.vvNew[b]}
    BY <1>5
  <2>2. a.vvNew[b] \subseteq NewIds(a)
    BY DEF AInv, Refs
  <2>3. \A id \in NewIds(a) : \E p \in 1 .. n : sN[p] = id
    BY <1>0 DEF ListsOf, Lists
  <2>4. \A p \in 1 .. n : Index(a, NewIds(a), sN[p]) = p - 1
    BY IndexOfNew
  <2>5. \A i \in 0 .. n - 1 : i + 1 \in 1 .. n /\ (i + 1) - 1 = i
    BY <1>1
  <2> HIDE DEF n, sN, f
  <2>6. ASSUME NEW id \in a.vvNew[b]
        PROVE  Index(a, NewIds(a), id) \in {i \in 0 .. n - 1 : f[i] \in a.vvNew[b]}
    <3>1. PICK p \in 1 .. n : sN[p] = id
      BY <2>2, <2>3
    <3>2. Index(a, NewIds(a), id) = p - 1
      BY <2>4, <3>1
    <3> QED BY <1>6, <3>1, <3>2
  <2>7. ASSUME NEW i \in 0 .. n - 1, f[i] \in a.vvNew[b]
        PROVE  i \in {Index(a, NewIds(a), id) : id \in a.vvNew[b]}
    <3>1. f[i] = sN[i + 1]
      BY <1>6, <2>5
    <3>2. Index(a, NewIds(a), f[i]) = i
      BY <2>4, <2>5, <3>1
    <3> QED BY <2>7, <3>2
  <2> QED BY <2>1, <2>6, <2>7
<1>9. Len(file.vNew) = n /\ Len(file.vTried) = t /\ DOMAIN file.vNew = 1 .. n /\ DOMAIN file.vTried = 1 .. t
  <2>1. DOMAIN file.vNew = 1 .. n /\ file.vNew = [i \in 1 .. n |-> file.vNew[i]]
    BY <1>5
  <2>2. DOMAIN file.vTried = 1 .. t /\ file.vTried = [i \in 1 .. t |-> file.vTried[i]]
    BY <1>5
  <2>3. Len(file.vNew) = n
    BY <1>1, <2>1, FunctionLen
  <2>4. Len(file.vTried) = t
    BY <1>1, <2>2, FunctionLen
  <2> QED BY <2>1, <2>2, <2>3, <2>4
<1>10. \A i \in 1 .. n : file.vNew[i] = Stored(a.mapInfo[f[i - 1]])
  BY <1>5, <1>6
<1>11. \A i \in 1 .. t : file.vTried[i] = Stored(a.mapInfo[f[n + i - 1]])
  BY <1>5, <1>7
<1> QED BY <1>8, <1>9, <1>10, <1>11 DEF Written


-----------------------------------------------------------------------------
(* Nothing in the file is given up by the next start.                      *)

TriedBucketIn(file, n) == GetTriedBucket[file.vTried[n].addr]

EarlierIn(file, n) == {m \in DOMAIN file.vTried : m < n /\ TriedBucketIn(file, m) = TriedBucketIn(file, n)}

KeptTried(file) == {n \in DOMAIN file.vTried : Cardinality(EarlierIn(file, n)) < TRIED_BUCKET_SIZE}

LEMMA NumberedTried ==
    ASSUME NEW a, AInv(a, None), NEW f, Numbering(f, a), NEW file, Written(file, a, f), NEW m \in 1 .. a.nTried
    PROVE  /\ a.nNew + m - 1 \in Ids(a) /\ f[a.nNew + m - 1] \in TriedIds(a)
           /\ TriedBucketIn(file, m) = GetTriedBucket[a.mapInfo[f[a.nNew + m - 1]].addr]
<1>0. a.nNew \in Nat /\ a.nTried \in Nat
  BY DEF AInv, AddrTypeOK
<1>1. a.nNew + m - 1 \in Ids(a) /\ ~(a.nNew + m - 1 < a.nNew)
  BY <1>0 DEF Ids
<1>2. f[a.nNew + m - 1] \in DOMAIN a.mapInfo /\ f[a.nNew + m - 1] \notin NewIds(a)
  BY <1>1 DEF Numbering
<1>3. f[a.nNew + m - 1] \in TriedIds(a)
  BY <1>2 DEF NewIds
<1>4. file.vTried[m] = Stored(a.mapInfo[f[a.nNew + m - 1]])
  BY DEF Written
<1>5. TriedBucketIn(file, m) = GetTriedBucket[a.mapInfo[f[a.nNew + m - 1]].addr]
  BY <1>4 DEF Stored, TriedBucketIn
<1> QED BY <1>1, <1>3, <1>5

LEMMA AllTriedKept ==
    ASSUME NEW a, AInv(a, None), NEW f, Numbering(f, a), NEW file, Written(file, a, f)
    PROVE  KeptTried(file) = 1 .. a.nTried
<1>0. DOMAIN file.vTried = 1 .. a.nTried
  BY DEF Written
<1>1. a.nNew \in Nat /\ a.nTried \in Nat /\ IsFiniteSet(1 .. a.nTried) /\ TRIED_BUCKET_SIZE \in Nat
  <2>1. a.nNew \in Nat /\ a.nTried \in Nat
    BY DEF AInv, AddrTypeOK
  <2> QED BY <2>1, IntervalCard, AddrAssumption
<1>2. ASSUME NEW n \in 1 .. a.nTried PROVE Cardinality(EarlierIn(file, n)) < TRIED_BUCKET_SIZE
  <2> DEFINE B == EarlierIn(file, n)
             k == TriedBucketIn(file, n)
             g == [m \in B \cup {n} |-> f[a.nNew + m - 1]]
  <2>1. B \in SUBSET (1 .. a.nTried) /\ n \notin B /\ \A m \in B : TriedBucketIn(file, m) = k
    BY <1>0 DEF EarlierIn
  <2> HIDE DEF B
  <2>2. IsFiniteSet(B) /\ Cardinality(B) \in Nat
    BY <1>1, <2>1, FS_Subset, FS_CardinalityType
  <2>3. IsFiniteSet(B \cup {n}) /\ Cardinality(B \cup {n}) = Cardinality(B) + 1
    BY <2>1, <2>2, FS_AddElement
  <2>4. \A m \in B \cup {n} : m \in 1 .. a.nTried /\ TriedBucketIn(file, m) = k
    BY <2>1
  <2>5. \A m \in B \cup {n} : /\ a.nNew + m - 1 \in Ids(a) /\ f[a.nNew + m - 1] \in TriedIds(a)
                              /\ GetTriedBucket[a.mapInfo[f[a.nNew + m - 1]].addr] = k
    BY <2>4, NumberedTried
  <2>6. k \in TriedBuckets
    <3>1. n \in B \cup {n}
      OBVIOUS
    <3>2. f[a.nNew + n - 1] \in DOMAIN a.mapInfo
      BY <2>5, <3>1 DEF TriedIds
    <3>3. a.mapInfo[f[a.nNew + n - 1]].addr \in Services
      BY <3>2 DEF AInv, AddrTypeOK, Info
    <3> QED BY <2>5, <3>1, <3>3, AddrAssumption
  <2>7. /\ ToSet(a.vvTried[k]) = {id \in TriedIds(a) : GetTriedBucket[a.mapInfo[id].addr] = k}
        /\ Distinct(a.vvTried[k]) /\ a.vvTried[k] \in Seq(Nat) /\ Len(a.vvTried[k]) <= TRIED_BUCKET_SIZE
    BY <2>6 DEF AInv, Tries, AddrTypeOK, Bounded
  <2>8. IsFiniteSet(ToSet(a.vvTried[k])) /\ Len(a.vvTried[k]) = Cardinality(ToSet(a.vvTried[k]))
    BY <2>7, DistinctLen
  <2>9. g \in [B \cup {n} -> ToSet(a.vvTried[k])]
    BY <2>5, <2>7
  <2>10. \A m, o \in B \cup {n} : g[m] = g[o] => m = o
    <3> SUFFICES ASSUME NEW m \in B \cup {n}, NEW o \in B \cup {n}, g[m] = g[o] PROVE m = o
      OBVIOUS
    <3>1. f[a.nNew + m - 1] = f[a.nNew + o - 1]
      OBVIOUS
    <3>2. a.nNew + m - 1 = a.nNew + o - 1
      BY <2>5, <3>1 DEF Numbering
    <3>3. m \in Nat /\ o \in Nat
      BY <1>1, <2>4
    <3> QED BY <1>1, <3>2, <3>3
  <2> HIDE DEF g, k
  <2>11. g \in Injection(B \cup {n}, ToSet(a.vvTried[k]))
    BY <2>9, <2>10 DEF Injection, IsInjective
  <2>12. Cardinality(B \cup {n}) <= Cardinality(ToSet(a.vvTried[k]))
    BY <2>8, <2>11, FS_Injection
  <2>13. Len(a.vvTried[k]) \in Nat
    BY <2>7, LenProperties
  <2>14. Cardinality(B) < TRIED_BUCKET_SIZE
    BY <1>1, <2>2, <2>3, <2>7, <2>8, <2>12, <2>13
  <2> QED BY <2>14 DEF B
<1> QED BY <1>0, <1>2 DEF KeptTried

\* An interval is in ascending order.
LEMMA AscendingInterval ==
    ASSUME NEW t \in Nat
    PROVE  /\ Len(Ascending(1 .. t)) = t
           /\ \A p \in 1 .. t : Ascending(1 .. t)[p] = p
<1> DEFINE s == Ascending(1 .. t)
<1>1. IsFiniteSet(1 .. t) /\ Cardinality(1 .. t) = t /\ 1 .. t \in SUBSET Nat
  BY IntervalCard
<1>2. Lists(s, 1 .. t)
  BY <1>1, AscendingLists
<1> HIDE DEF s
<1>3. Len(s) = t /\ s \in [1 .. t -> 1 .. t]
  BY <1>1, <1>2 DEF Lists
<1>4. ASSUME NEW p \in 1 .. t PROVE s[p] = p
  <2>1. Cardinality({y \in 1 .. t : y < s[p]}) = p - 1
    BY <1>1, <1>2 DEF Lists
  <2>2. s[p] \in 1 .. t
    BY <1>3
  <2>3. {y \in 1 .. t : y < s[p]} = 1 .. s[p] - 1
    BY <2>2
  <2>4. s[p] - 1 \in Nat
    BY <2>2
  <2>5. Cardinality(1 .. s[p] - 1) = s[p] - 1
    BY <2>4, IntervalCard
  <2>6. s[p] - 1 = p - 1
    BY <2>1, <2>3, <2>5
  <2> QED BY <2>2, <2>6
<1> QED BY <1>3, <1>4 DEF s

EntersIn(file, id, b) ==
    id \in file.vvNew[b] /\ Cardinality({c \in 0 .. b - 1 : id \in file.vvNew[c]}) < NEW_BUCKETS_PER_ADDRESS

\* No entry is in more new buckets than it may be, so all its buckets are read.
LEMMA AllBucketsKept ==
    ASSUME NEW a, AInv(a, None), NEW f, Numbering(f, a), NEW file, Written(file, a, f),
           NEW i \in Ids(a), NEW b \in NewBuckets
    PROVE  EntersIn(file, i, b) <=> f[i] \in a.vvNew[b]
<1>0. a.nNew \in Nat /\ a.nTried \in Nat /\ Refs(a, None)
  BY DEF AInv, AddrTypeOK
<1>1. \A c \in NewBuckets : file.vvNew[c] = {j \in 0 .. a.nNew - 1 : f[j] \in a.vvNew[c]}
  BY DEF Written
<1>2. f[i] \in NewIds(a) <=> i \in 0 .. a.nNew - 1
  <2>1. i < a.nNew <=> f[i] \in NewIds(a)
    BY DEF Numbering
  <2>2. i < a.nNew <=> i \in 0 .. a.nNew - 1
    BY <1>0 DEF Ids
  <2> QED BY <2>1, <2>2
<1>3. \A c \in NewBuckets : i \in file.vvNew[c] <=> f[i] \in a.vvNew[c]
  <2>1. \A c \in NewBuckets : a.vvNew[c] \subseteq NewIds(a)
    BY <1>0 DEF Refs
  <2> QED BY <1>1, <1>2, <2>1
<1>4. ASSUME f[i] \in a.vvNew[b]
      PROVE  Cardinality({c \in 0 .. b - 1 : i \in file.vvNew[c]}) < NEW_BUCKETS_PER_ADDRESS
  <2> DEFINE E == {c \in 0 .. b - 1 : i \in file.vvNew[c]}
             O == NewBucketsOf(a, f[i])
  <2>1. f[i] \in NewIds(a)
    BY <1>0, <1>4 DEF Refs
  <2>2. /\ a.mapInfo[f[i]].nRefCount = Cardinality(O) + (IF f[i] = None THEN 1 ELSE 0)
        /\ a.mapInfo[f[i]].nRefCount \in 1 .. NEW_BUCKETS_PER_ADDRESS
    BY <1>0, <2>1 DEF Refs
  <2>3. f[i] # None
    BY <2>1, AddrAssumption DEF AInv, AddrTypeOK, NewIds
  <2>4. IsFiniteSet(O) /\ Cardinality(O) \in Nat
    BY FiniteIds, FS_CardinalityType DEF AInv
  <2>5. \A c \in 0 .. b - 1 : c \in NewBuckets /\ c # b
    BY AddrAssumption DEF NewBuckets
  <2>6. E \in SUBSET (O \ {b}) /\ b \in O
    BY <1>3, <1>4, <2>5 DEF NewBucketsOf
  <2> HIDE DEF E, O
  <2>7. IsFiniteSet(O \ {b}) /\ Cardinality(O \ {b}) = Cardinality(O) - 1
    BY <2>4, <2>6, FS_RemoveElement
  <2>8. IsFiniteSet(E) /\ Cardinality(E) <= Cardinality(O \ {b}) /\ Cardinality(E) \in Nat
    BY <2>6, <2>7, FS_Subset, FS_CardinalityType
  <2>9. Cardinality(O) <= NEW_BUCKETS_PER_ADDRESS /\ NEW_BUCKETS_PER_ADDRESS \in Nat
    BY <2>2, <2>3, <2>4, AddrAssumption
  <2>10. Cardinality(E) < NEW_BUCKETS_PER_ADDRESS
    BY <2>4, <2>7, <2>8, <2>9
  <2> QED BY <2>10 DEF E
<1> QED BY <1>3, <1>4 DEF EntersIn


-----------------------------------------------------------------------------
(* What is read.                                                           *)

ItemIn(file, tried, id) ==
    IF id < Len(file.vNew) THEN file.vNew[id + 1] ELSE file.vTried[tried[id - Len(file.vNew) + 1]]

\* The fields of the object that is read, with the tried entries it keeps.
ReadFrom(r, file, tried, m) ==
    /\ Object(r)
    /\ r.nIdCount = m /\ r.nTried = Len(tried) /\ r.nNew = Len(file.vNew)
    /\ r.mapInfo = [id \in 0 .. m - 1 |->
          [addr |-> ItemIn(file, tried, id).addr, source |-> ItemIn(file, tried, id).source,
           nLastSuccess |-> ItemIn(file, tried, id).nLastSuccess,
           nRefCount |-> Cardinality({b \in NewBuckets : EntersIn(file, id, b)}),
           fInTried |-> id >= Len(file.vNew), nRandomPos |-> id + 1]]
    /\ r.mapAddr = [ip \in {IP[ItemIn(file, tried, id).addr] : id \in 0 .. m - 1} |->
          Max({id \in 0 .. m - 1 : IP[ItemIn(file, tried, id).addr] = ip})]
    /\ r.vRandom = [p \in 1 .. m |-> p - 1]
    /\ r.vvTried = [k \in TriedBuckets |->
          Ascending({id \in Len(file.vNew) .. m - 1 : GetTriedBucket[ItemIn(file, tried, id).addr] = k})]
    /\ r.vvNew = [b \in NewBuckets |-> {id \in 0 .. m - 1 : EntersIn(file, id, b)}]

LEMMA UnserializeReads ==
    ASSUME NEW file, NEW r, r = Unserialize(file)
    PROVE  ReadFrom(r, file, Ascending(KeptTried(file)), Len(file.vNew) + Len(Ascending(KeptTried(file))))
<1>1. Object(r)
  BY DEF Unserialize, Object
<1>2. /\ r.nIdCount = Len(file.vNew) + Len(Ascending(KeptTried(file)))
      /\ r.nTried = Len(Ascending(KeptTried(file))) /\ r.nNew = Len(file.vNew)
  BY DEF Unserialize, KeptTried, EarlierIn, TriedBucketIn
<1> DEFINE tried == Ascending(KeptTried(file))
           m == Len(file.vNew) + Len(tried)
<1>3. r.mapInfo = [id \in 0 .. m - 1 |->
          [addr |-> ItemIn(file, tried, id).addr, source |-> ItemIn(file, tried, id).source,
           nLastSuccess |-> ItemIn(file, tried, id).nLastSuccess,
           nRefCount |-> Cardinality({b \in NewBuckets : EntersIn(file, id, b)}),
           fInTried |-> id >= Len(file.vNew), nRandomPos |-> id + 1]]
  BY DEF Unserialize, KeptTried, EarlierIn, TriedBucketIn, ItemIn, EntersIn
<1>4. r.mapAddr = [ip \in {IP[ItemIn(file, tried, id).addr] : id \in 0 .. m - 1} |->
          Max({id \in 0 .. m - 1 : IP[ItemIn(file, tried, id).addr] = ip})]
  BY DEF Unserialize, KeptTried, EarlierIn, TriedBucketIn, ItemIn
<1>5. r.vRandom = [p \in 1 .. m |-> p - 1]
  BY DEF Unserialize, KeptTried, EarlierIn, TriedBucketIn
<1>6. r.vvTried = [k \in TriedBuckets |->
          Ascending({id \in Len(file.vNew) .. m - 1 : GetTriedBucket[ItemIn(file, tried, id).addr] = k})]
  BY DEF Unserialize, KeptTried, EarlierIn, TriedBucketIn, ItemIn
<1>7. r.vvNew = [b \in NewBuckets |-> {id \in 0 .. m - 1 : EntersIn(file, id, b)}]
  BY DEF Unserialize, KeptTried, EarlierIn, TriedBucketIn, ItemIn, EntersIn
<1> QED BY <1>1, <1>2, <1>3, <1>4, <1>5, <1>6, <1>7 DEF ReadFrom


\* r has the entries of a under new ids, in the same buckets.
Renewed(r, a, f, i) ==
    /\ r.mapInfo[i].addr = a.mapInfo[f[i]].addr /\ r.mapInfo[i].source = a.mapInfo[f[i]].source
    /\ r.mapInfo[i].nLastSuccess = a.mapInfo[f[i]].nLastSuccess
    /\ r.mapInfo[i].nRefCount = Cardinality(NewBucketsOf(a, f[i]))
    /\ r.mapInfo[i].fInTried = (i >= a.nNew) /\ r.mapInfo[i].nRandomPos = i + 1

BucketMembers(a, f, k) == {i \in Ids(a) : i >= a.nNew /\ GetTriedBucket[a.mapInfo[f[i]].addr] = k}

Renumbered(r, a, f) ==
    /\ Object(r) /\ r.nIdCount = a.nNew + a.nTried /\ r.nTried = a.nTried /\ r.nNew = a.nNew
    /\ r.mapInfo \in [Ids(a) -> Info]
    /\ \A i \in Ids(a) : Renewed(r, a, f, i)
    /\ r.mapAddr \in [DOMAIN r.mapAddr -> Nat]
    /\ DOMAIN r.mapAddr = {IP[a.mapInfo[f[i]].addr] : i \in Ids(a)}
    /\ \A i \in Ids(a) : r.mapAddr[IP[a.mapInfo[f[i]].addr]] = i
    /\ r.vRandom = [p \in 1 .. a.nNew + a.nTried |-> p - 1]
    /\ r.vvTried \in [TriedBuckets -> Seq(Nat)]
    /\ \A k \in TriedBuckets : Lists(r.vvTried[k], BucketMembers(a, f, k))
    /\ r.vvNew \in [NewBuckets -> SUBSET Nat]
    /\ \A b \in NewBuckets : r.vvNew[b] = {i \in Ids(a) : f[i] \in a.vvNew[b]}

LEMMA MaxOfOne ==
    ASSUME NEW x \in Nat
    PROVE  Max({x}) = x
BY DEF Max

LEMMA ItemsRead ==
    ASSUME NEW a, AInv(a, None), NEW f, Numbering(f, a), NEW file, Written(file, a, f), NEW i \in Ids(a)
    PROVE  ItemIn(file, Ascending(1 .. a.nTried), i) = Stored(a.mapInfo[f[i]])
<1> DEFINE tried == Ascending(1 .. a.nTried)
<1>0. a.nNew \in Nat /\ a.nTried \in Nat
  BY DEF AInv, AddrTypeOK
<1>1. \A p \in 1 .. a.nTried : tried[p] = p
  BY <1>0, AscendingInterval
<1>2. /\ \A j \in 1 .. a.nNew : file.vNew[j] = Stored(a.mapInfo[f[j - 1]])
      /\ \A j \in 1 .. a.nTried : file.vTried[j] = Stored(a.mapInfo[f[a.nNew + j - 1]])
      /\ Len(file.vNew) = a.nNew
  BY DEF Written
<1> HIDE DEF tried
<1>3. CASE i < a.nNew
  <2>1. i + 1 \in 1 .. a.nNew /\ (i + 1) - 1 = i
    BY <1>0, <1>3 DEF Ids
  <2>2. file.vNew[i + 1] = Stored(a.mapInfo[f[i]])
    BY <1>2, <2>1
  <2>3. ItemIn(file, tried, i) = file.vNew[i + 1]
    BY <1>2, <1>3 DEF ItemIn
  <2> QED BY <2>2, <2>3 DEF tried
<1>4. CASE ~(i < a.nNew)
  <2>1. i - a.nNew + 1 \in 1 .. a.nTried /\ a.nNew + (i - a.nNew + 1) - 1 = i
    BY <1>0, <1>4 DEF Ids
  <2>2. file.vTried[i - a.nNew + 1] = Stored(a.mapInfo[f[i]])
    BY <1>2, <2>1
  <2>3. ItemIn(file, tried, i) = file.vTried[i - a.nNew + 1]
    BY <1>1, <1>2, <1>4, <2>1 DEF ItemIn
  <2> QED BY <2>2, <2>3 DEF tried
<1> QED BY <1>3, <1>4

LEMMA ReadRenumbered ==
    ASSUME NEW a, AInv(a, None), NEW f, Numbering(f, a), NEW file, Written(file, a, f),
           NEW r, r = Unserialize(file)
    PROVE  Renumbered(r, a, f)
<1> DEFINE n == a.nNew
           t == a.nTried
           m == n + t
           tried == Ascending(1 .. t)
           Item(i) == ItemIn(file, tried, i)
           Addr(i) == a.mapInfo[f[i]].addr
<1>0. n \in Nat /\ t \in Nat /\ Len(file.vNew) = n /\ Ids(a) = 0 .. m - 1
  <2>1. n \in Nat /\ t \in Nat
    BY DEF AInv, AddrTypeOK
  <2>2. Len(file.vNew) = n
    BY DEF Written
  <2>3. a.nNew + a.nTried - 1 = m - 1
    BY <2>1
  <2>4. Ids(a) = 0 .. m - 1
    BY <2>3 DEF Ids
  <2> QED BY <2>1, <2>2, <2>4
<1>1. KeptTried(file) = 1 .. t /\ Len(tried) = t
  BY <1>0, AllTriedKept, AscendingInterval
<1>2. ReadFrom(r, file, tried, m)
  <2>1. ReadFrom(r, file, Ascending(KeptTried(file)), Len(file.vNew) + Len(Ascending(KeptTried(file))))
    BY UnserializeReads
  <2> QED BY <1>0, <1>1, <2>1
<1>3. \A i \in Ids(a) : Item(i) = Stored(a.mapInfo[f[i]])
  BY ItemsRead
<1>4. \A i \in Ids(a) : /\ Item(i).addr = Addr(i) /\ Item(i).source = a.mapInfo[f[i]].source
                        /\ Item(i).nLastSuccess = a.mapInfo[f[i]].nLastSuccess
  <2>1. \A info : /\ Stored(info).addr = info.addr /\ Stored(info).source = info.source
                  /\ Stored(info).nLastSuccess = info.nLastSuccess
    BY DEF Stored
  <2> HIDE DEF Item
  <2> QED BY <1>3, <2>1
<1>5. \A i \in Ids(a) : {b \in NewBuckets : EntersIn(file, i, b)} = NewBucketsOf(a, f[i])
  BY AllBucketsKept DEF NewBucketsOf
<1> HIDE DEF tried, Item
<1>6. \A i \in Ids(a) : f[i] \in DOMAIN a.mapInfo /\ a.mapInfo[f[i]] \in Info
  BY DEF AInv, AddrTypeOK, Numbering
<1>7. /\ DOMAIN r.mapInfo = Ids(a)
      /\ \A i \in Ids(a) : r.mapInfo[i] =
          [addr |-> Item(i).addr, source |-> Item(i).source, nLastSuccess |-> Item(i).nLastSuccess,
           nRefCount |-> Cardinality({b \in NewBuckets : EntersIn(file, i, b)}),
           fInTried |-> i >= n, nRandomPos |-> i + 1]
      /\ r.mapInfo = [i \in Ids(a) |-> r.mapInfo[i]]
  BY <1>0, <1>2 DEF ReadFrom, Item
<1>8. \A i \in Ids(a) : r.mapInfo[i] =
          [addr |-> Addr(i), source |-> a.mapInfo[f[i]].source, nLastSuccess |-> a.mapInfo[f[i]].nLastSuccess,
           nRefCount |-> Cardinality(NewBucketsOf(a, f[i])), fInTried |-> i >= n, nRandomPos |-> i + 1]
  BY <1>4, <1>5, <1>7
<1>9. \A i \in Ids(a) : Renewed(r, a, f, i)
  <2>1. ASSUME NEW i \in Ids(a) PROVE Renewed(r, a, f, i)
    <3>1. PICK info : info = r.mapInfo[i]
      OBVIOUS
    <3>2. PICK old : old = a.mapInfo[f[i]]
      OBVIOUS
    <3>3. PICK c : c = Cardinality(NewBucketsOf(a, f[i]))
      OBVIOUS
    <3>4. info = [addr |-> old.addr, source |-> old.source, nLastSuccess |-> old.nLastSuccess,
                  nRefCount |-> c, fInTried |-> i >= n, nRandomPos |-> i + 1]
      BY <1>8, <3>1, <3>2, <3>3
    <3>5. /\ info.addr = old.addr /\ info.source = old.source /\ info.nLastSuccess = old.nLastSuccess
          /\ info.nRefCount = c /\ info.fInTried = (i >= n) /\ info.nRandomPos = i + 1
      BY <3>4
    <3> QED BY <3>1, <3>2, <3>3, <3>5 DEF Renewed
  <2> QED BY <2>1
<1>10. r.mapInfo \in [Ids(a) -> Info]
  <2>1. ASSUME NEW i \in Ids(a) PROVE r.mapInfo[i] \in Info
    <3>1. Cardinality(NewBucketsOf(a, f[i])) \in Int
      BY FiniteIds, FS_CardinalityType DEF AInv
    <3>2. i + 1 \in Nat /\ (i >= n) \in BOOLEAN
      BY <1>0
    <3>3. /\ Addr(i) \in Services /\ a.mapInfo[f[i]].source \in Sources
          /\ a.mapInfo[f[i]].nLastSuccess \in 0 .. MaxTime
      BY <1>6 DEF Info
    <3>4. PICK old : old = a.mapInfo[f[i]]
      OBVIOUS
    <3>5. PICK c : c = Cardinality(NewBucketsOf(a, f[i]))
      OBVIOUS
    <3>6. r.mapInfo[i] = [addr |-> old.addr, source |-> old.source, nLastSuccess |-> old.nLastSuccess,
                          nRefCount |-> c, fInTried |-> i >= n, nRandomPos |-> i + 1]
      BY <1>8, <3>4, <3>5
    <3>7. /\ old.addr \in Services /\ old.source \in Sources /\ old.nLastSuccess \in 0 .. MaxTime /\ c \in Int
      BY <3>1, <3>3, <3>4, <3>5
    <3>8. PICK info : info = r.mapInfo[i]
      OBVIOUS
    <3>9. PICK pos, late : pos = i + 1 /\ late = (i >= n)
      OBVIOUS
    <3>10. info = [addr |-> old.addr, source |-> old.source, nLastSuccess |-> old.nLastSuccess,
                   nRefCount |-> c, fInTried |-> late, nRandomPos |-> pos]
      BY <3>6, <3>8, <3>9
    <3>11. pos \in Nat /\ late \in BOOLEAN
      BY <3>2, <3>9
    <3>12. info \in Info
      BY <3>7, <3>10, <3>11 DEF Info
    <3> QED BY <3>8, <3>12
  <2> QED BY <1>7, <2>1
<1>11. \A i, j \in Ids(a) : IP[Addr(i)] = IP[Addr(j)] => i = j
  <2>1. \A i, j \in Ids(a) : IP[Addr(i)] = IP[Addr(j)] => f[i] = f[j]
    BY <1>6 DEF AInv, Addresses
  <2> QED BY <2>1 DEF Numbering
<1>12. r.mapAddr = [ip \in {IP[Addr(i)] : i \in Ids(a)} |-> Max({i \in Ids(a) : IP[Addr(i)] = ip})]
  <2>1. r.mapAddr = [ip \in {IP[Item(i).addr] : i \in Ids(a)} |-> Max({i \in Ids(a) : IP[Item(i).addr] = ip})]
    BY <1>0, <1>2 DEF ReadFrom, Item
  <2>2. {IP[Item(i).addr] : i \in Ids(a)} = {IP[Addr(i)] : i \in Ids(a)}
    BY <1>4
  <2>3. \A ip : {i \in Ids(a) : IP[Item(i).addr] = ip} = {i \in Ids(a) : IP[Addr(i)] = ip}
    BY <1>4
  <2> QED BY <2>1, <2>2, <2>3
<1>13. ASSUME NEW i \in Ids(a) PROVE r.mapAddr[IP[Addr(i)]] = i
  <2>1. {j \in Ids(a) : IP[Addr(j)] = IP[Addr(i)]} = {i}
    BY <1>11
  <2>2. r.mapAddr[IP[Addr(i)]] = Max({i})
    BY <1>12, <2>1
  <2>3. i \in Nat
    BY <1>0
  <2> QED BY <2>2, <2>3, MaxOfOne
<1>14. /\ DOMAIN r.mapAddr = {IP[Addr(i)] : i \in Ids(a)}
       /\ r.mapAddr \in [DOMAIN r.mapAddr -> Nat]
  <2>1. DOMAIN r.mapAddr = {IP[Addr(i)] : i \in Ids(a)} /\ r.mapAddr = [ip \in DOMAIN r.mapAddr |-> r.mapAddr[ip]]
    BY <1>12
  <2>2. ASSUME NEW ip \in DOMAIN r.mapAddr PROVE r.mapAddr[ip] \in Nat
    <3>1. PICK i \in Ids(a) : ip = IP[Addr(i)]
      BY <2>1
    <3>2. i \in Nat
      BY <1>0
    <3> QED BY <1>13, <3>1, <3>2
  <2> QED BY <2>1, <2>2
<1>15. ASSUME NEW k \in TriedBuckets
       PROVE  Lists(r.vvTried[k], BucketMembers(a, f, k)) /\ r.vvTried[k] \in Seq(Nat)
  <2>1. r.vvTried[k] = Ascending({i \in n .. m - 1 : GetTriedBucket[Item(i).addr] = k})
    BY <1>0, <1>2 DEF ReadFrom, Item
  <2>2. n .. m - 1 = {i \in Ids(a) : i >= n}
    BY <1>0
  <2>3. {i \in n .. m - 1 : GetTriedBucket[Item(i).addr] = k} = BucketMembers(a, f, k)
    BY <1>4, <2>2 DEF BucketMembers
  <2>4. BucketMembers(a, f, k) \in SUBSET Nat /\ IsFiniteSet(BucketMembers(a, f, k))
    <3>1. BucketMembers(a, f, k) \in SUBSET (0 .. m - 1) /\ m \in Nat
      BY <1>0 DEF BucketMembers
    <3>2. IsFiniteSet(0 .. m - 1) /\ 0 .. m - 1 \in SUBSET Nat
      BY <3>1, IntervalCard
    <3> QED BY <3>1, <3>2, FS_Subset
  <2>5. Lists(r.vvTried[k], BucketMembers(a, f, k))
    BY <2>1, <2>3, <2>4, AscendingLists
  <2> QED BY <2>5 DEF Lists
<1>16. r.vvTried \in [TriedBuckets -> Seq(Nat)]
  <2>1. r.vvTried = [k \in TriedBuckets |-> r.vvTried[k]]
    BY <1>2 DEF ReadFrom
  <2> QED BY <1>15, <2>1
<1>17. /\ \A b \in NewBuckets : r.vvNew[b] = {i \in Ids(a) : f[i] \in a.vvNew[b]}
       /\ r.vvNew \in [NewBuckets -> SUBSET Nat]
  <2>1. r.vvNew = [b \in NewBuckets |-> {i \in Ids(a) : EntersIn(file, i, b)}]
    BY <1>0, <1>2 DEF ReadFrom
  <2>2. \A i \in Ids(a), b \in NewBuckets : EntersIn(file, i, b) <=> f[i] \in a.vvNew[b]
    BY AllBucketsKept
  <2>3. \A b \in NewBuckets : r.vvNew[b] = {i \in Ids(a) : f[i] \in a.vvNew[b]}
    BY <2>1, <2>2
  <2>4. \A i \in Ids(a) : i \in Nat
    BY <1>0
  <2> QED BY <2>1, <2>3, <2>4
<1>18. Object(r) /\ r.nIdCount = m /\ r.nTried = t /\ r.nNew = n /\ r.vRandom = [p \in 1 .. m |-> p - 1]
  BY <1>0, <1>1, <1>2 DEF ReadFrom
<1> QED BY <1>9, <1>10, <1>13, <1>14, <1>15, <1>16, <1>17, <1>18 DEF Renumbered


-----------------------------------------------------------------------------
(* New ids, the same tables.                                               *)

LEMMA RenumberedIds ==
    ASSUME NEW a, AInv(a, None), NEW f, Numbering(f, a), NEW r, Renumbered(r, a, f)
    PROVE  /\ DOMAIN r.mapInfo = Ids(a)
           /\ NewIds(r) = {i \in Ids(a) : f[i] \in NewIds(a)} /\ NewIds(r) = 0 .. a.nNew - 1
           /\ TriedIds(r) = {i \in Ids(a) : f[i] \in TriedIds(a)} /\ TriedIds(r) = a.nNew .. a.nNew + a.nTried - 1
           /\ \A i : i \in Ids(a) => NewBucketsOf(r, i) = NewBucketsOf(a, f[i])
<1>0. a.nNew \in Nat /\ a.nTried \in Nat /\ DOMAIN r.mapInfo = Ids(a)
  BY DEF AInv, AddrTypeOK, Renumbered
<1>1. \A i \in Ids(a) : r.mapInfo[i].fInTried = (i >= a.nNew)
  BY DEF Renumbered, Renewed
<1>2. TriedIds(r) = {i \in Ids(a) : i >= a.nNew}
  BY <1>0, <1>1 DEF TriedIds
<1>3. NewIds(r) = {i \in Ids(a) : i < a.nNew}
  <2>1. \A i \in Ids(a) : ~(i >= a.nNew) <=> i < a.nNew
    BY <1>0 DEF Ids
  <2> QED BY <1>0, <1>2, <2>1 DEF NewIds
<1>4. \A i \in Ids(a) : /\ (i < a.nNew <=> f[i] \in NewIds(a)) /\ f[i] \in DOMAIN a.mapInfo
                        /\ (i < a.nNew <=> ~(i >= a.nNew))
  BY <1>0 DEF Numbering, Ids
<1>5. \A i \in Ids(a) : i >= a.nNew <=> f[i] \in TriedIds(a)
  <2>1. \A x \in DOMAIN a.mapInfo : x \in TriedIds(a) <=> x \notin NewIds(a)
    BY DEF NewIds
  <2> QED BY <1>4, <2>1
<1>6. {i \in Ids(a) : i < a.nNew} = 0 .. a.nNew - 1 /\ {i \in Ids(a) : i >= a.nNew} = a.nNew .. a.nNew + a.nTried - 1
  BY <1>0 DEF Ids
<1>7. ASSUME NEW i, i \in Ids(a) PROVE NewBucketsOf(r, i) = NewBucketsOf(a, f[i])
  <2>1. \A b \in NewBuckets : i \in r.vvNew[b] <=> f[i] \in a.vvNew[b]
    BY <1>7 DEF Renumbered
  <2> QED BY <2>1 DEF NewBucketsOf
<1> QED BY <1>0, <1>2, <1>3, <1>4, <1>5, <1>6, <1>7

\* No more entries in a bucket than before.
LEMMA NoMoreThan ==
    ASSUME NEW a, NEW f, Numbering(f, a), NEW S, IsFiniteSet(S), NEW I \in SUBSET Ids(a), \A i \in I : f[i] \in S
    PROVE  IsFiniteSet(I) /\ Cardinality(I) <= Cardinality(S)
<1> DEFINE g == [i \in I |-> f[i]]
<1>1. g \in [I -> S]
  OBVIOUS
<1>2. \A i, j \in I : g[i] = g[j] => i = j
  BY DEF Numbering
<1> HIDE DEF g
<1>3. g \in Injection(I, S)
  BY <1>1, <1>2 DEF Injection, IsInjective
<1> QED BY <1>3, FS_Injection

LEMMA RenumberedInv ==
    ASSUME NEW a, AInv(a, None), NEW f, Numbering(f, a), NEW r, Renumbered(r, a, f)
    PROVE  AInv(r, None)
<1> DEFINE n == a.nNew
           t == a.nTried
           m == n + t
<1>0. n \in Nat /\ t \in Nat /\ m \in Nat /\ Ids(a) = 0 .. m - 1
  BY DEF AInv, AddrTypeOK, Ids
<1>1. /\ DOMAIN r.mapInfo = Ids(a) /\ NewIds(r) = 0 .. n - 1 /\ TriedIds(r) = n .. m - 1
      /\ \A i \in Ids(a) : NewBucketsOf(r, i) = NewBucketsOf(a, f[i])
  <2>1. DOMAIN r.mapInfo = Ids(a)
    BY RenumberedIds
  <2>2. NewIds(r) = 0 .. n - 1
    BY RenumberedIds
  <2>3. TriedIds(r) = {i \in Ids(a) : f[i] \in TriedIds(a)} /\ TriedIds(r) = a.nNew .. a.nNew + a.nTried - 1
    BY RenumberedIds
  <2>4. \A i : i \in Ids(a) => NewBucketsOf(r, i) = NewBucketsOf(a, f[i])
    BY RenumberedIds
  <2>5. TriedIds(r) = n .. m - 1
    <3>1. a.nNew + a.nTried - 1 = m - 1
      BY <1>0
    <3> QED BY <2>3, <3>1
  <2>6. \A i \in Ids(a) : NewBucketsOf(r, i) = NewBucketsOf(a, f[i])
    BY <2>4
  <2> QED BY <2>1, <2>2, <2>5, <2>6
<1>2. \A i \in NewIds(r) : i \in Ids(a) /\ f[i] \in NewIds(a)
  BY RenumberedIds
<1>3. \A i \in TriedIds(r) : i \in Ids(a) /\ f[i] \in TriedIds(a)
  BY RenumberedIds
<1>4. \A i \in Ids(a) : Renewed(r, a, f, i)
  BY DEF Renumbered
<1>5. /\ Object(r) /\ r.nIdCount = m /\ r.nTried = t /\ r.nNew = n /\ r.mapInfo \in [Ids(a) -> Info]
      /\ r.mapAddr \in [DOMAIN r.mapAddr -> Nat] /\ r.vvTried \in [TriedBuckets -> Seq(Nat)]
      /\ r.vvNew \in [NewBuckets -> SUBSET Nat]
  BY DEF Renumbered
<1>6. /\ r.vRandom \in Seq(Nat) /\ Len(r.vRandom) = m /\ \A p \in 1 .. m : r.vRandom[p] = p - 1
  <2>1. r.vRandom = [p \in 1 .. m |-> p - 1]
    BY DEF Renumbered
  <2>2. r.vRandom \in [1 .. m -> Nat]
    <3>1. \A p \in 1 .. m : p - 1 \in Nat
      BY <1>0
    <3> QED BY <2>1, <3>1
  <2>3. r.vRandom \in Seq(Nat)
    BY <1>0, <2>2, SeqDef
  <2>4. DOMAIN r.vRandom = 1 .. m /\ r.vRandom = [p \in 1 .. m |-> r.vRandom[p]]
    BY <2>1
  <2>5. Len(r.vRandom) = m
    BY <1>0, <2>4, FunctionLen
  <2> QED BY <2>1, <2>3, <2>5
<1>7. /\ DOMAIN r.mapAddr = {IP[a.mapInfo[f[i]].addr] : i \in Ids(a)}
      /\ \A i \in Ids(a) : r.mapAddr[IP[a.mapInfo[f[i]].addr]] = i
  BY DEF Renumbered
<1>8. \A i \in Ids(a) : f[i] \in DOMAIN a.mapInfo /\ a.mapInfo[f[i]].addr \in Services
  BY DEF Numbering, AInv, AddrTypeOK, Info
<1>9. AddrTypeOK(r)
  <2>1. DOMAIN r.mapAddr \subseteq IPs
    BY <1>7, <1>8, AddrAssumption
  <2>2. DOMAIN r.mapInfo \subseteq 0 .. r.nIdCount - 1 /\ r.nIdCount \in Nat /\ {r.nTried, r.nNew} \subseteq Nat
    BY <1>0, <1>1, <1>5
  <2>3. r.mapInfo \in [DOMAIN r.mapInfo -> Info]
    BY <1>1, <1>5
  <2> QED BY <1>5, <1>6, <2>1, <2>2, <2>3 DEF AddrTypeOK
<1>10. Order(r)
  <2>1. \A i \in Ids(a) : r.mapInfo[i].nRandomPos = i + 1
    BY <1>4 DEF Renewed
  <2>2. \A i \in Ids(a) : i + 1 \in 1 .. m /\ (i + 1) - 1 = i
    BY <1>0
  <2>3. \A p \in 1 .. m : p - 1 \in Ids(a) /\ (p - 1) + 1 = p
    BY <1>0
  <2>4. ASSUME NEW i \in DOMAIN r.mapInfo
        PROVE  r.mapInfo[i].nRandomPos \in 1 .. Len(r.vRandom) /\ r.vRandom[r.mapInfo[i].nRandomPos] = i
    <3>1. i \in Ids(a) /\ Len(r.vRandom) = m
      BY <1>1, <1>6
    <3>2. i + 1 \in 1 .. m /\ r.vRandom[i + 1] = i
      BY <1>6, <2>2, <3>1
    <3> QED BY <2>1, <3>1, <3>2
  <2>5. ASSUME NEW p \in 1 .. Len(r.vRandom)
        PROVE  r.vRandom[p] \in DOMAIN r.mapInfo /\ r.mapInfo[r.vRandom[p]].nRandomPos = p
    <3>1. p \in 1 .. m /\ DOMAIN r.mapInfo = Ids(a)
      BY <1>1, <1>6
    <3>2. r.vRandom[p] = p - 1 /\ p - 1 \in Ids(a)
      BY <1>6, <2>3, <3>1
    <3> QED BY <2>1, <2>3, <3>1, <3>2
  <2> QED BY <2>4, <2>5 DEF Order
<1>11. Addresses(r)
  <2>1. \A i \in Ids(a) : r.mapInfo[i].addr = a.mapInfo[f[i]].addr
    BY <1>4 DEF Renewed
  <2>2. DOMAIN r.mapInfo = Ids(a)
    BY <1>1
  <2>3. ASSUME NEW i \in Ids(a)
        PROVE  IP[r.mapInfo[i].addr] \in DOMAIN r.mapAddr /\ r.mapAddr[IP[r.mapInfo[i].addr]] = i
    BY <1>7, <2>1
  <2>4. ASSUME NEW ip \in DOMAIN r.mapAddr
        PROVE  r.mapAddr[ip] \in Ids(a) /\ IP[r.mapInfo[r.mapAddr[ip]].addr] = ip
    <3>1. PICK i \in Ids(a) : ip = IP[a.mapInfo[f[i]].addr]
      BY <1>7
    <3> QED BY <1>7, <2>1, <3>1
  <2> QED BY <2>2, <2>3, <2>4 DEF Addresses
<1>12. Refs(r, None)
  <2>1. ASSUME NEW i \in NewIds(r)
        PROVE  /\ r.mapInfo[i].nRefCount = Cardinality(NewBucketsOf(r, i)) + (IF i = None THEN 1 ELSE 0)
               /\ r.mapInfo[i].nRefCount \in 1 .. NEW_BUCKETS_PER_ADDRESS
    <3>1. i \in Ids(a) /\ f[i] \in NewIds(a) /\ f[i] \in DOMAIN a.mapInfo
      BY <1>2, <1>8
    <3>2. i # None /\ f[i] # None
      <4>1. i \in Nat /\ None \notin Nat
        BY <1>0, <3>1, AddrAssumption
      <4>2. DOMAIN a.mapInfo \subseteq Nat
        BY DEF AInv, AddrTypeOK
      <4> QED BY <3>1, <4>1, <4>2
    <3>3. /\ a.mapInfo[f[i]].nRefCount = Cardinality(NewBucketsOf(a, f[i])) + (IF f[i] = None THEN 1 ELSE 0)
          /\ a.mapInfo[f[i]].nRefCount \in 1 .. NEW_BUCKETS_PER_ADDRESS
      BY <3>1 DEF AInv, Refs
    <3>4. Cardinality(NewBucketsOf(a, f[i])) \in Nat
      BY FiniteIds, FS_CardinalityType DEF AInv
    <3>5. r.mapInfo[i].nRefCount = Cardinality(NewBucketsOf(a, f[i]))
      BY <1>4, <3>1 DEF Renewed
    <3>6. NewBucketsOf(r, i) = NewBucketsOf(a, f[i])
      BY <1>1, <3>1
    <3> QED BY <3>2, <3>3, <3>4, <3>5, <3>6
  <2>2. \A b \in NewBuckets : r.vvNew[b] \subseteq NewIds(r)
    <3>1. \A b \in NewBuckets : r.vvNew[b] = {i \in Ids(a) : f[i] \in a.vvNew[b]}
      BY DEF Renumbered
    <3>2. \A b \in NewBuckets : a.vvNew[b] \subseteq NewIds(a)
      BY DEF AInv, Refs
    <3>3. NewIds(r) = {i \in Ids(a) : f[i] \in NewIds(a)}
      BY RenumberedIds
    <3> QED BY <3>1, <3>2, <3>3
  <2>3. r.nNew = Cardinality(NewIds(r))
    BY <1>0, <1>1, <1>5, IntervalCard
  <2> QED BY <2>1, <2>2, <2>3 DEF Refs
<1>13. ASSUME NEW k \in TriedBuckets
       PROVE  /\ ToSet(r.vvTried[k]) = {i \in TriedIds(r) : GetTriedBucket[r.mapInfo[i].addr] = k}
              /\ ToSet(r.vvTried[k]) = BucketMembers(a, f, k) /\ Distinct(r.vvTried[k])
  <2> DEFINE S == BucketMembers(a, f, k)
             s == r.vvTried[k]
  <2>1. Lists(s, S) /\ s \in Seq(Nat)
    BY <1>5, <1>13 DEF Renumbered
  <2>2. S \in SUBSET Nat /\ IsFiniteSet(S)
    <3>1. S \in SUBSET (0 .. m - 1)
      BY <1>0 DEF BucketMembers
    <3>2. IsFiniteSet(0 .. m - 1) /\ 0 .. m - 1 \in SUBSET Nat
      BY <1>0, IntervalCard
    <3> QED BY <3>1, <3>2, FS_Subset
  <2>3. S = {i \in TriedIds(r) : GetTriedBucket[r.mapInfo[i].addr] = k}
    <3>1. TriedIds(r) = {i \in Ids(a) : i >= n}
      BY <1>0, <1>1
    <3>2. \A i \in Ids(a) : r.mapInfo[i].addr = a.mapInfo[f[i]].addr
      BY <1>4 DEF Renewed
    <3> QED BY <3>1, <3>2 DEF BucketMembers
  <2> HIDE DEF S, s
  <2>4. Cardinality(S) \in Nat
    BY <2>2, FS_CardinalityType
  <2>5. /\ \A i \in 1 .. Cardinality(S) : s[i] \in S
        /\ \A i, j \in 1 .. Cardinality(S) : s[i] = s[j] => i = j
        /\ \A x \in S : \E p \in 1 .. Cardinality(S) : s[p] = x
    BY <2>1, <2>2, <2>4, ListElements
  <2>6. Len(s) = Cardinality(S)
    BY <2>1 DEF Lists
  <2>7. DOMAIN s = 1 .. Cardinality(S)
    BY <2>1, <2>6, LenProperties
  <2>8. ToSet(s) = S
    BY <2>5, <2>7 DEF ToSet
  <2>9. Distinct(s)
    BY <2>5, <2>6 DEF Distinct
  <2> QED BY <2>3, <2>8, <2>9 DEF S, s
<1>14. Tries(r)
  <2>1. ASSUME NEW i \in TriedIds(r) PROVE r.mapInfo[i].nRefCount = 0 /\ r.mapInfo[i].nLastSuccess # 0
    <3>1. i \in Ids(a) /\ f[i] \in TriedIds(a)
      BY <1>3
    <3>2. a.mapInfo[f[i]].nLastSuccess # 0
      BY <3>1 DEF AInv, Tries
    <3>3. NewBucketsOf(a, f[i]) = {}
      <4>1. \A b \in NewBuckets : a.vvNew[b] \subseteq NewIds(a)
        BY DEF AInv, Refs
      <4>2. f[i] \notin NewIds(a)
        BY <3>1 DEF NewIds
      <4> QED BY <4>1, <4>2 DEF NewBucketsOf
    <3>4. r.mapInfo[i].nRefCount = Cardinality(NewBucketsOf(a, f[i])) /\ r.mapInfo[i].nLastSuccess = a.mapInfo[f[i]].nLastSuccess
      BY <1>4, <3>1 DEF Renewed
    <3> QED BY <3>2, <3>3, <3>4, FS_EmptySet
  <2>2. r.nTried = Cardinality(TriedIds(r))
    <3>1. n \in Int /\ m - 1 \in Int
      BY <1>0
    <3>2. Cardinality(n .. m - 1) = IF n > m - 1 THEN 0 ELSE (m - 1) - n + 1
      BY <3>1, FS_Interval
    <3>3. Cardinality(n .. m - 1) = t
      BY <1>0, <3>2
    <3> QED BY <1>1, <1>5, <3>3
  <2> QED BY <1>13, <2>1, <2>2 DEF Tries
<1>15. Bounded(r)
  <2>1. ASSUME NEW b \in NewBuckets PROVE Cardinality(r.vvNew[b]) <= NEW_BUCKET_SIZE
    <3>1. r.vvNew[b] = {i \in Ids(a) : f[i] \in a.vvNew[b]}
      BY DEF Renumbered
    <3>2. a.vvNew[b] \subseteq DOMAIN a.mapInfo /\ Cardinality(a.vvNew[b]) <= NEW_BUCKET_SIZE
      BY DEF AInv, Refs, Bounded, NewIds
    <3>3. IsFiniteSet(a.vvNew[b]) /\ Cardinality(a.vvNew[b]) \in Nat
      BY <3>2, FiniteIds, FS_CardinalityType DEF AInv
    <3>4. r.vvNew[b] \in SUBSET Ids(a) /\ \A i \in r.vvNew[b] : f[i] \in a.vvNew[b]
      BY <3>1
    <3>5. IsFiniteSet(r.vvNew[b]) /\ Cardinality(r.vvNew[b]) <= Cardinality(a.vvNew[b])
      BY <3>3, <3>4, NoMoreThan
    <3>6. Cardinality(r.vvNew[b]) \in Nat /\ NEW_BUCKET_SIZE \in Nat
      BY <3>5, FS_CardinalityType, AddrAssumption
    <3> QED BY <3>2, <3>3, <3>5, <3>6
  <2>2. ASSUME NEW k \in TriedBuckets PROVE Len(r.vvTried[k]) <= TRIED_BUCKET_SIZE
    <3>1. r.vvTried[k] \in Seq(Nat) /\ Distinct(r.vvTried[k]) /\ ToSet(r.vvTried[k]) = BucketMembers(a, f, k)
      BY <1>5, <1>13
    <3>2. Len(r.vvTried[k]) = Cardinality(BucketMembers(a, f, k))
      BY <3>1, DistinctLen
    <3>3. /\ a.vvTried[k] \in Seq(Nat) /\ Distinct(a.vvTried[k]) /\ Len(a.vvTried[k]) <= TRIED_BUCKET_SIZE
          /\ ToSet(a.vvTried[k]) = {id \in TriedIds(a) : GetTriedBucket[a.mapInfo[id].addr] = k}
      BY DEF AInv, AddrTypeOK, Tries, Bounded
    <3>4. IsFiniteSet(ToSet(a.vvTried[k])) /\ Len(a.vvTried[k]) = Cardinality(ToSet(a.vvTried[k]))
      BY <3>3, DistinctLen
    <3>5. \A i \in BucketMembers(a, f, k) : f[i] \in ToSet(a.vvTried[k])
      <4>1. \A i \in BucketMembers(a, f, k) : i \in TriedIds(r) /\ GetTriedBucket[a.mapInfo[f[i]].addr] = k
        BY <1>0, <1>1 DEF BucketMembers
      <4> QED BY <1>3, <3>3, <4>1
    <3>6. BucketMembers(a, f, k) \in SUBSET Ids(a)
      BY DEF BucketMembers
    <3>7. Cardinality(BucketMembers(a, f, k)) <= Cardinality(ToSet(a.vvTried[k]))
      BY <3>4, <3>5, <3>6, NoMoreThan
    <3>8. Len(r.vvTried[k]) \in Nat /\ Len(a.vvTried[k]) \in Nat /\ TRIED_BUCKET_SIZE \in Nat
      BY <3>1, <3>3, LenProperties, AddrAssumption
    <3> QED BY <3>2, <3>3, <3>4, <3>7, <3>8
  <2> QED BY <2>1, <2>2 DEF Bounded
<1> QED BY <1>5, <1>9, <1>10, <1>11, <1>12, <1>14, <1>15 DEF AInv


NewView(a, id) == <<Stored(a.mapInfo[id]), NewBucketsOf(a, id)>>

TriedView(a, id) == <<Stored(a.mapInfo[id]), {k \in TriedBuckets : id \in ToSet(a.vvTried[k])}>>

LEMMA RenumberedView ==
    ASSUME NEW a, AInv(a, None), NEW f, Numbering(f, a), NEW r, Renumbered(r, a, f)
    PROVE  /\ View(r) = View(a)
           /\ HostsOf(r, NewIds(r)) = HostsOf(a, NewIds(a)) /\ HostsOf(r, TriedIds(r)) = HostsOf(a, TriedIds(a))
<1>1. \A i \in Ids(a) : Renewed(r, a, f, i)
  BY DEF Renumbered
<1>2. \A i \in Ids(a) : Stored(r.mapInfo[i]) = Stored(a.mapInfo[f[i]]) /\ r.mapInfo[i].addr = a.mapInfo[f[i]].addr
  BY <1>1 DEF Renewed, Stored
<1>3. NewIds(r) = {i \in Ids(a) : f[i] \in NewIds(a)}
  BY RenumberedIds
<1>4. TriedIds(r) = {i \in Ids(a) : f[i] \in TriedIds(a)}
  BY RenumberedIds
<1>5. \A i : i \in Ids(a) => NewBucketsOf(r, i) = NewBucketsOf(a, f[i])
  BY RenumberedIds
<1>6. \A id \in DOMAIN a.mapInfo : \E i \in Ids(a) : f[i] = id
  BY DEF Numbering
<1>7. NewIds(a) \subseteq DOMAIN a.mapInfo /\ TriedIds(a) \subseteq DOMAIN a.mapInfo
  BY DEF NewIds, TriedIds
<1>8. AInv(r, None)
  BY RenumberedInv
<1>9. ASSUME NEW i \in TriedIds(r)
      PROVE  {k \in TriedBuckets : i \in ToSet(r.vvTried[k])} = {k \in TriedBuckets : f[i] \in ToSet(a.vvTried[k])}
  <2>1. i \in Ids(a) /\ f[i] \in TriedIds(a) /\ r.mapInfo[i].addr = a.mapInfo[f[i]].addr
    BY <1>2, <1>4
  <2>2. \A k \in TriedBuckets : i \in ToSet(r.vvTried[k]) <=> GetTriedBucket[r.mapInfo[i].addr] = k
    BY <1>8 DEF AInv, Tries
  <2>3. \A k \in TriedBuckets : f[i] \in ToSet(a.vvTried[k]) <=> GetTriedBucket[a.mapInfo[f[i]].addr] = k
    BY <2>1 DEF AInv, Tries
  <2> QED BY <2>1, <2>2, <2>3
<1>10. \A i \in NewIds(r) : f[i] \in NewIds(a) /\ NewView(r, i) = NewView(a, f[i])
  BY <1>2, <1>3, <1>5 DEF NewView
<1>11. \A i \in TriedIds(r) : f[i] \in TriedIds(a) /\ TriedView(r, i) = TriedView(a, f[i])
  BY <1>2, <1>4, <1>9 DEF TriedView
<1>12. \A id \in NewIds(a) : \E i \in NewIds(r) : f[i] = id
  BY <1>3, <1>6, <1>7
<1>13. \A id \in TriedIds(a) : \E i \in TriedIds(r) : f[i] = id
  BY <1>4, <1>6, <1>7
<1>14. {NewView(r, i) : i \in NewIds(r)} = {NewView(a, id) : id \in NewIds(a)}
  BY <1>10, <1>12
<1>15. {TriedView(r, i) : i \in TriedIds(r)} = {TriedView(a, id) : id \in TriedIds(a)}
  BY <1>11, <1>13
<1>16. View(r) = View(a)
  <2>1. View(r) = [new |-> {NewView(r, i) : i \in NewIds(r)}, tried |-> {TriedView(r, i) : i \in TriedIds(r)}]
    BY DEF View, NewView, TriedView
  <2>2. View(a) = [new |-> {NewView(a, i) : i \in NewIds(a)}, tried |-> {TriedView(a, i) : i \in TriedIds(a)}]
    BY DEF View, NewView, TriedView
  <2> QED BY <1>14, <1>15, <2>1, <2>2
<1>17. \A i \in NewIds(r) \cup TriedIds(r) : IP[r.mapInfo[i].addr] = IP[a.mapInfo[f[i]].addr]
  BY <1>2, <1>3, <1>4
<1>18. HostsOf(r, NewIds(r)) = HostsOf(a, NewIds(a))
  BY <1>10, <1>12, <1>17 DEF HostsOf
<1>19. HostsOf(r, TriedIds(r)) = HostsOf(a, TriedIds(a))
  BY <1>11, <1>13, <1>17 DEF HostsOf
<1> QED BY <1>16, <1>18, <1>19

SameBook(r, a) ==
    HostsOf(r, NewIds(r)) = HostsOf(a, NewIds(a)) /\ HostsOf(r, TriedIds(r)) = HostsOf(a, TriedIds(a))

\* A dump and a load keep the invariant, the tables and the book.
LEMMA ReloadInv ==
    ASSUME NEW a, AInv(a, None), NEW r, r = Unserialize(Serialize(a))
    PROVE  AInv(r, None) /\ View(r) = View(a) /\ SameBook(r, a)
<1>1. PICK f : f = OldId(a)
  OBVIOUS
<1>2. Numbering(f, a)
  BY <1>1, OldIdNumbers
<1>3. PICK file : file = Serialize(a)
  OBVIOUS
<1>4. Written(file, a, f)
  BY <1>1, <1>3, SerializeWrites
<1>5. Renumbered(r, a, f)
  <2>1. r = Unserialize(file)
    BY <1>3
  <2> QED BY <1>2, <1>4, <2>1, ReadRenumbered
<1>6. AInv(r, None)
  BY <1>2, <1>5, RenumberedInv
<1>7. View(r) = View(a)
  BY <1>2, <1>5, RenumberedView
<1>8. HostsOf(r, NewIds(r)) = HostsOf(a, NewIds(a)) /\ HostsOf(r, TriedIds(r)) = HostsOf(a, TriedIds(a))
  BY <1>2, <1>5, RenumberedView
<1> QED BY <1>6, <1>7, <1>8 DEF SameBook


-----------------------------------------------------------------------------
(* The invariant, one lemma per method.                                    *)

LEMMA AddNewInv ==
    ASSUME AInv(am, None), NEW s \in Services, NEW src \in Sources, AddNew(s, src)
    PROVE  AInv(am', None) /\ Learnt(am', am, s)
<1>1. IP[s] \notin DOMAIN am.mapAddr
  <2>1. \A ip \in DOMAIN am.mapAddr : am.mapAddr[ip] \in DOMAIN am.mapInfo
    BY DEF AInv, Addresses
  <2> QED BY <2>1 DEF AddNew, Found
<1>2. PICK b : b = GetNewBucket[<<IP[s], src>>]
  OBVIOUS
<1>3. b \in NewBuckets
  BY <1>2, AddrAssumption
<1>4. am' \in Enter(Create(am, s, src), am.nIdCount, b)
  BY <1>2 DEF AddNew
<1> QED BY <1>1, <1>3, <1>4, LearnInv

LEMMA AddAgainInv ==
    ASSUME AInv(am, None), NEW s \in Services, NEW src \in Sources, AddAgain(s, src)
    PROVE  AInv(am', None) /\ \E id \in NewIds(am) : Less(am', am, id)
<1>1. PICK id \in DOMAIN am.mapInfo :
        /\ ~am.mapInfo[id].fInTried
        /\ am.mapInfo[id].nRefCount # NEW_BUCKETS_PER_ADDRESS
        /\ am' \in Enter(am, id, GetNewBucket[<<IP[s], src>>])
  BY DEF AddAgain
<1>2. PICK b : b = GetNewBucket[<<IP[s], src>>]
  OBVIOUS
<1>3. b \in NewBuckets
  BY <1>2, AddrAssumption
<1>4. id \in NewIds(am)
  BY <1>1 DEF NewIds, TriedIds
<1>5. am' \in Enter(am, id, b)
  BY <1>1, <1>2
<1>6. AInv(am', None) /\ Less(am', am, id)
  BY <1>1, <1>3, <1>4, <1>5, AgainInv
<1> QED BY <1>4, <1>6

\* An entry is noted to be good, and perhaps moves.
GoodStep(r, a, id) ==
    \/ Alike(r, a) /\ NewIds(r) = NewIds(a) /\ TriedIds(r) = TriedIds(a)
    \/ id \in NewIds(a) /\ Reached(r, a, id)

LEMMA GoodInv ==
    ASSUME AInv(am, None), NEW s \in Services, NEW nTime \in 1 .. MaxTime, Good(s, nTime)
    PROVE  AInv(am', None) /\ \E id \in DOMAIN am.mapInfo : GoodStep(am', am, id)
<1>1. PICK id \in DOMAIN am.mapInfo :
        am' \in IF am.mapInfo[id].fInTried \/ NewBucketsOf(am, id) = {}
                THEN {[am EXCEPT !.mapInfo[id].nLastSuccess = nTime]}
                ELSE UNION {MakeTried([am EXCEPT !.mapInfo[id].nLastSuccess = nTime], id, nOrigin) :
                              nOrigin \in NewBucketsOf(am, id)}
  BY DEF Good
<1>2. PICK a : a = [am EXCEPT !.mapInfo[id].nLastSuccess = nTime]
  OBVIOUS
<1>3. Noted(a, am, id)
  BY <1>2, NotedInv
<1>4. /\ AInv(a, None) /\ Alike(a, am) /\ a.vvNew = am.vvNew /\ a.mapInfo[id].nLastSuccess # 0
      /\ NewIds(a) = NewIds(am) /\ TriedIds(a) = TriedIds(am)
  BY <1>3 DEF Noted
<1>5. CASE am.mapInfo[id].fInTried \/ NewBucketsOf(am, id) = {}
  <2>1. am' = a
    BY <1>1, <1>2, <1>5
  <2>2. AInv(am', None) /\ GoodStep(am', am, id)
    BY <1>4, <2>1 DEF GoodStep
  <2> QED BY <2>2
<1>6. CASE ~(am.mapInfo[id].fInTried \/ NewBucketsOf(am, id) = {})
  <2>1. PICK nOrigin \in NewBucketsOf(am, id) : am' \in MakeTried(a, id, nOrigin)
    BY <1>1, <1>2, <1>6
  <2>2. id \in NewIds(am)
    BY <1>6 DEF NewIds, TriedIds
  <2>3. id \in NewIds(a) /\ nOrigin \in NewBucketsOf(a, id)
    BY <1>4, <2>2 DEF NewBucketsOf
  <2>4. AInv(am', None) /\ Reached(am', a, id)
    BY <1>4, <2>1, <2>3, MakeTriedInv
  <2>5. Reached(am', am, id)
    <3>1. DOMAIN a.mapInfo = DOMAIN am.mapInfo /\ \A j \in DOMAIN am.mapInfo : a.mapInfo[j].addr = am.mapInfo[j].addr
      BY <1>4 DEF Alike, Like
    <3> QED BY <1>4, <2>4, <3>1 DEF Reached, Exchanged
  <2>6. GoodStep(am', am, id)
    BY <2>2, <2>5 DEF GoodStep
  <2> QED BY <2>4, <2>6
<1> QED BY <1>5, <1>6

LEMMA GetAddrInv ==
    ASSUME AInv(am, None), GetAddr
    PROVE  AInv(am', None) /\ Kept(am', am)
<1> DEFINE nSize == Len(am.vRandom)
<1>1. PICK n : n = Min({(GETADDR_MAX_PCT * nSize) \div 100, GETADDR_MAX})
  OBVIOUS
<1>2. n \in Nat
  <2>1. nSize \in Nat /\ GETADDR_MAX_PCT \in Nat /\ GETADDR_MAX \in Nat
    BY LenProperties, AddrAssumption DEF AInv, AddrTypeOK
  <2>2. GETADDR_MAX_PCT * nSize \in Nat
    BY <2>1
  <2>3. (GETADDR_MAX_PCT * nSize) \div 100 \in Nat
    BY <2>2
  <2> QED BY <1>1, <2>1, <2>3, MinOfTwo
<1>3. PICK q \in [1 .. n -> 1 .. nSize] : /\ \A i \in 1 .. n : q[i] >= i
                                          /\ am' = Swapped(am, n, q)[n]
  BY <1>1 DEF GetAddr
<1> QED BY <1>2, <1>3, SwappedInv


-----------------------------------------------------------------------------
(* Theorems.                                                               *)

\* The invariant holds in every state: at the start (an empty object) and after
\* every method, whatever entry a full bucket gives up.
LEMMA AddrInvariant ==
    AddrSpec => []AInv(am, None)
<1>1. AddrInit => AInv(am, None)
  BY EmptyInv
<1>2. AInv(am, None) /\ [AddrNext]_am => AInv(am, None)'
  <2> SUFFICES ASSUME AInv(am, None), [AddrNext]_am PROVE AInv(am', None)
    BY DEF AInv, Object, AddrTypeOK, Order, Addresses, Refs, Tries, Bounded, NewIds, TriedIds, NewBucketsOf, Info
  <2>1. ASSUME NEW s \in Services, NEW src \in Sources, AddNew(s, src) PROVE AInv(am', None)
    BY <2>1, AddNewInv
  <2>2. ASSUME NEW s \in Services, NEW src \in Sources, AddAgain(s, src) PROVE AInv(am', None)
    BY <2>2, AddAgainInv
  <2>3. ASSUME NEW s \in Services, NEW nTime \in 1 .. MaxTime, Good(s, nTime) PROVE AInv(am', None)
    BY <2>3, GoodInv
  <2>4. CASE GetAddr
    BY <2>4, GetAddrInv
  <2>5. CASE Restart
    <3>1. am' = Unserialize(Serialize(am))
      BY <2>5 DEF Restart
    <3> QED BY <3>1, ReloadInv
  <2>6. CASE am' = am
    BY <2>6
  <2> QED BY <2>1, <2>2, <2>3, <2>4, <2>5, <2>6 DEF AddrNext
<1> QED BY <1>1, <1>2, PTL DEF AddrSpec

\* What Check_ tests under DEBUG_ADDRMAN holds after every Add, Good and GetAddr and
\* after every start from peers.dat, for buckets of any number and any size, any
\* hash, and any choice of the entry that a full bucket gives up.
THEOREM AddrCorrect ==
    AddrSpec => []CheckOK
<1>1. AInv(am, None) => CheckOK
  BY InvChecks
<1> QED BY <1>1, AddrInvariant, PTL

\* No bucket is ever over its limit: the "place" that MakeTried counts on in the
\* bucket its entry came from is there, and rebuilding the tables keeps the limits.
THEOREM AddrBounded ==
    AddrSpec => []BucketsBounded
<1>1. AInv(am, None) => BucketsBounded
  BY InvChecks
<1> QED BY <1>1, AddrInvariant, PTL

\* Whatever the tables are, the next start reads from peers.dat the same entries in
\* the same buckets, under other ids: nothing is dropped for want of room.
THEOREM FileCorrect ==
    AddrSpec => []FileOK
<1>1. AInv(am, None) => FileOK
  BY ReloadInv DEF FileOK
<1> QED BY <1>1, AddrInvariant, PTL


-----------------------------------------------------------------------------
(* How many hosts fit in the buckets.                                      *)

\* The entries of the first m of a row of buckets.
FirstOf(F, m) == UNION {F[b] : b \in 0 .. m - 1}

LEMMA RowCapacity ==
    ASSUME NEW n \in Nat, NEW size \in Nat, NEW F,
           \A b \in 0 .. n - 1 : IsFiniteSet(F[b]) /\ Cardinality(F[b]) <= size
    PROVE  IsFiniteSet(FirstOf(F, n)) /\ Cardinality(FirstOf(F, n)) <= n * size
<1> DEFINE Fits(m) == IsFiniteSet(FirstOf(F, m)) /\ Cardinality(FirstOf(F, m)) <= m * size
           S == {m \in Nat : m <= n => Fits(m)}
<1>1. 0 \in S
  <2>1. FirstOf(F, 0) = {}
    BY DEF FirstOf
  <2>2. IsFiniteSet(FirstOf(F, 0)) /\ Cardinality(FirstOf(F, 0)) = 0
    BY <2>1, FS_EmptySet
  <2>3. 0 * size = 0
    OBVIOUS
  <2> QED BY <2>2, <2>3
<1>2. \A m \in Nat : m \in S => m + 1 \in S
  <2> SUFFICES ASSUME NEW m \in Nat, m \in S, m + 1 <= n PROVE Fits(m + 1)
    OBVIOUS
  <2>1. Fits(m)
    OBVIOUS
  <2>2. FirstOf(F, m + 1) = FirstOf(F, m) \cup F[m]
    <3>1. 0 .. (m + 1) - 1 = (0 .. m - 1) \cup {m}
      OBVIOUS
    <3> QED BY <3>1 DEF FirstOf
  <2>3. m \in 0 .. n - 1
    OBVIOUS
  <2>4. IsFiniteSet(F[m]) /\ Cardinality(F[m]) <= size
    BY <2>3
  <2>5. PICK U : U = FirstOf(F, m)
    OBVIOUS
  <2>6. IsFiniteSet(U) /\ Cardinality(U) <= m * size
    BY <2>1, <2>5
  <2>7. /\ IsFiniteSet(U \cup F[m])
        /\ Cardinality(U \cup F[m]) = Cardinality(U) + Cardinality(F[m]) - Cardinality(U \cap F[m])
    BY <2>4, <2>6, FS_Union
  <2>8. U \cap F[m] \in SUBSET U
    OBVIOUS
  <2>9. IsFiniteSet(U \cap F[m])
    BY <2>6, <2>8, FS_Subset
  <2>10. /\ Cardinality(U) \in Nat /\ Cardinality(F[m]) \in Nat /\ Cardinality(U \cap F[m]) \in Nat
    BY <2>4, <2>6, <2>9, FS_CardinalityType
  <2>11. (m + 1) * size = m * size + size /\ m * size \in Nat
    OBVIOUS
  <2>12. Cardinality(U \cup F[m]) <= m * size + size
    <3>1. PICK c, d, e, ms \in Nat : /\ c = Cardinality(U) /\ d = Cardinality(F[m]) /\ e = Cardinality(U \cap F[m])
                                      /\ ms = m * size
      BY <2>10, <2>11
    <3>2. c <= ms /\ d <= size
      BY <2>4, <2>6, <3>1
    <3>3. c + d - e <= ms + size
      BY <3>2
    <3> QED BY <2>7, <3>1, <3>3
  <2> QED BY <2>2, <2>5, <2>7, <2>11, <2>12
<1> HIDE DEF S
<1>3. \A m \in Nat : m \in S
  BY <1>1, <1>2, CountUp
<1>4. Fits(n)
  <2>1. n \in S /\ n <= n
    BY <1>3
  <2> QED BY <2>1 DEF S
<1> QED BY <1>4

\* There are at most as many hosts as entries.
LEMMA HostsCount ==
    ASSUME NEW a, NEW S, IsFiniteSet(S)
    PROVE  IsFiniteSet(HostsOf(a, S)) /\ Cardinality(HostsOf(a, S)) <= Cardinality(S)
<1> DEFINE g == [id \in S |-> IP[a.mapInfo[id].addr]]
<1>1. g \in Surjection(S, HostsOf(a, S))
  BY DEF Surjection, HostsOf
<1> HIDE DEF g
<1> QED BY <1>1, FS_Surjection

\* The book has room for the entries of the buckets, and no more.
Fitting(a) ==
    /\ Cardinality(HostsOf(a, NewIds(a))) <= NEW_BUCKET_COUNT * NEW_BUCKET_SIZE
    /\ Cardinality(HostsOf(a, TriedIds(a))) <= TRIED_BUCKET_COUNT * TRIED_BUCKET_SIZE

LEMMA BucketsFit ==
    ASSUME NEW a, AInv(a, None)
    PROVE  Fitting(a)
<1>0. /\ NEW_BUCKET_COUNT \in Nat /\ NEW_BUCKET_SIZE \in Nat
      /\ TRIED_BUCKET_COUNT \in Nat /\ TRIED_BUCKET_SIZE \in Nat
  BY AddrAssumption
<1>1. IsFiniteSet(NewIds(a)) /\ IsFiniteSet(TriedIds(a)) /\ \A S : S \subseteq DOMAIN a.mapInfo => IsFiniteSet(S)
  BY FiniteIds DEF AInv
<1>2. Cardinality(HostsOf(a, NewIds(a))) <= NEW_BUCKET_COUNT * NEW_BUCKET_SIZE
  <2>1. \A b \in NewBuckets : a.vvNew[b] \subseteq DOMAIN a.mapInfo /\ Cardinality(a.vvNew[b]) <= NEW_BUCKET_SIZE
    BY DEF AInv, Refs, NewIds, Bounded
  <2>2. PICK F : F = a.vvNew
    OBVIOUS
  <2>3. \A b \in 0 .. NEW_BUCKET_COUNT - 1 : IsFiniteSet(F[b]) /\ Cardinality(F[b]) <= NEW_BUCKET_SIZE
    BY <1>1, <2>1, <2>2 DEF NewBuckets
  <2>4. /\ IsFiniteSet(FirstOf(F, NEW_BUCKET_COUNT))
        /\ Cardinality(FirstOf(F, NEW_BUCKET_COUNT)) <= NEW_BUCKET_COUNT * NEW_BUCKET_SIZE
    BY <1>0, <2>3, RowCapacity
  <2>5. NewIds(a) \in SUBSET FirstOf(F, NEW_BUCKET_COUNT)
    <3>1. ASSUME NEW id \in NewIds(a) PROVE \E b \in NewBuckets : id \in a.vvNew[b]
      <4>1. /\ a.mapInfo[id].nRefCount = Cardinality(NewBucketsOf(a, id)) + (IF id = None THEN 1 ELSE 0)
            /\ a.mapInfo[id].nRefCount \in 1 .. NEW_BUCKETS_PER_ADDRESS
        BY DEF AInv, Refs
      <4>2. id # None
        BY AddrAssumption DEF AInv, AddrTypeOK, NewIds
      <4>3. Cardinality(NewBucketsOf(a, id)) # 0
        BY <4>1, <4>2
      <4>4. NewBucketsOf(a, id) # {}
        BY <4>3, FS_EmptySet
      <4> QED BY <4>4 DEF NewBucketsOf
    <3> QED BY <2>2, <3>1 DEF FirstOf, NewBuckets
  <2>6. Cardinality(NewIds(a)) <= Cardinality(FirstOf(F, NEW_BUCKET_COUNT))
    BY <2>4, <2>5, FS_Subset
  <2>7. IsFiniteSet(HostsOf(a, NewIds(a))) /\ Cardinality(HostsOf(a, NewIds(a))) <= Cardinality(NewIds(a))
    BY <1>1, HostsCount
  <2>8. /\ Cardinality(HostsOf(a, NewIds(a))) \in Nat /\ Cardinality(NewIds(a)) \in Nat
        /\ Cardinality(FirstOf(F, NEW_BUCKET_COUNT)) \in Nat /\ NEW_BUCKET_COUNT * NEW_BUCKET_SIZE \in Nat
    BY <1>0, <1>1, <2>4, <2>7, FS_CardinalityType
  <2>9. PICK c : c = NEW_BUCKET_COUNT * NEW_BUCKET_SIZE
    OBVIOUS
  <2> QED BY <2>4, <2>6, <2>7, <2>8, <2>9
<1>3. Cardinality(HostsOf(a, TriedIds(a))) <= TRIED_BUCKET_COUNT * TRIED_BUCKET_SIZE
  <2> DEFINE F == [k \in TriedBuckets |-> ToSet(a.vvTried[k])]
  <2>1. \A k \in TriedBuckets : IsFiniteSet(F[k]) /\ Cardinality(F[k]) <= TRIED_BUCKET_SIZE
    <3>1. ASSUME NEW k \in TriedBuckets
          PROVE  IsFiniteSet(ToSet(a.vvTried[k])) /\ Cardinality(ToSet(a.vvTried[k])) <= TRIED_BUCKET_SIZE
      <4>1. a.vvTried[k] \in Seq(Nat) /\ Distinct(a.vvTried[k]) /\ Len(a.vvTried[k]) <= TRIED_BUCKET_SIZE
        BY DEF AInv, AddrTypeOK, Tries, Bounded
      <4> QED BY <4>1, DistinctLen
    <3> QED BY <3>1
  <2>2. \A id \in TriedIds(a) : \E k \in TriedBuckets : id \in F[k]
    <3>1. ASSUME NEW id \in TriedIds(a) PROVE \E k \in TriedBuckets : id \in ToSet(a.vvTried[k])
      <4>1. a.mapInfo[id].addr \in Services
        BY DEF AInv, AddrTypeOK, TriedIds, Info
      <4>2. GetTriedBucket[a.mapInfo[id].addr] \in TriedBuckets
        BY <4>1, AddrAssumption
      <4> QED BY <4>2 DEF AInv, Tries
    <3> QED BY <3>1
  <2> HIDE DEF F
  <2>3. \A k \in 0 .. TRIED_BUCKET_COUNT - 1 : IsFiniteSet(F[k]) /\ Cardinality(F[k]) <= TRIED_BUCKET_SIZE
    BY <2>1 DEF TriedBuckets
  <2>4. /\ IsFiniteSet(FirstOf(F, TRIED_BUCKET_COUNT))
        /\ Cardinality(FirstOf(F, TRIED_BUCKET_COUNT)) <= TRIED_BUCKET_COUNT * TRIED_BUCKET_SIZE
    BY <1>0, <2>3, RowCapacity
  <2>5. TriedIds(a) \in SUBSET FirstOf(F, TRIED_BUCKET_COUNT)
    BY <2>2 DEF FirstOf, TriedBuckets
  <2>6. Cardinality(TriedIds(a)) <= Cardinality(FirstOf(F, TRIED_BUCKET_COUNT))
    BY <2>4, <2>5, FS_Subset
  <2>7. IsFiniteSet(HostsOf(a, TriedIds(a))) /\ Cardinality(HostsOf(a, TriedIds(a))) <= Cardinality(TriedIds(a))
    BY <1>1, HostsCount
  <2>8. /\ Cardinality(HostsOf(a, TriedIds(a))) \in Nat /\ Cardinality(TriedIds(a)) \in Nat
        /\ Cardinality(FirstOf(F, TRIED_BUCKET_COUNT)) \in Nat /\ TRIED_BUCKET_COUNT * TRIED_BUCKET_SIZE \in Nat
    BY <1>0, <1>1, <2>4, <2>7, FS_CardinalityType
  <2>9. PICK c : c = TRIED_BUCKET_COUNT * TRIED_BUCKET_SIZE
    OBVIOUS
  <2> QED BY <2>4, <2>6, <2>7, <2>8, <2>9
<1> QED BY <1>2, <1>3 DEF Fitting


-----------------------------------------------------------------------------
(* The manager keeps the book of AddrBook.                                 *)

Host(a, id) == IP[a.mapInfo[id].addr]

\* Hosts of sets of entries: one less, one more, of another object.
LEMMA HostsMinus ==
    ASSUME NEW a, Addresses(a), NEW S, S \subseteq DOMAIN a.mapInfo, NEW i \in DOMAIN a.mapInfo
    PROVE  HostsOf(a, S \ {i}) = HostsOf(a, S) \ {Host(a, i)}
<1>1. \A j \in S : Host(a, j) = Host(a, i) => j = i
  BY DEF Addresses, Host
<1> QED BY <1>1 DEF HostsOf, Host

LEMMA HostsPlus ==
    ASSUME NEW a, NEW S, NEW i
    PROVE  HostsOf(a, S \cup {i}) = HostsOf(a, S) \cup {Host(a, i)}
BY DEF HostsOf, Host

LEMMA HostsLike ==
    ASSUME NEW a, NEW r, NEW S, \A j \in S : r.mapInfo[j].addr = a.mapInfo[j].addr
    PROVE  HostsOf(r, S) = HostsOf(a, S)
BY DEF HostsOf

\* AddrBook counts as this module does.
LEMMA BookCounts ==
    \A T : Book!Cardinality(T) = Cardinality(T)
BY DEF Cardinality, Book!Cardinality

\* None or one.
LEMMA NoneOrOne ==
    ASSUME NEW S, NEW x \in S
    PROVE  {} \in Book!AtMostOne(S) /\ {x} \in Book!AtMostOne(S)
<1>1. Cardinality({}) = 0 /\ Cardinality({x}) = 1
  BY FS_EmptySet, FS_Singleton
<1> QED BY <1>1, BookCounts DEF Book!AtMostOne

LEMMA NoneOf ==
    ASSUME NEW S
    PROVE  {} \in Book!AtMostOne(S)
<1>1. Cardinality({}) = 0
  BY FS_EmptySet
<1> QED BY <1>1, BookCounts DEF Book!AtMostOne

\* The steps of the book, on sets of hosts.
Learns(h, n1, n2, t1, t2) ==
    /\ h \notin n1 \cup t1 /\ t2 = t1
    /\ \E gone \in Book!AtMostOne(n1) : n2 = (n1 \ gone) \cup {h}

Hears(h, n1, n2, t1, t2) ==
    /\ h \in n1 /\ t2 = t1
    /\ \E gone \in Book!AtMostOne(n1 \ {h}) : n2 = n1 \ gone

Reaches(h, n1, n2, t1, t2) ==
    /\ h \in n1
    /\ \E back \in Book!AtMostOne(t1) : t2 = (t1 \ back) \cup {h} /\ n2 = (n1 \ {h}) \cup back

LEMMA LearntBook ==
    ASSUME NEW a, AInv(a, None), NEW r, NEW s \in Services, Learnt(r, a, s)
    PROVE  Learns(IP[s], HostsOf(a, NewIds(a)), HostsOf(r, NewIds(r)), HostsOf(a, TriedIds(a)), HostsOf(r, TriedIds(r)))
<1> DEFINE i == a.nIdCount
           N == NewIds(a)
           T == TriedIds(a)
<1>0. N \subseteq DOMAIN a.mapInfo /\ T \subseteq DOMAIN a.mapInfo /\ Addresses(a)
  BY DEF AInv, NewIds, TriedIds
<1>1. /\ IP[s] \notin DOMAIN a.mapAddr /\ i \notin DOMAIN a.mapInfo /\ TriedIds(r) = T
      /\ (NewIds(r) = N \cup {i} \/ \E j \in N : NewIds(r) = (N \ {j}) \cup {i})
      /\ r.mapInfo[i].addr = s
      /\ \A j \in DOMAIN r.mapInfo : j # i => j \in DOMAIN a.mapInfo /\ r.mapInfo[j].addr = a.mapInfo[j].addr
  BY DEF Learnt
<1>2. NewIds(r) \subseteq DOMAIN r.mapInfo /\ TriedIds(r) \subseteq DOMAIN r.mapInfo
  BY DEF NewIds, TriedIds
<1> HIDE DEF i, N, T
<1>3. \A j \in N \cup T : Host(a, j) \in DOMAIN a.mapAddr
  BY <1>0 DEF Addresses, Host
<1>4. IP[s] \notin HostsOf(a, N) \cup HostsOf(a, T)
  BY <1>1, <1>3 DEF HostsOf, Host
<1>5. \A j \in T : r.mapInfo[j].addr = a.mapInfo[j].addr
  BY <1>0, <1>1, <1>2
<1>6. HostsOf(r, TriedIds(r)) = HostsOf(a, T)
  BY <1>1, <1>5, HostsLike
<1>7. Host(r, i) = IP[s]
  BY <1>1 DEF Host
<1>8. ASSUME NEW S, S \subseteq N, NewIds(r) = S \cup {i} PROVE HostsOf(r, NewIds(r)) = HostsOf(a, S) \cup {IP[s]}
  <2>1. \A j \in S : r.mapInfo[j].addr = a.mapInfo[j].addr
    BY <1>0, <1>1, <1>2, <1>8
  <2>2. HostsOf(r, S) = HostsOf(a, S)
    BY <2>1, HostsLike
  <2>3. HostsOf(r, S \cup {i}) = HostsOf(r, S) \cup {Host(r, i)}
    BY HostsPlus
  <2> QED BY <1>7, <1>8, <2>2, <2>3
<1>9. CASE NewIds(r) = N \cup {i}
  <2>1. HostsOf(r, NewIds(r)) = HostsOf(a, N) \cup {IP[s]}
    BY <1>8, <1>9
  <2>2. HostsOf(r, NewIds(r)) = (HostsOf(a, N) \ {}) \cup {IP[s]}
    BY <2>1
  <2>3. {} \in Book!AtMostOne(HostsOf(a, N))
    BY NoneOf
  <2> QED BY <1>4, <1>6, <2>2, <2>3 DEF Learns, N, T
<1>10. ASSUME NEW j \in N, NewIds(r) = (N \ {j}) \cup {i}
       PROVE  Learns(IP[s], HostsOf(a, N), HostsOf(r, NewIds(r)), HostsOf(a, T), HostsOf(r, TriedIds(r)))
  <2>1. HostsOf(r, NewIds(r)) = HostsOf(a, N \ {j}) \cup {IP[s]}
    <3>1. PICK S : S = N \ {j}
      OBVIOUS
    <3>2. S \subseteq N /\ NewIds(r) = S \cup {i}
      BY <1>10, <3>1
    <3> QED BY <1>8, <3>1, <3>2
  <2>2. HostsOf(a, N \ {j}) = HostsOf(a, N) \ {Host(a, j)}
    BY <1>0, HostsMinus
  <2>3. Host(a, j) \in HostsOf(a, N)
    BY DEF HostsOf, Host
  <2>4. {Host(a, j)} \in Book!AtMostOne(HostsOf(a, N))
    BY <2>3, NoneOrOne
  <2>5. HostsOf(r, NewIds(r)) = (HostsOf(a, N) \ {Host(a, j)}) \cup {IP[s]}
    BY <2>1, <2>2
  <2> QED BY <1>4, <1>6, <2>4, <2>5 DEF Learns
<1> QED BY <1>1, <1>9, <1>10 DEF N, T

LEMMA LessBook ==
    ASSUME NEW a, AInv(a, None), NEW r, NEW id \in NewIds(a), Less(r, a, id)
    PROVE  \/ SameBook(r, a)
           \/ Hears(Host(a, id), HostsOf(a, NewIds(a)), HostsOf(r, NewIds(r)),
                    HostsOf(a, TriedIds(a)), HostsOf(r, TriedIds(r)))
<1> DEFINE N == NewIds(a)
<1>0. N \subseteq DOMAIN a.mapInfo /\ Addresses(a)
  BY DEF AInv, NewIds
<1>1. /\ TriedIds(r) = TriedIds(a)
      /\ (NewIds(r) = N \/ \E i \in N : i # id /\ NewIds(r) = N \ {i})
      /\ \A j \in DOMAIN r.mapInfo : j \in DOMAIN a.mapInfo /\ r.mapInfo[j].addr = a.mapInfo[j].addr
  BY DEF Less
<1>2. NewIds(r) \subseteq DOMAIN r.mapInfo /\ TriedIds(r) \subseteq DOMAIN r.mapInfo
  BY DEF NewIds, TriedIds
<1> HIDE DEF N
<1>3. \A j \in TriedIds(r) : r.mapInfo[j].addr = a.mapInfo[j].addr
  BY <1>1, <1>2
<1>4. HostsOf(r, TriedIds(r)) = HostsOf(a, TriedIds(a))
  <2>1. HostsOf(r, TriedIds(r)) = HostsOf(a, TriedIds(r))
    BY <1>3, HostsLike
  <2> QED BY <1>1, <2>1
<1>5. \A j \in NewIds(r) : r.mapInfo[j].addr = a.mapInfo[j].addr
  BY <1>1, <1>2
<1>6. HostsOf(r, NewIds(r)) = HostsOf(a, NewIds(r))
  BY <1>5, HostsLike
<1>7. CASE NewIds(r) = N
  <2>1. SameBook(r, a)
    BY <1>4, <1>6, <1>7 DEF SameBook, N
  <2> QED BY <2>1
<1>8. ASSUME NEW i \in N, i # id, NewIds(r) = N \ {i}
      PROVE  Hears(Host(a, id), HostsOf(a, N), HostsOf(r, NewIds(r)), HostsOf(a, TriedIds(a)), HostsOf(r, TriedIds(r)))
  <2>1. HostsOf(a, N \ {i}) = HostsOf(a, N) \ {Host(a, i)}
    BY <1>0, HostsMinus
  <2>2. Host(a, i) \in HostsOf(a, N) /\ Host(a, id) \in HostsOf(a, N)
    BY DEF HostsOf, Host, N
  <2>3. Host(a, i) # Host(a, id)
    BY <1>0, <1>8 DEF Addresses, Host, N
  <2>4. Host(a, i) \in HostsOf(a, N) \ {Host(a, id)}
    BY <2>2, <2>3
  <2>5. {Host(a, i)} \in Book!AtMostOne(HostsOf(a, N) \ {Host(a, id)})
    BY <2>4, NoneOrOne
  <2>6. HostsOf(r, NewIds(r)) = HostsOf(a, N) \ {Host(a, i)}
    BY <1>6, <1>8, <2>1
  <2> QED BY <1>4, <2>2, <2>5, <2>6 DEF Hears
<1> QED BY <1>1, <1>7, <1>8 DEF N

LEMMA ReachedBook ==
    ASSUME NEW a, AInv(a, None), NEW r, NEW i \in NewIds(a), Reached(r, a, i)
    PROVE  Reaches(Host(a, i), HostsOf(a, NewIds(a)), HostsOf(r, NewIds(r)),
                   HostsOf(a, TriedIds(a)), HostsOf(r, TriedIds(r)))
<1> DEFINE N == NewIds(a)
           T == TriedIds(a)
<1>0. N \subseteq DOMAIN a.mapInfo /\ T \subseteq DOMAIN a.mapInfo /\ Addresses(a) /\ i \in DOMAIN a.mapInfo
  BY DEF AInv, NewIds, TriedIds
<1>1. /\ DOMAIN r.mapInfo = DOMAIN a.mapInfo /\ \A id \in DOMAIN a.mapInfo : r.mapInfo[id].addr = a.mapInfo[id].addr
      /\ \/ NewIds(r) = N \ {i} /\ TriedIds(r) = T \cup {i}
         \/ \E old : old \in T /\ NewIds(r) = (N \ {i}) \cup {old} /\ TriedIds(r) = (T \ {old}) \cup {i}
  BY DEF Reached, Exchanged
<1>2. NewIds(r) \subseteq DOMAIN a.mapInfo /\ TriedIds(r) \subseteq DOMAIN a.mapInfo
  BY <1>1 DEF NewIds, TriedIds
<1>3. \A j \in NewIds(r) : r.mapInfo[j].addr = a.mapInfo[j].addr
  BY <1>1, <1>2
<1>4. \A j \in TriedIds(r) : r.mapInfo[j].addr = a.mapInfo[j].addr
  BY <1>1, <1>2
<1>5. HostsOf(r, NewIds(r)) = HostsOf(a, NewIds(r))
  BY <1>3, HostsLike
<1>6. HostsOf(r, TriedIds(r)) = HostsOf(a, TriedIds(r))
  BY <1>4, HostsLike
<1>7. HostsOf(a, N \ {i}) = HostsOf(a, N) \ {Host(a, i)}
  BY <1>0, HostsMinus
<1>8. Host(a, i) \in HostsOf(a, N)
  BY DEF HostsOf, Host
<1> HIDE DEF N, T
<1>9. CASE NewIds(r) = N \ {i} /\ TriedIds(r) = T \cup {i}
  <2>1. HostsOf(a, T \cup {i}) = HostsOf(a, T) \cup {Host(a, i)}
    BY HostsPlus
  <2>2. HostsOf(r, TriedIds(r)) = (HostsOf(a, T) \ {}) \cup {Host(a, i)}
    BY <1>6, <1>9, <2>1
  <2>3. HostsOf(r, NewIds(r)) = (HostsOf(a, N) \ {Host(a, i)}) \cup {}
    BY <1>5, <1>7, <1>9
  <2>4. {} \in Book!AtMostOne(HostsOf(a, T))
    BY NoneOf
  <2> QED BY <1>8, <2>2, <2>3, <2>4 DEF Reaches, N, T
<1>10. ASSUME NEW old, old \in T, NewIds(r) = (N \ {i}) \cup {old}, TriedIds(r) = (T \ {old}) \cup {i}
       PROVE  Reaches(Host(a, i), HostsOf(a, N), HostsOf(r, NewIds(r)), HostsOf(a, T), HostsOf(r, TriedIds(r)))
  <2>1. old \in DOMAIN a.mapInfo
    BY <1>0, <1>10
  <2>2. HostsOf(a, T \ {old}) = HostsOf(a, T) \ {Host(a, old)}
    BY <1>0, <2>1, HostsMinus
  <2>3. HostsOf(a, (T \ {old}) \cup {i}) = HostsOf(a, T \ {old}) \cup {Host(a, i)}
    BY HostsPlus
  <2>4. HostsOf(a, (N \ {i}) \cup {old}) = HostsOf(a, N \ {i}) \cup {Host(a, old)}
    BY HostsPlus
  <2>5. HostsOf(r, TriedIds(r)) = (HostsOf(a, T) \ {Host(a, old)}) \cup {Host(a, i)}
    BY <1>6, <1>10, <2>2, <2>3
  <2>6. HostsOf(r, NewIds(r)) = (HostsOf(a, N) \ {Host(a, i)}) \cup {Host(a, old)}
    BY <1>5, <1>7, <1>10, <2>4
  <2>7. Host(a, old) \in HostsOf(a, T)
    BY <1>10 DEF HostsOf, Host
  <2>8. {Host(a, old)} \in Book!AtMostOne(HostsOf(a, T))
    BY <2>7, NoneOrOne
  <2> QED BY <1>8, <2>5, <2>6, <2>8 DEF Reaches
<1> QED BY <1>1, <1>9, <1>10 DEF N, T


\* What a method does to the book, in terms of AddrBook.
LEMMA BookStep ==
    ASSUME AInv(am, None), [AddrNext]_am
    PROVE  [Book!BookNext]_(Book!book)
<1> DEFINE n1 == HostsOf(am, NewIds(am))
           t1 == HostsOf(am, TriedIds(am))
           n2 == HostsOf(am', NewIds(am'))
           t2 == HostsOf(am', TriedIds(am'))
<1>1. ASSUME SameBook(am', am) PROVE [Book!BookNext]_(Book!book)
  <2>1. Book!book' = Book!book
    BY <1>1 DEF SameBook, Book!book, HostsOf, NewIds, TriedIds
  <2> QED BY <2>1
<1>2. ASSUME NEW h \in IPs, Learns(h, n1, n2, t1, t2), Fitting(am') PROVE [Book!BookNext]_(Book!book)
  <2>1. Book!Learn(h)
    BY <1>2, BookCounts DEF Learns, Fitting, Book!Learn
  <2> QED BY <2>1 DEF Book!BookNext
<1>3. ASSUME NEW h \in IPs, Hears(h, n1, n2, t1, t2) PROVE [Book!BookNext]_(Book!book)
  <2>1. Book!HearAgain(h)
    BY <1>3 DEF Hears, Book!HearAgain
  <2> QED BY <2>1 DEF Book!BookNext
<1>4. ASSUME NEW h \in IPs, Reaches(h, n1, n2, t1, t2), Fitting(am') PROVE [Book!BookNext]_(Book!book)
  <2>1. Book!Reach(h)
    BY <1>4, BookCounts DEF Reaches, Fitting, Book!Reach
  <2> QED BY <2>1 DEF Book!BookNext
<1>5. \A id \in DOMAIN am.mapInfo : Host(am, id) \in IPs
  BY AddrAssumption DEF AInv, AddrTypeOK, Info, Host
<1>6. ASSUME NEW s \in Services, NEW src \in Sources, AddNew(s, src) PROVE [Book!BookNext]_(Book!book)
  <2>1. AInv(am', None) /\ Learnt(am', am, s)
    BY <1>6, AddNewInv
  <2>2. Learns(IP[s], n1, n2, t1, t2)
    BY <2>1, LearntBook
  <2>3. Fitting(am')
    BY <2>1, BucketsFit
  <2>4. IP[s] \in IPs
    BY AddrAssumption
  <2> QED BY <1>2, <2>2, <2>3, <2>4
<1>7. ASSUME NEW s \in Services, NEW src \in Sources, AddAgain(s, src) PROVE [Book!BookNext]_(Book!book)
  <2>1. PICK id \in NewIds(am) : Less(am', am, id)
    BY <1>7, AddAgainInv
  <2>2. SameBook(am', am) \/ Hears(Host(am, id), n1, n2, t1, t2)
    BY <2>1, LessBook
  <2>3. Host(am, id) \in IPs
    BY <1>5 DEF NewIds
  <2> QED BY <1>1, <1>3, <2>2, <2>3
<1>8. ASSUME NEW s \in Services, NEW nTime \in 1 .. MaxTime, Good(s, nTime) PROVE [Book!BookNext]_(Book!book)
  <2>1. PICK id \in DOMAIN am.mapInfo : GoodStep(am', am, id)
    BY <1>8, GoodInv
  <2>2. AInv(am', None)
    BY <1>8, GoodInv
  <2>3. CASE Alike(am', am) /\ NewIds(am') = NewIds(am) /\ TriedIds(am') = TriedIds(am)
    <3>1. \A j \in DOMAIN am.mapInfo : am'.mapInfo[j].addr = am.mapInfo[j].addr
      BY <2>3 DEF Alike, Like
    <3>2. NewIds(am) \subseteq DOMAIN am.mapInfo /\ TriedIds(am) \subseteq DOMAIN am.mapInfo
      BY DEF NewIds, TriedIds
    <3>3. SameBook(am', am)
      BY <2>3, <3>1, <3>2 DEF SameBook, HostsOf
    <3> QED BY <1>1, <3>3
  <2>4. CASE id \in NewIds(am) /\ Reached(am', am, id)
    <3>1. Reaches(Host(am, id), n1, n2, t1, t2)
      BY <2>4, ReachedBook
    <3>2. Fitting(am')
      BY <2>2, BucketsFit
    <3>3. Host(am, id) \in IPs
      BY <1>5
    <3> QED BY <1>4, <3>1, <3>2, <3>3
  <2> QED BY <2>1, <2>3, <2>4 DEF GoodStep
<1>9. CASE GetAddr
  <2>1. Kept(am', am)
    BY <1>9, GetAddrInv
  <2>2. NewIds(am') = NewIds(am) /\ TriedIds(am') = TriedIds(am)
    BY <2>1, KeptIds
  <2>3. \A j \in DOMAIN am.mapInfo : am'.mapInfo[j].addr = am.mapInfo[j].addr
    BY <2>1 DEF Kept, Same
  <2>4. NewIds(am) \subseteq DOMAIN am.mapInfo /\ TriedIds(am) \subseteq DOMAIN am.mapInfo
    BY DEF NewIds, TriedIds
  <2>5. SameBook(am', am)
    BY <2>2, <2>3, <2>4 DEF SameBook, HostsOf
  <2> QED BY <1>1, <2>5
<1>10. CASE Restart
  <2>1. am' = Unserialize(Serialize(am))
    BY <1>10 DEF Restart
  <2>2. SameBook(am', am)
    BY <2>1, ReloadInv
  <2> QED BY <1>1, <2>2
<1>11. CASE am' = am
  <2>1. SameBook(am', am)
    BY <1>11 DEF SameBook
  <2> QED BY <1>1, <2>1
<1> QED BY <1>6, <1>7, <1>8, <1>9, <1>10, <1>11 DEF AddrNext

\* The manager keeps the book of AddrBook: an Add loses at most one host, which was
\* only heard of; a Good costs no host at all; GetAddr and a start from peers.dat
\* change nothing; and the buckets bound the book.
THEOREM AddrImplementsBook ==
    AddrSpec => ImplementsBook
<1>1. AddrInit => Book!BookInit
  BY DEF AddrInit, Empty, Book!BookInit, HostsOf, NewIds, TriedIds
<1>2. AInv(am, None) /\ [AddrNext]_am => [Book!BookNext]_(Book!book)
  BY BookStep
<1> QED BY <1>1, <1>2, AddrInvariant, PTL DEF AddrSpec, ImplementsBook, Book!BookSpec
=============================================================================

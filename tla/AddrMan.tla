------------------------------ MODULE AddrMan -------------------------------
(***************************************************************************)
(* The address manager (addrman.h, addrman.cpp): the addresses a node has  *)
(* heard of, in "new" and "tried" buckets of limited size, with the        *)
(* indexes that have to agree with them, and the file peers.dat they are   *)
(* dumped to and loaded from.  Every method holds the lock cs, so one      *)
(* action is one method.                                                   *)
(*                                                                         *)
(* nTime, nLastTry and nAttempts only say which entry of a full bucket is  *)
(* given up and whether Add_ has heard anything new; both are left open.   *)
(***************************************************************************)
EXTENDS Integers, FiniteSets, SequencesExt

CONSTANTS
    IPs,                \* network addresses (CNetAddr), the keys of mapAddr
    Services, IP,       \* addresses with a port (CService), all of them routable
    Sources,            \* who tells us
    GetNewBucket,       \* <<ip, source>> -> new bucket: a hash of both groups
    GetTriedBucket,     \* service -> tried bucket: a hash of the address
    None,
    NEW_BUCKET_COUNT, NEW_BUCKET_SIZE, NEW_BUCKETS_PER_ADDRESS,
    TRIED_BUCKET_COUNT, TRIED_BUCKET_SIZE, TRIED_ENTRIES_INSPECT_ON_EVICT,
    GETADDR_MAX_PCT, GETADDR_MAX,
    MaxIds, MaxTime     \* bounds of the model: ids given out since a start, adjusted time

NewBuckets   == 0 .. NEW_BUCKET_COUNT - 1
TriedBuckets == 0 .. TRIED_BUCKET_COUNT - 1

ASSUME AddrAssumption ==
    /\ IP \in [Services -> IPs]
    /\ GetNewBucket \in [IPs \X Sources -> NewBuckets]
    /\ GetTriedBucket \in [Services -> TriedBuckets]
    /\ {NEW_BUCKET_COUNT, NEW_BUCKET_SIZE, NEW_BUCKETS_PER_ADDRESS, TRIED_BUCKET_COUNT,
        TRIED_BUCKET_SIZE, TRIED_ENTRIES_INSPECT_ON_EVICT} \subseteq Nat \ {0}
    /\ GETADDR_MAX_PCT \in 0 .. 100 /\ GETADDR_MAX \in Nat
    /\ MaxIds \in Nat /\ MaxTime \in Nat \ {0}
    /\ None \notin Nat

VARIABLE
    am                  \* the CAddrMan, fields as in the code; positions count from 1

Info == [addr : Services, source : Sources, nLastSuccess : 0 .. MaxTime,
         nRefCount : Int, fInTried : BOOLEAN, nRandomPos : Nat]

Empty == [nIdCount |-> 0,
          mapInfo  |-> [id \in {} |-> None],
          mapAddr  |-> [ip \in {} |-> None],
          vRandom  |-> << >>,
          vvTried  |-> [k \in TriedBuckets |-> << >>],
          vvNew    |-> [b \in NewBuckets |-> {}],
          nTried   |-> 0,
          nNew     |-> 0]

With(f, k, v) == [x \in DOMAIN f \cup {k} |-> IF x = k THEN v ELSE f[x]]
Without(f, k) == Restrict(f, DOMAIN f \ {k})

\* The elements of a finite set of numbers, in the order of a std::map or std::set.
Ascending(S) ==
    CHOOSE s \in [1 .. Cardinality(S) -> S] :
        \A i, j \in 1 .. Cardinality(S) : i < j => s[i] < s[j]

-----------------------------------------------------------------------------
(* Entries.                                                                *)

TriedIds(a) == {id \in DOMAIN a.mapInfo : a.mapInfo[id].fInTried}
NewIds(a)   == DOMAIN a.mapInfo \ TriedIds(a)

NewBucketsOf(a, id) == {b \in NewBuckets : id \in a.vvNew[b]}

\* The entry that Find returns for s.
Found(s, id) == IP[s] \in DOMAIN am.mapAddr /\ id = am.mapAddr[IP[s]] /\ id \in DOMAIN am.mapInfo

\* Create, and the nNew++ of its caller.
Create(a, s, src) ==
    LET id == a.nIdCount
    IN  [a EXCEPT !.nIdCount = id + 1,
                  !.mapInfo  = With(a.mapInfo, id, [addr |-> s, source |-> src, nLastSuccess |-> 0, nRefCount |-> 0,
                                                    fInTried |-> FALSE, nRandomPos |-> Len(a.vRandom) + 1]),
                  !.mapAddr  = With(a.mapAddr, IP[s], id),
                  !.vRandom  = Append(a.vRandom, id),
                  !.nNew     = a.nNew + 1]

SwapRandom(a, p, q) ==
    LET id1 == a.vRandom[p]
        id2 == a.vRandom[q]
    IN  [a EXCEPT !.mapInfo = [@ EXCEPT ![id1].nRandomPos = q, ![id2].nRandomPos = p],
                  !.vRandom = [@ EXCEPT ![p] = id2, ![q] = id1]]

\* A bucket gives up id; the entry goes with its last reference.
Unref(a, id) ==
    LET info == a.mapInfo[id]
        last == SwapRandom(a, info.nRandomPos, Len(a.vRandom))
    IN  IF info.nRefCount # 1 THEN [a EXCEPT !.mapInfo[id].nRefCount = info.nRefCount - 1]
        ELSE [last EXCEPT !.vRandom = Front(last.vRandom),
                          !.mapAddr = Without(last.mapAddr, IP[info.addr]),
                          !.mapInfo = Without(last.mapInfo, id),
                          !.nNew    = a.nNew - 1]

\* The possible results of ShrinkNew: a terrible entry goes, or the oldest of four.
ShrinkNew(a, b) ==
    {[Unref(a, id) EXCEPT !.vvNew[b] = @ \ {id}] : id \in a.vvNew[b]}

\* The last part of Add_: id enters bucket b.
Enter(a, id, b) ==
    LET counted == [a EXCEPT !.mapInfo[id].nRefCount = @ + 1]
        full    == Cardinality(a.vvNew[b]) = NEW_BUCKET_SIZE
    IN  IF id \in a.vvNew[b] THEN {a}
        ELSE {[r EXCEPT !.vvNew[b] = @ \cup {id}] : r \in IF full THEN ShrinkNew(counted, b) ELSE {counted}}

-----------------------------------------------------------------------------
(* From new to tried.                                                      *)

\* The loop of SelectTried, which swaps the i-th element with the one at nPos[i],
\* after 0 .. n rounds: the bucket, and the element to evict with its position.
Shuffled(a, vTried, n, nPos) ==
    LET Success(id) == a.mapInfo[id].nLastSuccess
        upTo[i \in 0 .. n] ==
            IF i = 0 THEN [vTried |-> vTried, nOldest |-> None, nOldestPos |-> 0]
            ELSE LET r     == upTo[i - 1]
                     nTemp == r.vTried[nPos[i]]
                     older == r.nOldest = None \/ Success(nTemp) < Success(r.nOldest)
                 IN  [vTried     |-> [r.vTried EXCEPT ![nPos[i]] = r.vTried[i], ![i] = nTemp],
                      nOldest    |-> IF older THEN nTemp ELSE r.nOldest,
                      nOldestPos |-> IF older THEN nPos[i] ELSE r.nOldestPos]
    IN  upTo

\* The possible results of SelectTried: the first few elements are shuffled, each
\* with any later one.
SelectTried(a, k) ==
    LET vTried == a.vvTried[k]
        n      == Min({TRIED_ENTRIES_INSPECT_ON_EVICT, Len(vTried)})
    IN  {Shuffled(a, vTried, n, nPos)[n] :
            nPos \in {f \in [1 .. n -> 1 .. Len(vTried)] : \A i \in 1 .. n : f[i] >= i}}

\* Mutant: the evicted entry goes to its own new bucket, full or not.
BackToNewAnyway(a, nOrigin, id) == GetNewBucket[<<IP[a.mapInfo[id].addr], a.mapInfo[id].source>>]

\* The new bucket an evicted entry goes back to: its own, or the one its
\* successor came from.
BackToNew(a, nOrigin, id) ==
    LET nUBucket == GetNewBucket[<<IP[a.mapInfo[id].addr], a.mapInfo[id].source>>]
    IN  IF Cardinality(a.vvNew[nUBucket]) < NEW_BUCKET_SIZE THEN nUBucket ELSE nOrigin

\* Mutant: an entry whose own new bucket is full is dropped.
ReplaceDrops(a, k, sel, id, nOrigin) ==
    LET old == sel.vTried[sel.nOldestPos]
        in  == [a EXCEPT !.vvTried[k] = [sel.vTried EXCEPT ![sel.nOldestPos] = id], !.mapInfo[id].fInTried = TRUE]
        own == GetNewBucket[<<IP[a.mapInfo[old].addr], a.mapInfo[old].source>>]
        last == SwapRandom(in, in.mapInfo[old].nRandomPos, Len(in.vRandom))
    IN  IF Cardinality(a.vvNew[own]) < NEW_BUCKET_SIZE
        THEN [in EXCEPT !.mapInfo[old].fInTried = FALSE, !.mapInfo[old].nRefCount = 1,
                        !.vvNew[own] = @ \cup {old}, !.nNew = @ + 1]
        ELSE [last EXCEPT !.vRandom = Front(last.vRandom),
                          !.mapAddr = Without(last.mapAddr, IP[last.mapInfo[old].addr]),
                          !.mapInfo = Without(last.mapInfo, old)]

\* Mutant: the reference of an evicted entry is not counted.
ReplaceUncounted(a, k, sel, id, nOrigin) ==
    LET old == sel.vTried[sel.nOldestPos]
    IN  [a EXCEPT !.mapInfo[old].fInTried = FALSE,
                  !.vvNew[BackToNew(a, nOrigin, old)] = @ \cup {old},
                  !.nNew = @ + 1,
                  !.vvTried[k] = [sel.vTried EXCEPT ![sel.nOldestPos] = id],
                  !.mapInfo[id].fInTried = TRUE]

\* id takes the place of the selected entry of tried bucket k.
Replace(a, k, sel, id, nOrigin) ==
    LET old == sel.vTried[sel.nOldestPos]
    IN  [a EXCEPT !.mapInfo[old].fInTried = FALSE, !.mapInfo[old].nRefCount = 1,
                  !.vvNew[BackToNew(a, nOrigin, old)] = @ \cup {old},
                  !.nNew = @ + 1,
                  !.vvTried[k] = [sel.vTried EXCEPT ![sel.nOldestPos] = id],
                  !.mapInfo[id].fInTried = TRUE]

\* The possible results of MakeTried.
MakeTried(a, id, nOrigin) ==
    LET out  == [a EXCEPT !.vvNew = [b \in NewBuckets |-> a.vvNew[b] \ {id}],
                          !.mapInfo[id].nRefCount = @ - Cardinality(NewBucketsOf(a, id)),
                          !.nNew = @ - 1]
        k    == GetTriedBucket[a.mapInfo[id].addr]
    IN  IF Len(out.vvTried[k]) < TRIED_BUCKET_SIZE
        THEN {[out EXCEPT !.vvTried[k] = Append(@, id), !.nTried = @ + 1, !.mapInfo[id].fInTried = TRUE]}
        ELSE {Replace(out, k, sel, id, nOrigin) : sel \in SelectTried(out, k)}

-----------------------------------------------------------------------------
(* peers.dat.                                                              *)

Stored(info) == [addr |-> info.addr, source |-> info.source, nLastSuccess |-> info.nLastSuccess]

\* Mutant: tried entries are numbered too.
SerializeAllIds(a) ==
    LET news     == {id \in DOMAIN a.mapInfo : a.mapInfo[id].nRefCount # 0}
        index(id) == LET n == Cardinality({i \in DOMAIN a.mapInfo : i < id}) IN IF n < a.nNew THEN n ELSE 0
        infos(s, n) == [i \in 1 .. Min({n, Len(s)}) |-> Stored(a.mapInfo[s[i]])]
    IN  [vNew   |-> infos(Ascending(news), a.nNew),
         vTried |-> infos(Ascending(TriedIds(a)), a.nTried),
         vvNew  |-> [b \in NewBuckets |-> {index(id) : id \in a.vvNew[b]}]]

\* The new entries in the order of their ids, then the tried ones, then the new
\* buckets as sets of indexes into the first list.
Serialize(a) ==
    LET news     == {id \in DOMAIN a.mapInfo : a.mapInfo[id].nRefCount # 0}
        index(id) == LET n == Cardinality({i \in news : i < id}) IN IF n < a.nNew THEN n ELSE 0
        infos(s, n) == [i \in 1 .. Min({n, Len(s)}) |-> Stored(a.mapInfo[s[i]])]
    IN  [vNew   |-> infos(Ascending(news), a.nNew),
         vTried |-> infos(Ascending(TriedIds(a)), a.nTried),
         vvNew  |-> [b \in NewBuckets |-> {index(id) : id \in a.vvNew[b]}]]

\* What is read back: the tried entries for which their bucket has room, the new
\* ones in at most NEW_BUCKETS_PER_ADDRESS buckets.
Unserialize(file) ==
    LET nNew   == Len(file.vNew)
        Bucket(n) == GetTriedBucket[file.vTried[n].addr]
        Before(n, S) == {m \in S : m < n /\ Bucket(m) = Bucket(n)}
        kept   == {n \in DOMAIN file.vTried : Cardinality(Before(n, DOMAIN file.vTried)) < TRIED_BUCKET_SIZE}
        tried  == Ascending(kept)
        nIds   == nNew + Len(tried)
        Item(id) == IF id < nNew THEN file.vNew[id + 1] ELSE file.vTried[tried[id - nNew + 1]]
        InNew(id, b) == id \in file.vvNew[b]
                        /\ Cardinality({c \in 0 .. b - 1 : id \in file.vvNew[c]}) < NEW_BUCKETS_PER_ADDRESS
        ipOf(id) == IP[Item(id).addr]
    IN  [nIdCount |-> nIds,
         mapInfo  |-> [id \in 0 .. nIds - 1 |->
                         [addr |-> Item(id).addr, source |-> Item(id).source, nLastSuccess |-> Item(id).nLastSuccess,
                          nRefCount |-> Cardinality({b \in NewBuckets : InNew(id, b)}),
                          fInTried |-> id >= nNew, nRandomPos |-> id + 1]],
         mapAddr  |-> [ip \in {ipOf(id) : id \in 0 .. nIds - 1} |->
                         Max({id \in 0 .. nIds - 1 : ipOf(id) = ip})],
         vRandom  |-> [p \in 1 .. nIds |-> p - 1],
         vvTried  |-> [k \in TriedBuckets |->
                         Ascending({id \in nNew .. nIds - 1 : GetTriedBucket[Item(id).addr] = k})],
         vvNew    |-> [b \in NewBuckets |-> {id \in 0 .. nIds - 1 : InNew(id, b)}],
         nTried   |-> Len(tried),
         nNew     |-> nNew]

\* The tables without ids and orders.
View(a) ==
    [new   |-> {<<Stored(a.mapInfo[id]), NewBucketsOf(a, id)>> : id \in NewIds(a)},
     tried |-> {<<Stored(a.mapInfo[id]), {k \in TriedBuckets : id \in ToSet(a.vvTried[k])}>> : id \in TriedIds(a)}]

-----------------------------------------------------------------------------
(* Methods.                                                                *)

\* Add_ of an unknown address.
AddNew(s, src) ==
    /\ ~\E id \in DOMAIN am.mapInfo : Found(s, id)
    /\ am.nIdCount < MaxIds
    /\ am' \in Enter(Create(am, s, src), am.nIdCount, GetNewBucket[<<IP[s], src>>])

\* Add_ of a known one: if there is news, and by chance, it gets another bucket.
AddAgain(s, src) ==
    \E id \in DOMAIN am.mapInfo :
        /\ Found(s, id)
        /\ ~am.mapInfo[id].fInTried
        /\ am.mapInfo[id].nRefCount # NEW_BUCKETS_PER_ADDRESS
        /\ am' \in Enter(am, id, GetNewBucket[<<IP[s], src>>])

\* Good_: an entry for s, with this port, moves to tried.  Adjusted time may go back.
Good(s, nTime) ==
    \E id \in DOMAIN am.mapInfo :
        LET a       == [am EXCEPT !.mapInfo[id].nLastSuccess = nTime]
            origins == NewBucketsOf(am, id)
        IN  /\ Found(s, id)
            /\ am.mapInfo[id].addr = s
            /\ am' \in IF am.mapInfo[id].fInTried \/ origins = {} THEN {a}
                       ELSE UNION {MakeTried(a, id, nOrigin) : nOrigin \in origins}

\* The loop of GetAddr_, after 0 .. n rounds.
Swapped(a, n, nRndPos) ==
    LET upTo[i \in 0 .. n] == IF i = 0 THEN a ELSE SwapRandom(upTo[i - 1], i, nRndPos[i])
    IN  upTo

\* GetAddr_: the first few of vRandom are shuffled.
GetAddr ==
    LET nSize  == Len(am.vRandom)
        nNodes == Min({(GETADDR_MAX_PCT * nSize) \div 100, GETADDR_MAX})
    IN  \E nRndPos \in [1 .. nNodes -> 1 .. nSize] :
            /\ \A n \in 1 .. nNodes : nRndPos[n] >= n
            /\ am' = Swapped(am, nNodes, nRndPos)[nNodes]

\* The process dumps the tables, ends, and the next one reads peers.dat.  A crash
\* starts from an older file.  The tables it reads are those of a restart right
\* after that dump, so the invariants hold of them too; but the step from the
\* tables before the crash is not one of this model, and not one of AddrBook.
Restart == am' = Unserialize(Serialize(am))

AddrInit == am = Empty

AddrNext ==
    \/ \E s \in Services, src \in Sources : AddNew(s, src) \/ AddAgain(s, src)
    \/ \E s \in Services, nTime \in 1 .. MaxTime : Good(s, nTime)
    \/ GetAddr
    \/ Restart

AddrSpec == AddrInit /\ [][AddrNext]_am

-----------------------------------------------------------------------------
(* Properties.  The first three are what Check_ tests under DEBUG_ADDRMAN, *)
(* and a little more.                                                      *)

\* Types of the state.
AddrTypeOK(a) ==
    /\ DOMAIN a.mapInfo \subseteq 0 .. a.nIdCount - 1 /\ a.nIdCount \in Nat
    /\ a.mapInfo \in [DOMAIN a.mapInfo -> Info]
    /\ a.mapAddr \in [DOMAIN a.mapAddr -> Nat] /\ DOMAIN a.mapAddr \subseteq IPs
    /\ a.vRandom \in Seq(Nat)
    /\ a.vvTried \in [TriedBuckets -> Seq(Nat)]
    /\ a.vvNew \in [NewBuckets -> SUBSET Nat]
    /\ {a.nTried, a.nNew} \subseteq Nat

\* Find and vRandom know exactly the entries, each once, through every swap,
\* eviction and reload (Check_ codes -5, -7 and -14): what Select_, GetAddr_ and
\* size() rely on.
RandomOK(a) ==
    /\ Len(a.vRandom) = Cardinality(DOMAIN a.mapInfo)
    /\ \A id \in DOMAIN a.mapInfo :
          /\ a.mapInfo[id].nRandomPos \in DOMAIN a.vRandom /\ a.vRandom[a.mapInfo[id].nRandomPos] = id
          /\ IP[a.mapInfo[id].addr] \in DOMAIN a.mapAddr /\ a.mapAddr[IP[a.mapInfo[id].addr]] = id
    /\ \A ip \in DOMAIN a.mapAddr : a.mapAddr[ip] \in DOMAIN a.mapInfo

\* An entry that is not tried is in as many new buckets as nRefCount says, at
\* least one and at most NEW_BUCKETS_PER_ADDRESS; nNew counts these entries, and the new
\* buckets hold nothing else (Check_ codes -3, -4, -10, -12 and -15).
RefCountsOK(a) ==
    /\ \A id \in NewIds(a) :
          /\ a.mapInfo[id].nRefCount = Cardinality(NewBucketsOf(a, id))
          /\ a.mapInfo[id].nRefCount \in 1 .. NEW_BUCKETS_PER_ADDRESS
    /\ \A b \in NewBuckets : a.vvNew[b] \subseteq NewIds(a)
    /\ a.nNew = Cardinality(NewIds(a))

\* A tried entry is in the tried bucket of its address, once, and nowhere else; it
\* was reached at some time; nTried counts these entries, so that Select_ finds one in
\* a bucket whenever it looks for one (Check_ codes -1, -2, -9, -11 and -13).
TriedOK(a) ==
    /\ \A id \in TriedIds(a) : a.mapInfo[id].nRefCount = 0 /\ a.mapInfo[id].nLastSuccess # 0
    /\ \A k \in TriedBuckets :
          /\ ToSet(a.vvTried[k]) = {id \in TriedIds(a) : GetTriedBucket[a.mapInfo[id].addr] = k}
          /\ Len(a.vvTried[k]) = Cardinality(ToSet(a.vvTried[k]))
    /\ a.nTried = Cardinality(TriedIds(a))

\* What CAddrMan::Check_ tests after every call when it is compiled with
\* DEBUG_ADDRMAN, and more: the three indexes and the two counters agree.
CheckOK == AddrTypeOK(am) /\ RandomOK(am) /\ RefCountsOK(am) /\ TriedOK(am)

Bounded(a) ==
    /\ \A b \in NewBuckets : Cardinality(a.vvNew[b]) <= NEW_BUCKET_SIZE
    /\ \A k \in TriedBuckets : Len(a.vvTried[k]) <= TRIED_BUCKET_SIZE

\* No bucket is ever over its limit: "there is certainly place there", as
\* MakeTried says of the bucket an evicted entry falls back to.
BucketsBounded == Bounded(am)

\* What the next start reads from peers.dat is what DumpAddresses wrote, whatever
\* the tables are, although ids are given out anew and the tried buckets are rebuilt.
FileOK == View(Unserialize(Serialize(am))) = View(am)

HostsOf(a, ids) == {IP[a.mapInfo[id].addr] : id \in ids}

Book == INSTANCE AddrBook WITH
            Hosts <- IPs,
            NewCapacity <- NEW_BUCKET_COUNT * NEW_BUCKET_SIZE,
            TriedCapacity <- TRIED_BUCKET_COUNT * TRIED_BUCKET_SIZE,
            new <- HostsOf(am, NewIds(am)),
            tried <- HostsOf(am, TriedIds(am))

\* With all its buckets, reference counts and evictions the manager keeps the
\* book that AddrBook describes: no method loses a host that was reached, none
\* loses more than one host, and dumping and loading peers.dat loses nothing.  (A
\* crash, which forgets what came after the last dump, is left out: see Restart.)
ImplementsBook == Book!BookSpec
=============================================================================

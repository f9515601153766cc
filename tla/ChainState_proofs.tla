------------------------- MODULE ChainState_proofs -------------------------
(***************************************************************************)
(* Theorems about ChainState for every tree of blocks, every assignment of *)
(* transactions to them and every number of crashes.  What the transaction *)
(* index, the forward links and the two tips describe is proved for chains *)
(* in which no output is worth nothing, as long as no postponed block has  *)
(* failed to connect.                                                      *)
(***************************************************************************)
EXTENDS ChainState, TLAPS, WellFoundedInduction

-----------------------------------------------------------------------------
(* The tree of blocks.  Induction over it is the least-element principle   *)
(* applied to heights.                                                     *)

\* A non-empty set of naturals has a least element.
LEMMA LeastNat ==
    ASSUME NEW T \in SUBSET Nat, T # {}
    PROVE  \E n \in T : \A k \in T : n <= k
<1> DEFINE R == OpToRel(<, Nat)
<1>1. IsWellFoundedOn(R, Nat)
  BY NatLessThanWellFounded
<1>2. \A i, j \in Nat : j < i => <<j, i>> \in R
  BY DEF OpToRel
<1> HIDE DEF R
<1>3. PICK n \in T : \A k \in T : ~(<<k, n>> \in R)
  BY <1>1, WFMin
<1>4. \A k \in T : ~(k < n)
  BY <1>2, <1>3
<1> QED BY <1>4

\* A set with the genesis block and, with a block's parent, the block itself,
\* is the set of all blocks.
LEMMA TreeInduction ==
    ASSUME NEW S \in SUBSET Blocks, Genesis \in S,
           \A b \in Blocks \ {Genesis} : Prev[b] \in S => b \in S
    PROVE  S = Blocks
<1> DEFINE H == {nHeight[b] : b \in Blocks \ S}
<1> SUFFICES ASSUME Blocks \ S # {} PROVE FALSE
  OBVIOUS
<1>1. H \in SUBSET Nat /\ H # {}
  BY TreeAssumption
<1>2. PICK b \in Blocks \ S : \A c \in Blocks \ S : nHeight[b] <= nHeight[c]
  <2> HIDE DEF H
  <2>1. PICK n \in H : \A k \in H : n <= k
    BY <1>1, LeastNat
  <2> QED BY <2>1 DEF H
<1>3. Prev[b] \in Blocks \ S /\ nHeight[b] = nHeight[Prev[b]] + 1
  BY TreeAssumption
<1> QED BY <1>2, <1>3, TreeAssumption

\* Every block is among its ancestors, and so is the genesis block.
LEMMA AncSelf == \A b \in Blocks : b \in Anc[b] /\ Genesis \in Anc[b] /\ Anc[b] \subseteq Blocks
<1> DEFINE S == {b \in Blocks : b \in Anc[b] /\ Genesis \in Anc[b]}
<1>1. Genesis \in S /\ \A b \in Blocks \ {Genesis} : Prev[b] \in S => b \in S
  BY TreeAssumption
<1>2. S = Blocks
  <2> HIDE DEF S
  <2>1. S \in SUBSET Blocks
    BY DEF S
  <2> QED BY <1>1, <2>1, TreeInduction
<1> QED BY <1>2, TreeAssumption

\* An ancestor's ancestors are ancestors, and a proper ancestor is lower and
\* has less trust.
LEMMA AncClosed ==
    \A b \in Blocks : \A c \in Anc[b] :
        /\ c \in Blocks
        /\ Anc[c] \subseteq Anc[b]
        /\ c # b => nHeight[c] < nHeight[b] /\ nChainTrust[c] < nChainTrust[b]
        /\ c # Genesis => Prev[c] \in Anc[b]
<1> DEFINE S == {b \in Blocks : \A c \in Anc[b] :
                    /\ Anc[c] \subseteq Anc[b]
                    /\ c # b => nHeight[c] < nHeight[b] /\ nChainTrust[c] < nChainTrust[b]}
<1>1. Genesis \in S
  BY TreeAssumption
<1>2. ASSUME NEW b \in Blocks \ {Genesis}, Prev[b] \in S PROVE b \in S
  <2>1. Anc[b] = Anc[Prev[b]] \cup {b} /\ Prev[b] \in Blocks
    BY TreeAssumption
  <2>2. ASSUME NEW c \in Anc[b] PROVE Anc[c] \subseteq Anc[b]
    BY <1>2, <2>1
  <2>3. ASSUME NEW c \in Anc[b], c # b
        PROVE  nHeight[c] < nHeight[b] /\ nChainTrust[c] < nChainTrust[b]
    <3>1. c \in Anc[Prev[b]] /\ c \in Blocks
      BY <2>1, <2>3, TreeAssumption
    <3>2. nHeight[c] <= nHeight[Prev[b]] /\ nChainTrust[c] <= nChainTrust[Prev[b]]
      BY <1>2, <3>1, TreeAssumption
    <3> QED BY <3>1, <3>2, <2>1, TreeAssumption
  <2> QED BY <2>2, <2>3
<1>3. S = Blocks
  <2> HIDE DEF S
  <2>1. S \in SUBSET Blocks
    BY DEF S
  <2> QED BY <1>1, <1>2, <2>1, TreeInduction
<1>4. \A b \in Blocks : \A c \in Anc[b] : c \in Blocks /\ (c # Genesis => Prev[c] \in Anc[b])
  <2> SUFFICES ASSUME NEW b \in Blocks, NEW c \in Anc[b]
               PROVE  c \in Blocks /\ (c # Genesis => Prev[c] \in Anc[b])
    OBVIOUS
  <2>1. c \in Blocks /\ Anc[c] \subseteq Anc[b]
    BY <1>3, TreeAssumption
  <2>2. c # Genesis => Prev[c] \in Blocks /\ Prev[c] \in Anc[c]
    BY <2>1, AncSelf, TreeAssumption
  <2> QED BY <2>1, <2>2
<1> QED BY <1>3, <1>4

\* A chain has one block per height.
LEMMA AncHeight ==
    \A b \in Blocks : \A c, e \in Anc[b] : nHeight[c] = nHeight[e] => c = e
<1> DEFINE S == {b \in Blocks : \A c, e \in Anc[b] : nHeight[c] = nHeight[e] => c = e}
<1>1. Genesis \in S
  BY TreeAssumption
<1>2. ASSUME NEW b \in Blocks \ {Genesis}, Prev[b] \in S PROVE b \in S
  <2>1. Anc[b] = Anc[Prev[b]] \cup {b} /\ b \in Anc[b]
    BY TreeAssumption
  <2>2. \A c \in Anc[b] : c # b => nHeight[c] < nHeight[b] /\ nHeight[c] \in Nat /\ nHeight[b] \in Nat
    BY AncClosed, TreeAssumption
  <2> QED BY <1>2, <2>1, <2>2
<1>3. S = Blocks
  <2> HIDE DEF S
  <2>1. S \in SUBSET Blocks
    BY DEF S
  <2> QED BY <1>1, <1>2, <2>1, TreeInduction
<1> QED BY <1>3

\* Between a block and a proper ancestor there is exactly one next block.
LEMMA Child ==
    ASSUME NEW b \in Blocks, NEW a \in Anc[b], a # b
    PROVE  /\ \E c \in Anc[b] : c # Genesis /\ Prev[c] = a
           /\ \A c, e \in Anc[b] : Prev[c] = a /\ Prev[e] = a => c = e
<1> DEFINE S == {x \in Blocks : a \in Anc[x] /\ a # x => \E c \in Anc[x] : c # Genesis /\ Prev[c] = a}
<1>1. Genesis \in S
  BY TreeAssumption
<1>2. ASSUME NEW x \in Blocks \ {Genesis}, Prev[x] \in S PROVE x \in S
  BY <1>2, AncSelf, TreeAssumption
<1>3. S = Blocks
  <2> HIDE DEF S
  <2>1. S \in SUBSET Blocks
    BY DEF S
  <2> QED BY <1>1, <1>2, <2>1, TreeInduction
<1>4. \A c, e \in Anc[b] : Prev[c] = a /\ Prev[e] = a => c = e
  <2> SUFFICES ASSUME NEW c \in Anc[b], NEW e \in Anc[b], Prev[c] = a, Prev[e] = a
               PROVE  c = e
    OBVIOUS
  <2>1. a \in Blocks /\ c \in Blocks /\ e \in Blocks
    BY AncClosed
  <2>2. c # Genesis /\ e # Genesis
    BY <2>1, TreeAssumption
  <2>3. nHeight[c] = nHeight[a] + 1 /\ nHeight[e] = nHeight[a] + 1
    BY <2>1, <2>2, TreeAssumption
  <2> QED BY <2>3, AncHeight
<1> QED BY <1>3, <1>4

\* NextTowards names that block.
LEMMA NextBlock ==
    ASSUME NEW b \in Blocks, NEW a \in Anc[b], a # b
    PROVE  LET c == NextTowards(a, b)
           IN  c \in Anc[b] /\ c \in Blocks \ {Genesis} /\ Prev[c] = a
<1>1. PICK c \in Anc[b] : c # Genesis /\ Prev[c] = a
  BY Child
<1>2. NextTowards(a, b) \in Anc[b] /\ Prev[NextTowards(a, b)] = a
  BY <1>1 DEF NextTowards
<1>3. NextTowards(a, b) \in Blocks /\ a \in Blocks
  BY <1>2, AncClosed
<1> QED BY <1>2, <1>3, TreeAssumption

\* SetBestChain finds the first block of the new branch with more trust.
LEMMA IntermediateBlock ==
    ASSUME pblock \in Blocks, pindexBest \in Blocks,
           nChainTrust[pblock] > nChainTrust[pindexBest]
    PROVE  /\ pindexIntermediate \in Anc[pblock]
           /\ pindexIntermediate \in Blocks
           /\ nChainTrust[pindexIntermediate] > nChainTrust[pindexBest]
<1> DEFINE T == {b \in Anc[pblock] : nChainTrust[b] > nChainTrust[pindexBest]}
           H == {nHeight[b] : b \in T}
<1>1. pblock \in T /\ T \subseteq Blocks
  BY AncSelf
<1>2. H \in SUBSET Nat /\ H # {}
  BY <1>1, TreeAssumption
<1>3. PICK b \in T : \A c \in T : nHeight[b] <= nHeight[c]
  <2> HIDE DEF H
  <2>1. PICK n \in H : \A k \in H : n <= k
    BY <1>2, LeastNat
  <2> QED BY <2>1 DEF H
<1>4. b # Genesis => nChainTrust[Prev[b]] <= nChainTrust[pindexBest]
  <2> SUFFICES ASSUME b # Genesis, ~(nChainTrust[Prev[b]] <= nChainTrust[pindexBest]) PROVE FALSE
    OBVIOUS
  <2>1. b \in Blocks /\ Prev[b] \in Blocks /\ Prev[b] \in Anc[pblock]
    BY <1>1, AncClosed, TreeAssumption
  <2>2. Prev[b] \in T
    BY <2>1, TreeAssumption
  <2>3. nHeight[b] <= nHeight[Prev[b]] /\ nHeight[b] = nHeight[Prev[b]] + 1
    BY <1>3, <2>1, <2>2, TreeAssumption
  <2> QED BY <2>1, <2>3, TreeAssumption
<1>5. pindexIntermediate \in T
  BY <1>3, <1>4 DEF pindexIntermediate
<1> QED BY <1>1, <1>5

-----------------------------------------------------------------------------
(* Types.                                                                  *)

\* A non-empty set of positions has a last one.
LEMMA LastIn ==
    ASSUME NEW n \in Nat, NEW S \in SUBSET (1 .. n), S # {}
    PROVE  LastOf(S) \in S
<1> DEFINE T == {n - i : i \in S}
<1>1. T \in SUBSET Nat /\ T # {}
  <2>1. \A i \in S : n - i \in Nat
    OBVIOUS
  <2>2. PICK i \in S : TRUE
    OBVIOUS
  <2>3. n - i \in T
    OBVIOUS
  <2> QED BY <2>1, <2>3
<1>2. PICK i \in S : \A j \in S : n - i <= n - j
  <2> HIDE DEF T
  <2>1. PICK k \in T : \A l \in T : k <= l
    BY <1>1, LeastNat
  <2> QED BY <2>1 DEF T
<1>3. \A j \in S : j <= i
  BY <1>2
<1> QED BY <1>3 DEF LastOf

\* The spenders of an outpoint in a block are transactions that spend it.
LEMMA SpenderOf ==
    ASSUME NEW b \in Blocks, NEW o \in OutPoints, Spenders(b, o) # {}
    PROVE  LET t == vtx[b][LastOf(Spenders(b, o))]
           IN  t \in Tx /\ t \in TxsOf(b) /\ o \in vin[t]
<1>1. vtx[b] \in Seq(Tx)
  BY TxAssumption
<1>2. Spenders(b, o) \in SUBSET (1 .. Len(vtx[b])) /\ Len(vtx[b]) \in Nat
  BY <1>1 DEF Spenders
<1> DEFINE i == LastOf(Spenders(b, o))
<1>3. i \in Spenders(b, o)
  BY <1>2, LastIn
<1> HIDE DEF i
<1>4. i \in DOMAIN vtx[b] /\ o \in vin[vtx[b][i]]
  BY <1>3 DEF Spenders
<1>5. vtx[b][i] \in Tx /\ vtx[b][i] \in TxsOf(b)
  BY <1>1, <1>4 DEF TxsOf
<1> QED BY <1>4, <1>5 DEF i

LEMMA ConnectInputsType ==
    ASSUME NEW d \in Database, NEW b \in Blocks
    PROVE  /\ ConnectInputs(d, b) \in Database
           /\ ConnectInputs(d, b).blockindex = d.blockindex
           /\ ConnectInputs(d, b).hashNext = d.hashNext
           /\ ConnectInputs(d, b).hashBestChain = d.hashBestChain
<1> DEFINE spent == [o \in OutPoints |->
                      CASE Spenders(b, o) # {} -> vtx[b][LastOf(Spenders(b, o))]
                        [] Spenders(b, o) = {} /\ o[1] \in TxsOf(b) -> None
                        [] OTHER -> d.vSpent[o]]
           pos == [t \in Tx |-> IF t \in TxsOf(b) THEN b ELSE d.txPos[t]]
<1>1. spent \in [OutPoints -> Tx \cup {None}]
  BY SpenderOf DEF Database
<1>2. pos \in [Tx -> Blocks \cup {None}]
  BY DEF Database
<1>3. ConnectInputs(d, b) = [d EXCEPT !.txPos = pos, !.vSpent = spent]
  BY DEF ConnectInputs, Database
<1> HIDE DEF spent, pos
<1> QED BY <1>1, <1>2, <1>3 DEF Database

LEMMA ConnectBlockType ==
    ASSUME NEW d \in Database, NEW b \in Blocks, pnext \in [Blocks -> Blocks \cup {None}]
    PROVE  /\ ConnectBlock(d, b) \in Database
           /\ ConnectBlock(d, b).blockindex = d.blockindex
<1> DEFINE e == ConnectInputs(d, b)
<1>1. e \in Database /\ e.blockindex = d.blockindex
  BY ConnectInputsType
<1>2. [e.hashNext EXCEPT ![b] = pnext[b], ![Prev[b]] = b] \in [Blocks -> Blocks \cup {None}]
  <2> HIDE DEF e
  <2> QED BY <1>1 DEF Database
<1>3. ConnectBlock(d, b) = [e EXCEPT !.hashNext = [e.hashNext EXCEPT ![b] = pnext[b], ![Prev[b]] = b]]
  BY DEF ConnectBlock
<1> HIDE DEF e
<1> QED BY <1>1, <1>2, <1>3 DEF Database

LEMMA DisconnectBlockType ==
    ASSUME NEW d \in Database, NEW b \in Blocks
    PROVE  /\ DisconnectBlock(d, b) \in Database
           /\ DisconnectBlock(d, b).blockindex = d.blockindex
BY DEF DisconnectBlock, Database

LEMMA EmptyDatabaseType == EmptyDatabase \in Database
BY TreeAssumption DEF EmptyDatabase, Database

LEMMA BestType ==
    ASSUME NEW d \in Database, NEW b \in Blocks
    PROVE  /\ WriteHashBestChain(d, b) \in Database
           /\ WriteHashBestChain(d, b).blockindex = d.blockindex
           /\ WriteHashBestChain(d, b).hashBestChain = b
           /\ WriteHashBestChain(d, b).hashNext = d.hashNext
           /\ WriteHashBestChain(d, b).txPos = d.txPos
           /\ WriteHashBestChain(d, b).vSpent = d.vSpent
BY DEF WriteHashBestChain, Database

-----------------------------------------------------------------------------
(* The block index and the control state.                                  *)

Inv == TypeOK /\ IndexOK /\ ControlOK

LEMMA InitInv == Init => Inv
<1> SUFFICES ASSUME Init PROVE Inv
  OBVIOUS
<1>1. TypeOK
  <2>1. disk \in Database /\ batch \in Database
    BY EmptyDatabaseType DEF Init, NoBatch
  <2>2. vWorkQueue \in Seq(Blocks) /\ pc \in Steps
    BY DEF Init, Steps
  <2>3. pnext \in [Blocks -> Blocks \cup {None}]
    BY DEF Init
  <2>4. postponedFailed \in BOOLEAN
    BY Zenon DEF Init
  <2>5. restarts \in 0 .. MaxRestarts
    BY TxAssumption DEF Init
  <2> QED BY <2>1, <2>2, <2>3, <2>4, <2>5, TreeAssumption DEF Init, TypeOK
<1>2. IndexOK /\ ControlOK
  BY TreeAssumption, TxAssumption DEF Init, IndexOK, ControlOK, EmptyDatabase
<1> QED BY <1>1, <1>2 DEF Inv

\* The end of AcceptBlock leaves a type-correct control state.
LEMMA ReturnOK ==
    ASSUME Inv, NEW b \in Blocks, Accepted(b) \/ Refused,
           mapBlockIndex \cup {b} \subseteq mapBlockIndex', mapBlockIndex' \subseteq Blocks
    PROVE  /\ pc' \in {"idle", "orphans"}
           /\ vWorkQueue' \in Seq(Blocks)
           /\ vWorkQueue' \in Seq(mapBlockIndex')
           /\ pc' = "orphans" => vWorkQueue' # <<>>
           /\ pc' = "idle" => vWorkQueue' = <<>>
           /\ pblock' = None /\ cursor' = None /\ batch' \in Database
<1>1. vWorkQueue \in Seq(Blocks) /\ vWorkQueue \in Seq(mapBlockIndex')
  <2>1. vWorkQueue \in Seq(Blocks) /\ vWorkQueue \in Seq(mapBlockIndex)
    BY DEF Inv, TypeOK, ControlOK
  <2> QED BY <2>1
<1>2. pblock' = None /\ cursor' = None /\ batch' \in Database
  BY EmptyDatabaseType DEF Accepted, Refused, Returned, NoBatch
<1>3. CASE Accepted(b)
  BY <1>1, <1>2, <1>3 DEF Accepted
<1>4. CASE Refused
  BY <1>1, <1>2, <1>4 DEF Refused
<1> QED BY <1>3, <1>4

\* A refusal that writes nothing keeps the invariant.
LEMMA RefusedInv ==
    ASSUME Inv, Refused, UNCHANGED <<disk, memory, postponedFailed, restarts>>,
           mapOrphanBlocks' \subseteq Blocks, setStakeSeenOrphan' \subseteq Stakes
    PROVE  Inv'
<1>1. /\ disk' = disk /\ mapBlockIndex' = mapBlockIndex /\ pnext' = pnext
      /\ pindexBest' = pindexBest /\ setStakeSeen' = setStakeSeen
      /\ postponedFailed' = postponedFailed /\ restarts' = restarts
  BY DEF memory
<1>2. Genesis \in Blocks /\ mapBlockIndex \cup {Genesis} \subseteq mapBlockIndex' /\ mapBlockIndex' \subseteq Blocks
  BY <1>1 DEF Inv, TypeOK, IndexOK
<1>3. TypeOK'
  BY <1>1, <1>2, ReturnOK DEF Inv, TypeOK, Steps
<1>4. IndexOK'
  BY <1>1 DEF Inv, IndexOK
<1>5. ControlOK'
  BY <1>1, <1>2, ReturnOK DEF ControlOK
<1> QED BY <1>3, <1>4, <1>5 DEF Inv

\* AcceptBlock keeps the invariant, for a block whose parent is indexed.
LEMMA AcceptBlockInv ==
    ASSUME Inv, NEW b \in Blocks \ {Genesis}, Prev[b] \in mapBlockIndex,
           AcceptBlock(b),
           mapOrphanBlocks' \subseteq Blocks, setStakeSeenOrphan' \subseteq Stakes
    PROVE  Inv'
<1>1. CASE PassesAcceptBlock(b) /\ AddToBlockIndex(b)
  <2> DEFINE d == [disk EXCEPT !.blockindex = @ \cup {b},
                               !.hashNext = [@ EXCEPT ![b] = None]]
  <2>1. /\ d \in Database
        /\ d.blockindex = disk.blockindex \cup {b}
        /\ d.hashBestChain = disk.hashBestChain
    BY DEF Inv, TypeOK, Database
  <2>2. disk' = d
    BY <1>1 DEF AddToBlockIndex
  <2> HIDE DEF d
  <2>3. /\ mapBlockIndex' = mapBlockIndex \cup {b}
        /\ setStakeSeen' = setStakeSeen \cup ProofsOf({b})
        /\ pnext' = pnext /\ pindexBest' = pindexBest
        /\ postponedFailed' = postponedFailed /\ restarts' = restarts
    BY <1>1 DEF AddToBlockIndex
  <2>4. setStakeSeen' \subseteq Stakes /\ mapBlockIndex' \subseteq Blocks
    BY <2>3, TxAssumption DEF ProofsOf, Inv, TypeOK
  <2>5. IndexOK'
    BY <1>1, <2>1, <2>2, <2>3 DEF Inv, IndexOK, PassesAcceptBlock
  <2>6. CASE nChainTrust[b] > nChainTrust[pindexBest] /\ pc' = "setbest" /\ pblock' = b
             /\ UNCHANGED <<batch, cursor, vWorkQueue>>
    <3>1. vWorkQueue' \in Seq(Blocks) /\ vWorkQueue' \in Seq(mapBlockIndex')
      <4>1. vWorkQueue \in Seq(Blocks) /\ vWorkQueue \in Seq(mapBlockIndex)
        BY DEF Inv, TypeOK, ControlOK
      <4> QED BY <2>3, <2>6, <4>1
    <3>2. TypeOK'
      BY <2>1, <2>2, <2>3, <2>4, <2>6, <3>1 DEF Inv, TypeOK, Steps
    <3>3. ControlOK'
      BY <2>3, <2>6, <3>1 DEF ControlOK
    <3> QED BY <2>5, <3>2, <3>3 DEF Inv
  <2>7. CASE Accepted(b)
    <3>1. mapBlockIndex \cup {b} \subseteq mapBlockIndex'
      BY <2>3
    <3>2. TypeOK'
      BY <2>1, <2>2, <2>3, <2>4, <2>7, <3>1, ReturnOK DEF Inv, TypeOK, Steps
    <3>3. ControlOK'
      BY <2>4, <2>7, <3>1, ReturnOK DEF ControlOK
    <3> QED BY <2>5, <3>2, <3>3 DEF Inv
  <2> QED BY <1>1, <2>6, <2>7 DEF AddToBlockIndex
<1>2. CASE Refused /\ UNCHANGED <<disk, memory, postponedFailed, restarts>>
  BY <1>2, RefusedInv
<1> QED BY <1>1, <1>2 DEF AcceptBlock

\* SetBestChainInner writes a well-formed database.
LEMMA InnerType ==
    ASSUME Inv, NEW b \in Blocks, SetBestChainInner(b)
    PROVE  /\ disk' \in Database
           /\ disk'.blockindex = disk.blockindex
           /\ disk'.hashBestChain = b
           /\ pnext' \in [Blocks -> Blocks \cup {None}]
<1>1. disk \in Database /\ pnext \in [Blocks -> Blocks \cup {None}]
  BY DEF Inv, TypeOK
<1>2. ConnectBlock(disk, b) \in Database /\ ConnectBlock(disk, b).blockindex = disk.blockindex
  BY <1>1, ConnectBlockType
<1> QED BY <1>1, <1>2, BestType DEF SetBestChainInner

LEMMA RelinkedType ==
    ASSUME NEW a \in Blocks, NEW b \in Blocks, pnext \in [Blocks -> Blocks \cup {None}]
    PROVE  Relinked(a, b) \in [Blocks -> Blocks \cup {None}]
<1>1. Branch(a, b) \subseteq Blocks
  BY AncSelf DEF Branch
<1> QED BY <1>1 DEF Relinked

\* The two branches of a reorganisation and its target are blocks.
LEMMA ReorganizeFacts ==
    ASSUME Inv, pc \in {"setbest", "reorganize", "postponed"}
    PROVE  /\ pblock \in Blocks \ {Genesis}
           /\ pindexIntermediate \in Anc[pblock] /\ pindexIntermediate \in Blocks
           /\ pc \in {"reorganize", "postponed"} => cursor \in Blocks
<1>1. /\ pblock \in Blocks \ {Genesis} /\ pindexBest \in Blocks
      /\ nChainTrust[pblock] > nChainTrust[pindexBest]
  BY DEF Inv, TypeOK, ControlOK
<1>2. pindexIntermediate \in Anc[pblock] /\ pindexIntermediate \in Blocks
  BY <1>1, IntermediateBlock
<1>3. pc \in {"reorganize", "postponed"} =>
         cursor \in Anc[pindexBest] \cup Anc[pindexIntermediate] \cup Anc[pblock]
  BY DEF Inv, ControlOK
<1> QED BY <1>1, <1>2, <1>3, AncSelf

\* The ancestors of an indexed block are indexed.
LEMMA AncIndexed ==
    ASSUME Inv, NEW b \in mapBlockIndex, NEW c \in Anc[b]
    PROVE  c \in mapBlockIndex
<1> DEFINE S == {x \in Blocks : x \in mapBlockIndex => Anc[x] \subseteq mapBlockIndex}
<1>1. Genesis \in S
  BY TreeAssumption
<1>2. ASSUME NEW x \in Blocks \ {Genesis}, Prev[x] \in S PROVE x \in S
  BY <1>2, TreeAssumption DEF Inv, IndexOK
<1>3. S = Blocks
  <2> HIDE DEF S
  <2>1. S \in SUBSET Blocks
    BY DEF S
  <2> QED BY <1>1, <1>2, <2>1, TreeInduction
<1> QED BY <1>3 DEF Inv, TypeOK

LEMMA NextInv == Inv /\ [Next]_vars => Inv'
<1> SUFFICES ASSUME Inv, [Next]_vars PROVE Inv'
  OBVIOUS
<1>1. ASSUME NEW b \in Blocks, HoldOrphan(b) PROVE Inv'
  <2>1. TypeOK'
    BY <1>1, TxAssumption DEF Inv, TypeOK, HoldOrphan, ProofsOf, db, memory
  <2>2. IndexOK' /\ ControlOK'
    BY <1>1 DEF Inv, IndexOK, ControlOK, HoldOrphan, NewBlock, db, memory, pindexIntermediate
  <2> QED BY <2>1, <2>2 DEF Inv
<1>2. ASSUME NEW b \in Blocks, ProcessBlock(b) PROVE Inv'
  <2>1. b # Genesis /\ Prev[b] \in mapBlockIndex /\ AcceptBlock(b)
    BY <1>2 DEF ProcessBlock, NewBlock, Inv, IndexOK
  <2>2. mapOrphanBlocks' \subseteq Blocks /\ setStakeSeenOrphan' \subseteq Stakes
    BY <1>2 DEF ProcessBlock, orphan, Inv, TypeOK
  <2> QED BY <2>1, <2>2, AcceptBlockInv
<1>3. ASSUME NEW b \in Blocks, ProcessOrphan(b) PROVE Inv'
  <2>1. Head(vWorkQueue) \in mapBlockIndex
    BY <1>3 DEF ProcessOrphan, Inv, ControlOK
  <2>2. b # Genesis /\ Prev[b] \in mapBlockIndex /\ AcceptBlock(b)
    BY <1>3, <2>1, TreeAssumption DEF ProcessOrphan, Inv, TypeOK
  <2>3. mapOrphanBlocks' \subseteq Blocks /\ setStakeSeenOrphan' \subseteq Stakes
    BY <1>3 DEF ProcessOrphan, Inv, TypeOK
  <2> QED BY <2>2, <2>3, AcceptBlockInv
<1>4. ASSUME NEW b \in Blocks, DropBlock(b) PROVE Inv'
  BY <1>4 DEF DropBlock, vars, db, memory, orphan, Inv, TypeOK, IndexOK, ControlOK, pindexIntermediate
<1>5. CASE NextInQueue
  <2>1. vWorkQueue # <<>>
    BY <1>5 DEF NextInQueue, Inv, ControlOK
  <2>2. Tail(vWorkQueue) \in Seq(Blocks) /\ Tail(vWorkQueue) \in Seq(mapBlockIndex)
    BY <2>1 DEF Inv, TypeOK, ControlOK
  <2>3. TypeOK'
    BY <1>5, <2>2 DEF NextInQueue, Inv, TypeOK, Steps, db, memory, orphan
  <2>4. IndexOK'
    BY <1>5 DEF NextInQueue, Inv, IndexOK, db, memory
  <2>5. ControlOK'
    BY <1>5, <2>2 DEF NextInQueue, ControlOK, memory
  <2> QED BY <2>3, <2>4, <2>5 DEF Inv
<1>6. CASE Restart
  <2>1. disk' = disk /\ disk \in Database /\ batch' \in Database
    BY <1>6, EmptyDatabaseType DEF Restart, Inv, TypeOK, NoBatch
  <2>2. setStakeSeen' \subseteq Stakes
    BY <1>6, <2>1, TxAssumption DEF Restart, ProofsOf, Database
  <2>3. TypeOK'
    <3>1. restarts' \in 0 .. MaxRestarts
      BY <1>6, TxAssumption DEF Restart, Inv, TypeOK
    <3>2. pnext' \in [Blocks -> Blocks \cup {None}] /\ mapBlockIndex' \subseteq Blocks /\ pindexBest' \in Blocks
      BY <1>6, <2>1 DEF Restart, Database
    <3> QED BY <1>6, <2>1, <2>2, <3>1, <3>2 DEF Restart, Inv, TypeOK, Steps
  <2>4. IndexOK'
    BY <1>6 DEF Restart, Inv, IndexOK
  <2>5. ControlOK'
    BY <1>6 DEF Restart, ControlOK
  <2> QED BY <2>3, <2>4, <2>5 DEF Inv
<1>7. CASE ExtendBest
  <2>1. pblock \in Blocks \ {Genesis} /\ pblock \in mapBlockIndex
    BY <1>7, ReorganizeFacts DEF ExtendBest, Inv, ControlOK
  <2>2. /\ disk' \in Database /\ disk'.blockindex = disk.blockindex
        /\ disk'.hashBestChain = pblock /\ pnext' \in [Blocks -> Blocks \cup {None}]
    BY <1>7, <2>1, InnerType DEF ExtendBest
  <2>3. mapBlockIndex \cup {pblock} \subseteq mapBlockIndex' /\ mapBlockIndex' = mapBlockIndex
        /\ mapBlockIndex' \subseteq Blocks /\ Accepted(pblock) /\ pindexBest' = pblock
    BY <1>7, <2>1 DEF ExtendBest, Inv, TypeOK
  <2>4. TypeOK'
    BY <1>7, <2>1, <2>2, <2>3, ReturnOK DEF ExtendBest, Inv, TypeOK, Steps, orphan
  <2>5. IndexOK'
    BY <2>1, <2>2, <2>3 DEF Inv, IndexOK
  <2>6. ControlOK'
    BY <2>1, <2>3, ReturnOK DEF ControlOK
  <2> QED BY <2>4, <2>5, <2>6 DEF Inv
<1>8. CASE ExtendBestFails \/ ReorganizeFails
  <2>1. Refused /\ UNCHANGED <<disk, memory, orphan, postponedFailed, restarts>>
    BY <1>8 DEF ExtendBestFails, ReorganizeFails
  <2>2. mapOrphanBlocks' \subseteq Blocks /\ setStakeSeenOrphan' \subseteq Stakes
    BY <2>1 DEF orphan, Inv, TypeOK
  <2> QED BY <2>1, <2>2, RefusedInv
<1>9. CASE BeginReorganize
  <2>1. pindexBest \in Blocks /\ pindexBest \in Anc[pindexBest]
    BY AncSelf DEF Inv, TypeOK
  <2>2. TypeOK'
    BY <1>9, <2>1 DEF BeginReorganize, Inv, TypeOK, Steps, memory, orphan
  <2>3. IndexOK'
    BY <1>9 DEF BeginReorganize, Inv, IndexOK, memory
  <2>4. ControlOK'
    BY <1>9, <2>1 DEF BeginReorganize, Inv, ControlOK, memory
  <2> QED BY <2>2, <2>3, <2>4 DEF Inv
<1>10. ASSUME NEW d \in Database, NEW c \in Anc[pindexBest] \cup Anc[pindexIntermediate],
              c \in Blocks, d.blockindex = batch.blockindex,
              Anc[pindexBest] \cap Anc[pindexIntermediate] \subseteq Anc[c],
              pc = "reorganize", batch' = d, cursor' = c,
              UNCHANGED <<disk, memory, orphan, pc, pblock, vWorkQueue, postponedFailed, restarts>>
       PROVE  Inv'
  <2>1. TypeOK'
    BY <1>10 DEF Inv, TypeOK, memory, orphan
  <2>2. IndexOK'
    BY <1>10 DEF Inv, IndexOK, memory
  <2>3. pindexIntermediate' = pindexIntermediate
    BY <1>10 DEF pindexIntermediate, memory
  <2>4. ControlOK'
    BY <1>10, <2>3 DEF Inv, ControlOK, memory
  <2> QED BY <2>1, <2>2, <2>4 DEF Inv
<1>11. CASE ReorganizeDisconnect
  <2>1. cursor \in Blocks /\ pindexIntermediate \in Blocks /\ pindexBest \in Blocks
    BY <1>11, ReorganizeFacts DEF ReorganizeDisconnect, Inv, TypeOK
  <2>2. cursor # Genesis /\ cursor \in Anc[pindexBest]
    BY <1>11, <2>1, AncSelf DEF ReorganizeDisconnect, Inv, ControlOK
  <2>3. Prev[cursor] \in Anc[pindexBest] /\ Prev[cursor] \in Blocks
    BY <2>1, <2>2, AncClosed, TreeAssumption
  <2>4. /\ DisconnectBlock(batch, cursor) \in Database
        /\ DisconnectBlock(batch, cursor).blockindex = batch.blockindex
    BY <2>1, DisconnectBlockType DEF Inv, TypeOK
  <2>5. Anc[pindexBest] \cap Anc[pindexIntermediate] \subseteq Anc[Prev[cursor]]
    <3>1. Anc[cursor] = Anc[Prev[cursor]] \cup {cursor}
      BY <2>1, <2>2, TreeAssumption
    <3> QED BY <1>11, <3>1 DEF ReorganizeDisconnect, Inv, ControlOK
  <2> QED BY <1>10, <1>11, <2>3, <2>4, <2>5 DEF ReorganizeDisconnect
<1>12. CASE ReorganizeConnect
  <2> DEFINE b == NextTowards(cursor, pindexIntermediate)
  <2>1. pindexIntermediate \in Blocks
    BY <1>12, ReorganizeFacts DEF ReorganizeConnect
  <2>2. /\ b \in Anc[pindexIntermediate] /\ b \in Blocks \ {Genesis}
        /\ Prev[b] = cursor
    BY <1>12, <2>1, NextBlock DEF ReorganizeConnect
  <2>3. /\ ConnectBlock(batch, b) \in Database
        /\ ConnectBlock(batch, b).blockindex = batch.blockindex
    BY <2>2, ConnectBlockType DEF Inv, TypeOK
  <2>4. Anc[pindexBest] \cap Anc[pindexIntermediate] \subseteq Anc[b]
    <3>1. Anc[b] = Anc[cursor] \cup {b}
      BY <2>2, TreeAssumption
    <3> QED BY <1>12, <3>1 DEF ReorganizeConnect, Inv, ControlOK
  <2> QED BY <1>10, <1>12, <2>2, <2>3, <2>4 DEF ReorganizeConnect
<1>13. CASE CommitReorganize
  <2>1. /\ cursor \in Blocks /\ cursor = pindexIntermediate /\ cursor \in Anc[pblock]
        /\ pblock \in Blocks /\ pindexBest \in Blocks
    BY <1>13, ReorganizeFacts DEF CommitReorganize, Inv, TypeOK
  <2>2. /\ disk' \in Database /\ disk'.blockindex = disk.blockindex
        /\ disk'.hashBestChain = cursor
    BY <1>13, <2>1, BestType DEF CommitReorganize, Inv, TypeOK, ControlOK
  <2>3. cursor \in mapBlockIndex
    BY <1>13, <2>1, AncIndexed DEF CommitReorganize, Inv, ControlOK
  <2>4. pnext' \in [Blocks -> Blocks \cup {None}]
    BY <1>13, <2>1, RelinkedType DEF CommitReorganize, Inv, TypeOK
  <2>5. TypeOK'
    BY <1>13, <2>2, <2>4, EmptyDatabaseType DEF CommitReorganize, Inv, TypeOK, Steps, NoBatch, orphan
  <2>6. IndexOK'
    BY <1>13, <2>2, <2>3 DEF CommitReorganize, Inv, IndexOK
  <2>7. ControlOK'
    BY <1>13, <2>1 DEF CommitReorganize, Inv, ControlOK
  <2> QED BY <2>5, <2>6, <2>7 DEF Inv
<1>14. CASE ConnectPostponed
  <2> DEFINE b == NextTowards(cursor, pblock)
  <2>1. pblock \in Blocks /\ cursor \in Anc[pblock] /\ cursor # pblock /\ pblock \in mapBlockIndex
    BY <1>14 DEF ConnectPostponed, Inv, TypeOK, ControlOK
  <2>2. b \in Anc[pblock] /\ b \in Blocks /\ b \in mapBlockIndex
    BY <2>1, NextBlock, AncIndexed
  <2>3. /\ disk' \in Database /\ disk'.blockindex = disk.blockindex
        /\ disk'.hashBestChain = b /\ pnext' \in [Blocks -> Blocks \cup {None}]
    BY <1>14, <2>2, InnerType DEF ConnectPostponed
  <2> HIDE DEF b
  <2>4. /\ cursor' = b /\ pc' = "postponed"
        /\ UNCHANGED <<batch, mapBlockIndex, pindexBest, setStakeSeen, orphan, pc, pblock,
                        vWorkQueue, postponedFailed, restarts>>
    BY <1>14 DEF ConnectPostponed, b
  <2>5. TypeOK'
    BY <2>2, <2>3, <2>4 DEF Inv, TypeOK, orphan
  <2>6. IndexOK'
    BY <2>2, <2>3, <2>4 DEF Inv, IndexOK
  <2>7. ControlOK'
    BY <2>2, <2>4, <1>14 DEF Inv, ControlOK, ConnectPostponed
  <2> QED BY <2>5, <2>6, <2>7 DEF Inv
<1>15. CASE NewBestBlock
  <2>1. pblock \in Blocks /\ pblock \in mapBlockIndex
    BY <1>15 DEF NewBestBlock, Inv, TypeOK, ControlOK
  <2>2. /\ disk' = disk /\ mapBlockIndex' = mapBlockIndex /\ pnext' = pnext
        /\ setStakeSeen' = setStakeSeen /\ mapOrphanBlocks' = mapOrphanBlocks
        /\ setStakeSeenOrphan' = setStakeSeenOrphan /\ restarts' = restarts
        /\ pindexBest' = pblock /\ Accepted(pblock)
    BY <1>15 DEF NewBestBlock, orphan
  <2>3. mapBlockIndex \cup {pblock} \subseteq mapBlockIndex' /\ mapBlockIndex' \subseteq Blocks
    BY <2>1, <2>2 DEF Inv, TypeOK
  <2>4. postponedFailed' \in BOOLEAN
    BY <1>15, Zenon DEF NewBestBlock, Inv, TypeOK
  <2>5. TypeOK'
    BY <2>1, <2>2, <2>3, <2>4, ReturnOK DEF Inv, TypeOK, Steps
  <2>6. IndexOK'
    BY <2>1, <2>2 DEF Inv, IndexOK
  <2>7. ControlOK'
    BY <2>1, <2>2, <2>3, ReturnOK DEF ControlOK
  <2> QED BY <2>5, <2>6, <2>7 DEF Inv
<1>16. CASE UNCHANGED vars
  BY <1>16 DEF vars, db, memory, orphan, Inv, TypeOK, IndexOK, ControlOK, pindexIntermediate
<1> QED BY <1>1, <1>2, <1>3, <1>4, <1>5, <1>6, <1>7, <1>8, <1>9, <1>11, <1>12, <1>13, <1>14,
           <1>15, <1>16 DEF Next, SetBestChain

\* Blocks, indexes and the state of ProcessBlock keep their types, the block
\* index on disk is the one in memory and is closed under hashPrevBlock, both
\* tips are in it, and SetBestChain always finds the branch it looks for.
THEOREM TypeCorrect == Spec => [](TypeOK /\ IndexOK /\ ControlOK)
<1>1. Inv => TypeOK /\ IndexOK /\ ControlOK
  BY DEF Inv
<1> QED BY InitInv, NextInv, <1>1, PTL DEF Spec

-----------------------------------------------------------------------------
\* No commit has taken the disk past the trust of the block that the node works
\* towards: the postponed connects' tip while there are any, else the best block.
TrustInv == nChainTrust[disk.hashBestChain]
                <= nChainTrust[IF pc = "postponed" THEN cursor ELSE pindexBest]

\* A commit that moves the tip moves it to a block with more trust than
\* the one TrustInv bounds the stored tip by.
TrustStep ==
    /\ TrustInv'
    /\ nChainTrust[disk'.hashBestChain] >= nChainTrust[disk.hashBestChain]

LEMMA NextTrust == Inv /\ TrustInv /\ [Next]_vars => TrustStep
<1> SUFFICES ASSUME Inv, TrustInv, [Next]_vars PROVE TrustStep
  OBVIOUS
<1>0. /\ disk \in Database /\ disk.hashBestChain \in Blocks /\ pindexBest \in Blocks
      /\ \A b \in Blocks : nChainTrust[b] \in Nat
  BY TreeAssumption DEF Inv, TypeOK, Database
\* Steps that leave both tips where they are.
<1>1. ASSUME disk'.hashBestChain = disk.hashBestChain, pindexBest' = pindexBest,
             pc # "postponed", pc' # "postponed"
      PROVE  TrustStep
  BY <1>0, <1>1 DEF TrustStep, TrustInv
<1>2. ASSUME NEW b \in Blocks, HoldOrphan(b) \/ DropBlock(b) PROVE TrustStep
  BY <1>1, <1>2 DEF HoldOrphan, DropBlock, NewBlock, vars, db, memory
<1>3. ASSUME NEW b \in Blocks, ProcessBlock(b) \/ ProcessOrphan(b) PROVE TrustStep
  <2>1. pc \in {"idle", "orphans"} /\ AcceptBlock(b)
    BY <1>3 DEF ProcessBlock, ProcessOrphan, NewBlock
  <2>2. CASE AddToBlockIndex(b)
    <3>1. disk'.hashBestChain = disk.hashBestChain
      BY <1>0, <2>2 DEF AddToBlockIndex, Database
    <3> QED BY <1>1, <2>1, <2>2, <3>1 DEF AddToBlockIndex, Accepted
  <2>3. CASE Refused /\ UNCHANGED <<disk, memory>>
    BY <1>1, <2>1, <2>3 DEF Refused, memory
  <2> QED BY <2>1, <2>2, <2>3 DEF AcceptBlock
<1>4. CASE NextInQueue \/ ExtendBestFails \/ BeginReorganize \/ ReorganizeDisconnect
           \/ ReorganizeConnect \/ ReorganizeFails
  BY <1>1, <1>4 DEF NextInQueue, ExtendBestFails, BeginReorganize, ReorganizeDisconnect,
                    ReorganizeConnect, ReorganizeFails, Refused, db, memory
<1>5. CASE Restart
  BY <1>0, <1>5 DEF Restart, TrustStep, TrustInv
<1>6. CASE ExtendBest
  <2>1. /\ pc = "setbest" /\ SetBestChainInner(pblock) /\ pindexBest' = pblock
        /\ pc' = "orphans"
    BY <1>6 DEF ExtendBest, Accepted
  <2>2. pblock \in Blocks /\ nChainTrust[pblock] > nChainTrust[pindexBest]
    BY <2>1, ReorganizeFacts DEF Inv, ControlOK
  <2>3. disk'.hashBestChain = pblock
    BY <2>1, <2>2, InnerType
  <2> QED BY <1>0, <2>1, <2>2, <2>3 DEF TrustStep, TrustInv
<1>7. CASE CommitReorganize
  <2>1. /\ pc = "reorganize" /\ cursor = pindexIntermediate /\ pc' = "postponed"
        /\ cursor' = cursor /\ disk' = WriteHashBestChain(batch, cursor)
    BY <1>7 DEF CommitReorganize
  <2>2. cursor \in Blocks /\ nChainTrust[cursor] > nChainTrust[pindexBest]
    BY <2>1, IntermediateBlock DEF Inv, ControlOK, TypeOK
  <2>3. disk'.hashBestChain = cursor
    BY <2>1, <2>2, BestType DEF Inv, TypeOK
  <2> QED BY <1>0, <2>1, <2>2, <2>3 DEF TrustStep, TrustInv
<1>8. CASE ConnectPostponed
  <2> DEFINE b == NextTowards(cursor, pblock)
  <2>1. /\ pc = "postponed" /\ cursor # pblock /\ SetBestChainInner(b)
        /\ cursor' = b /\ pc' = "postponed"
    BY <1>8 DEF ConnectPostponed
  <2>2. pblock \in Blocks /\ cursor \in Blocks /\ cursor \in Anc[pblock]
    BY <2>1, ReorganizeFacts DEF Inv, ControlOK
  <2>3. b \in Blocks \ {Genesis} /\ Prev[b] = cursor
    BY <2>1, <2>2, NextBlock
  <2> HIDE DEF b
  <2>4. nChainTrust[b] > nChainTrust[cursor]
    BY <2>3, TreeAssumption
  <2>5. disk'.hashBestChain = b
    BY <2>1, <2>3, InnerType
  <2> QED BY <1>0, <2>1, <2>2, <2>3, <2>4, <2>5 DEF TrustStep, TrustInv
<1>9. CASE NewBestBlock
  <2>1. pc = "postponed" /\ pindexBest' = pblock /\ disk' = disk /\ pc' = "orphans"
    BY <1>9 DEF NewBestBlock, Accepted
  <2>2. pblock \in Blocks /\ cursor \in Blocks /\ cursor \in Anc[pblock]
    BY <2>1, ReorganizeFacts DEF Inv, ControlOK
  <2>3. nChainTrust[cursor] <= nChainTrust[pblock]
    BY <1>0, <2>2, AncClosed
  <2> QED BY <1>0, <2>1, <2>2, <2>3 DEF TrustStep, TrustInv
<1>10. CASE UNCHANGED vars
  BY <1>0, <1>10 DEF vars, db, memory, TrustStep, TrustInv
<1> QED BY <1>2, <1>3, <1>4, <1>5, <1>6, <1>7, <1>8, <1>9, <1>10 DEF Next, SetBestChain

\* The trust of the stored best chain never goes down, wherever SetBestChain
\* commits, a reorganisation or a postponed block fails, or the process dies
\* (SetBestChain, Reorganize, LoadBlockIndex).
THEOREM TrustGrows == Spec => BestTrustGrows
<1>1. Init => TrustInv
  BY TreeAssumption DEF Init, TrustInv, EmptyDatabase
<1>2. Inv /\ TrustInv /\ [Next]_vars => TrustInv'
  BY NextTrust DEF TrustStep
<1>3. Inv /\ TrustInv /\ [Next]_vars
        => [nChainTrust[disk'.hashBestChain] >= nChainTrust[disk.hashBestChain]]_vars
  BY NextTrust DEF TrustStep
<1> QED BY InitInv, NextInv, <1>1, <1>2, <1>3, PTL DEF Spec, BestTrustGrows


-----------------------------------------------------------------------------
(* The transactions of a chain.                                            *)

\* A chain's transactions are its parent chain's and its last block's.
LEMMA ChainTxsStep ==
    ASSUME NEW b \in Blocks \ {Genesis}
    PROVE  ChainTxs(b) = ChainTxs(Prev[b]) \cup TxsOf(b)
<1>1. Anc[b] \ {Genesis} = (Anc[Prev[b]] \ {Genesis}) \cup {b}
  BY TreeAssumption
<1> QED BY <1>1 DEF ChainTxs

\* An ancestor's chain has no other transactions.
LEMMA ChainTxsMonotone ==
    ASSUME NEW b \in Blocks, NEW c \in Anc[b]
    PROVE  ChainTxs(c) \subseteq ChainTxs(b)
<1>1. Anc[c] \subseteq Anc[b]
  BY AncClosed
<1> QED BY <1>1 DEF ChainTxs

LEMMA TxsType == \A b \in Blocks : TxsOf(b) \subseteq Tx /\ ChainTxs(b) \subseteq Tx
<1>1. \A b \in Blocks : TxsOf(b) \subseteq Tx
  BY TxAssumption DEF TxsOf
<1>2. \A b \in Blocks : Anc[b] \subseteq Blocks
  BY AncSelf
<1> QED BY <1>1, <1>2 DEF ChainTxs

LEMMA SpendersEmpty ==
    ASSUME NEW b \in Blocks, NEW o \in OutPoints
    PROVE  Spenders(b, o) = {} <=> \A t \in TxsOf(b) : o \notin vin[t]
BY DEF Spenders, TxsOf

\* In a consistent chain an input's transaction is in the chain.
LEMMA InputInChain ==
    ASSUME NEW a \in Blocks, SpentOnce(a), NEW t \in ChainTxs(a), NEW o \in vin[t]
    PROVE  o[1] \in ChainTxs(a)
<1>1. PICK c \in Anc[a] \ {Genesis} : t \in TxsOf(c)
  BY DEF ChainTxs
<1>2. PICK i \in DOMAIN vtx[c] : vtx[c][i] = t
  BY <1>1 DEF TxsOf
<1>3. o[1] \in ChainTxs(c)
  BY <1>1, <1>2 DEF SpentOnce
<1> QED BY <1>1, <1>3, ChainTxsMonotone

\* The conditions on a chain are those on its parent chain and on its last
\* block.
LEMMA OneBlockMore ==
    ASSUME NEW b \in Blocks \ {Genesis}
    PROVE  /\ NoDuplicates(b) <=> NoDuplicates(Prev[b]) /\ TxsOf(b) \cap ChainTxs(Prev[b]) = {}
           /\ SpentOnce(b) <=>
                /\ SpentOnce(Prev[b])
                /\ \A i \in DOMAIN vtx[b] : \A o \in vin[vtx[b][i]] :
                     /\ o[1] \in ChainTxs(b)
                     /\ o \notin ZeroValue =>
                           /\ \A u \in ChainTxs(Prev[b]) : o \notin vin[u]
                           /\ Spenders(b, o) = {i}
<1>1. Anc[b] \ {Genesis} = (Anc[Prev[b]] \ {Genesis}) \cup {b}
  BY TreeAssumption
<1>2. NoDuplicates(b) <=> NoDuplicates(Prev[b]) /\ TxsOf(b) \cap ChainTxs(Prev[b]) = {}
  BY <1>1 DEF NoDuplicates
<1>3. SpentOnce(b) <=>
        /\ SpentOnce(Prev[b])
        /\ \A i \in DOMAIN vtx[b] : \A o \in vin[vtx[b][i]] :
             /\ o[1] \in ChainTxs(b)
             /\ o \notin ZeroValue =>
                   /\ \A u \in ChainTxs(Prev[b]) : o \notin vin[u]
                   /\ Spenders(b, o) = {i}
  BY <1>1 DEF SpentOnce
<1> QED BY <1>2, <1>3

-----------------------------------------------------------------------------
(* Disconnecting the last block of a chain.                                *)

LEMMA DisconnectTxIndex ==
    ASSUME ZeroValue = {}, NEW d \in Database, NEW b \in Blocks \ {Genesis},
           TxIndexIs(d, b), NoDuplicates(b), SpentOnce(b)
    PROVE  TxIndexIs(DisconnectBlock(d, b), Prev[b])
<1> DEFINE e == DisconnectBlock(d, b)
           a == Prev[b]
<1>0. a \in Blocks /\ b \in Anc[b] /\ Anc[a] \subseteq Anc[b] /\ b \notin Anc[a]
  BY TreeAssumption
<1>1. ChainTxs(b) = ChainTxs(a) \cup TxsOf(b) /\ TxsOf(b) \cap ChainTxs(a) = {} /\ SpentOnce(a)
  BY ChainTxsStep, OneBlockMore
<1>2. /\ e.txPos = [t \in Tx |-> IF t \in TxsOf(b) THEN None ELSE d.txPos[t]]
      /\ e.vSpent = [o \in OutPoints |->
                       IF Spenders(b, o) # {} \/ o[1] \in TxsOf(b) THEN None ELSE d.vSpent[o]]
  BY DEF DisconnectBlock, Database
<1> HIDE DEF e
<1>3. ASSUME NEW c \in Anc[a] \ {Genesis}, NEW t \in TxsOf(c) PROVE e.txPos[t] = c
  <2>1. t \in ChainTxs(a) /\ t \in Tx /\ c \in Anc[b] \ {Genesis}
    BY <1>0, <1>3, TxsType DEF ChainTxs
  <2>2. d.txPos[t] = c /\ t \notin TxsOf(b)
    BY <1>1, <1>3, <2>1 DEF TxIndexIs
  <2> QED BY <1>2, <2>1, <2>2
<1>4. ASSUME NEW t \in Tx, e.txPos[t] # None PROVE t \in ChainTxs(a)
  <2>1. t \notin TxsOf(b) /\ d.txPos[t] # None
    BY <1>2, <1>4
  <2> QED BY <1>1, <2>1 DEF TxIndexIs
<1>5. ASSUME NEW o \in OutPoints
      PROVE  IF e.vSpent[o] = None THEN \A t \in ChainTxs(a) : o \notin vin[t]
                                   ELSE e.vSpent[o] \in ChainTxs(a) /\ o \in vin[e.vSpent[o]]
  <2>1. CASE Spenders(b, o) # {}
    <3>1. PICK i \in DOMAIN vtx[b] : o \in vin[vtx[b][i]]
      BY <2>1 DEF Spenders
    <3>2. \A u \in ChainTxs(a) : o \notin vin[u]
      BY <3>1, OneBlockMore
    <3>3. e.vSpent[o] = None
      BY <1>2, <2>1
    <3> QED BY <3>2, <3>3
  <2>2. CASE Spenders(b, o) = {} /\ o[1] \in TxsOf(b)
    <3>1. e.vSpent[o] = None
      BY <1>2, <2>2
    <3>2. \A u \in ChainTxs(a) : o \in vin[u] => o[1] \in ChainTxs(a)
      BY <1>0, <1>1, InputInChain
    <3> QED BY <1>1, <2>2, <3>1, <3>2
  <2>3. CASE Spenders(b, o) = {} /\ o[1] \notin TxsOf(b)
    <3>1. e.vSpent[o] = d.vSpent[o]
      BY <1>2, <2>3
    <3>2. \A t \in TxsOf(b) : o \notin vin[t]
      BY <2>3, SpendersEmpty
    <3> QED BY <1>1, <3>1, <3>2 DEF TxIndexIs
  <2> QED BY <2>1, <2>2, <2>3
<1> QED BY <1>3, <1>4, <1>5 DEF TxIndexIs, e

\* One more block at the end of a path of forward links, or one less.
LEMMA LinksGrow ==
    ASSUME NEW b \in Blocks \ {Genesis}, NEW next \in [Blocks -> Blocks \cup {None}],
           LinksAre(next, Prev[b])
    PROVE  LinksAre([next EXCEPT ![b] = None, ![Prev[b]] = b], b)
<1> DEFINE n == [next EXCEPT ![b] = None, ![Prev[b]] = b]
<1>1. /\ Prev[b] \in Blocks /\ Prev[b] # b
      /\ Anc[b] = Anc[Prev[b]] \cup {b}
  BY AncSelf, TreeAssumption
<1>2. \A e \in Anc[Prev[b]] : Prev[e] # Prev[b] /\ Prev[e] # b
  <2>1. \A e \in Anc[Prev[b]] : e # Genesis => Prev[e] \in Blocks /\ nHeight[e] = nHeight[Prev[e]] + 1
    BY <1>1, AncClosed, TreeAssumption
  <2>2. \A e \in Anc[Prev[b]] : e \in Blocks /\ nHeight[e] <= nHeight[Prev[b]]
    BY <1>1, AncClosed, TreeAssumption
  <2>3. nHeight[b] = nHeight[Prev[b]] + 1
    BY TreeAssumption
  <2> QED BY <1>1, <2>1, <2>2, <2>3, TreeAssumption
<1>3. ASSUME NEW c \in Blocks
      PROVE  IF \E e \in Anc[b] : Prev[e] = c THEN n[c] \in Anc[b] /\ Prev[n[c]] = c
                                              ELSE n[c] = None
  <2>1. CASE c = Prev[b]
    BY <1>1, <2>1
  <2>2. CASE c = b
    BY <1>1, <1>2, <2>2
  <2>3. CASE c # b /\ c # Prev[b]
    <3>1. n[c] = next[c]
      BY <2>3
    <3>2. (\E e \in Anc[b] : Prev[e] = c) <=> (\E e \in Anc[Prev[b]] : Prev[e] = c)
      BY <1>1, <2>3
    <3> QED BY <1>1, <3>1, <3>2 DEF LinksAre
  <2> QED BY <2>1, <2>2, <2>3
<1> QED BY <1>3 DEF LinksAre

LEMMA LinksShrink ==
    ASSUME NEW b \in Blocks \ {Genesis}, NEW next \in [Blocks -> Blocks \cup {None}],
           LinksAre(next, b)
    PROVE  LinksAre([next EXCEPT ![Prev[b]] = None], Prev[b])
<1> DEFINE n == [next EXCEPT ![Prev[b]] = None]
<1>1. Prev[b] \in Blocks /\ Anc[b] = Anc[Prev[b]] \cup {b} /\ b \notin Anc[Prev[b]]
  BY TreeAssumption
<1>2. \A e \in Anc[Prev[b]] : Prev[e] # Prev[b]
  BY <1>1, AncClosed, AncSelf, Child
<1>3. ASSUME NEW c \in Blocks
      PROVE  IF \E e \in Anc[Prev[b]] : Prev[e] = c
             THEN n[c] \in Anc[Prev[b]] /\ Prev[n[c]] = c
             ELSE n[c] = None
  <2>1. CASE c = Prev[b]
    BY <1>2, <2>1
  <2>2. CASE c # Prev[b]
    <3>1. n[c] = next[c]
      BY <2>2
    <3>2. (\E e \in Anc[b] : Prev[e] = c) <=> (\E e \in Anc[Prev[b]] : Prev[e] = c)
      BY <1>1, <2>2
    <3>3. next[c] \in Anc[b] /\ Prev[next[c]] = c => next[c] \in Anc[Prev[b]]
      BY <1>1, <2>2
    <3> QED BY <3>1, <3>2, <3>3 DEF LinksAre
  <2> QED BY <2>1, <2>2
<1> QED BY <1>3 DEF LinksAre

LEMMA DisconnectChain ==
    ASSUME ZeroValue = {}, NEW d \in Database, NEW b \in Blocks \ {Genesis}, ChainIs(d, b)
    PROVE  ChainIs(DisconnectBlock(d, b), Prev[b])
<1>1. DisconnectBlock(d, b).hashNext = [d.hashNext EXCEPT ![Prev[b]] = None]
  BY DEF DisconnectBlock, Database
<1>2. LinksAre(DisconnectBlock(d, b).hashNext, Prev[b])
  BY <1>1, LinksShrink DEF ChainIs, Database
<1> QED BY <1>2, DisconnectTxIndex, OneBlockMore DEF ChainIs

-----------------------------------------------------------------------------
(* Connecting a block to the end of a chain.                               *)

\* An outpoint that a transaction of the chain spends is marked spent.
LEMMA MarkedSpent ==
    ASSUME NEW d \in Database, NEW a \in Blocks, TxIndexIs(d, a),
           NEW t \in ChainTxs(a), NEW o \in vin[t]
    PROVE  o \in OutPoints /\ d.vSpent[o] # None
<1>1. o \in OutPoints
  BY TxsType, TxAssumption
<1> QED BY <1>1 DEF TxIndexIs

\* A block that connects brings only new transactions: a coinbase is tied to
\* its height, and of the others the first one would spend a spent output.
LEMMA ConnectsNew ==
    ASSUME ZeroValue = {}, NEW d \in Database, NEW b \in Blocks \ {Genesis},
           Anc[b] \cap Rejected = {},
           TxIndexIs(d, Prev[b]), SpentOnce(Prev[b]), Connects(d, b)
    PROVE  TxsOf(b) \cap ChainTxs(Prev[b]) = {}
<1> DEFINE a == Prev[b]
           I == {i \in DOMAIN vtx[b] : vtx[b][i] \in ChainTxs(a)}
<1> SUFFICES ASSUME I # {} PROVE FALSE
  BY DEF TxsOf
<1>1. a \in Blocks /\ Anc[b] = Anc[a] \cup {b} /\ b \notin Anc[a] /\ b \in Anc[b]
  BY TreeAssumption
<1>2. vtx[b] \in Seq(Tx)
  BY TxAssumption
<1>3. I \in SUBSET Nat
  BY <1>2
<1>4. PICK i \in I : \A j \in I : i <= j
  <2> HIDE DEF I
  <2> QED BY <1>3, LeastNat
<1> DEFINE t == vtx[b][i]
<1>5. t \in ChainTxs(a) /\ t \in Tx /\ t \in TxsOf(b) /\ i \in DOMAIN vtx[b]
  BY <1>2, <1>4 DEF TxsOf
<1>6. PICK c \in Anc[a] \ {Genesis} : t \in TxsOf(c)
  BY <1>5 DEF ChainTxs
<1>7. t \notin CoinBases
  <2>1. c \in Blocks \ Rejected /\ b \in Blocks \ Rejected /\ c # b /\ c \in Anc[b]
    BY <1>1, <1>6, AncSelf
  <2>2. nHeight[c] < nHeight[b] /\ nHeight[c] \in Nat /\ nHeight[b] \in Nat
    BY <2>1, AncClosed, TreeAssumption
  <2> QED BY <1>5, <1>6, <2>1, <2>2, CoinBaseAssumption
<1>8. PICK o \in vin[t] : TRUE
  BY <1>5, <1>7, TxAssumption
<1>9. o \in OutPoints /\ d.vSpent[o] # None /\ o[1] \in ChainTxs(a)
  BY <1>1, <1>5, <1>8, MarkedSpent, InputInChain
<1>10. InputOK(d, b, i, o)
  BY <1>5, <1>8 DEF Connects
<1>11. Queued(b, i, o[1])
  BY <1>9, <1>10 DEF InputOK, AlreadySpent
<1>12. PICK j \in 1 .. i - 1 : vtx[b][j] = o[1]
  BY <1>11 DEF Queued
<1>13. i \in Nat /\ j \in DOMAIN vtx[b] /\ j < i
  BY <1>2, <1>5, <1>12
<1>14. j \in I
  BY <1>9, <1>12, <1>13
<1> QED BY <1>4, <1>13, <1>14

\* A block that connects spends unspent outputs of its chain, each once.
LEMMA ConnectsSpendsOnce ==
    ASSUME ZeroValue = {}, NEW d \in Database, NEW b \in Blocks \ {Genesis},
           TxIndexIs(d, Prev[b]), SpentOnce(Prev[b]), Connects(d, b),
           TxsOf(b) \cap ChainTxs(Prev[b]) = {}
    PROVE  SpentOnce(b)
<1> DEFINE a == Prev[b]
<1>1. a \in Blocks /\ ChainTxs(b) = ChainTxs(a) \cup TxsOf(b)
  BY ChainTxsStep, TreeAssumption
<1>2. vtx[b] \in Seq(Tx)
  BY TxAssumption
<1>3. ASSUME NEW i \in DOMAIN vtx[b], NEW o \in vin[vtx[b][i]]
      PROVE  /\ o[1] \in ChainTxs(b)
             /\ \A u \in ChainTxs(a) : o \notin vin[u]
             /\ Spenders(b, o) = {i}
  <2>1. InputOK(d, b, i, o)
    BY <1>3 DEF Connects
  <2>2. vtx[b][i] \in Tx /\ o \in OutPoints /\ o[1] \in Tx /\ i \in Nat
    BY <1>2, <1>3, TxAssumption
  <2>3. Queued(b, i, o[1]) => o[1] \in TxsOf(b)
    <3> SUFFICES ASSUME Queued(b, i, o[1]) PROVE o[1] \in TxsOf(b)
      OBVIOUS
    <3>1. PICK j \in 1 .. i - 1 : vtx[b][j] = o[1]
      BY DEF Queued
    <3>2. j \in DOMAIN vtx[b]
      BY <1>2, <1>3, <3>1
    <3> QED BY <3>1, <3>2 DEF TxsOf
  <2>4. o[1] \in ChainTxs(b)
    <3>1. CASE Queued(b, i, o[1])
      BY <1>1, <2>3, <3>1
    <3>2. CASE ~Queued(b, i, o[1])
      <4>1. d.txPos[o[1]] # None
        BY <2>1, <3>2 DEF InputOK, PosOf
      <4> QED BY <1>1, <2>2, <4>1 DEF TxIndexIs
    <3> QED BY <3>1, <3>2
  <2>5. ASSUME NEW u \in ChainTxs(a), o \in vin[u] PROVE FALSE
    <3>1. d.vSpent[o] # None /\ o[1] \in ChainTxs(a)
      BY <1>1, <2>5, MarkedSpent, InputInChain
    <3>2. Queued(b, i, o[1])
      BY <2>1, <3>1 DEF InputOK, AlreadySpent
    <3> QED BY <2>3, <3>1, <3>2
  <2>6. i \in Spenders(b, o)
    BY <1>3 DEF Spenders
  <2>7. ASSUME NEW j \in Spenders(b, o) PROVE j = i
    <3>1. j \in DOMAIN vtx[b] /\ o \in vin[vtx[b][j]]
      BY <2>7 DEF Spenders
    <3>2. j \in Nat
      BY <1>2, <3>1
    <3>3. InputOK(d, b, j, o)
      BY <3>1 DEF Connects
    <3>4. ~(j < i) /\ ~(i < j)
      BY <2>1, <2>6, <2>7, <3>3 DEF InputOK, AlreadySpent
    <3> QED BY <2>2, <3>2, <3>4
  <2> QED BY <2>4, <2>5, <2>6, <2>7
<1> QED BY <1>3, OneBlockMore

LEMMA ConnectTxIndex ==
    ASSUME ZeroValue = {}, NEW d \in Database, NEW b \in Blocks \ {Genesis},
           TxIndexIs(d, Prev[b]), SpentOnce(Prev[b]),
           TxsOf(b) \cap ChainTxs(Prev[b]) = {}
    PROVE  TxIndexIs(ConnectInputs(d, b), b)
<1> DEFINE e == ConnectInputs(d, b)
           a == Prev[b]
<1>0. a \in Blocks /\ Anc[b] = Anc[a] \cup {b}
  BY TreeAssumption
<1>1. ChainTxs(b) = ChainTxs(a) \cup TxsOf(b)
  BY ChainTxsStep
<1>2. /\ e.txPos = [t \in Tx |-> IF t \in TxsOf(b) THEN b ELSE d.txPos[t]]
      /\ e.vSpent = [o \in OutPoints |->
                        CASE Spenders(b, o) # {} -> vtx[b][LastOf(Spenders(b, o))]
                          [] Spenders(b, o) = {} /\ o[1] \in TxsOf(b) -> None
                          [] OTHER -> d.vSpent[o]]
  BY DEF ConnectInputs, Database
<1> HIDE DEF e
<1>3. ASSUME NEW c \in Anc[b] \ {Genesis}, NEW t \in TxsOf(c) PROVE e.txPos[t] = c
  <2>1. t \in Tx
    BY <1>3, AncSelf, TxsType
  <2>2. CASE c = b
    BY <1>2, <1>3, <2>1, <2>2
  <2>3. CASE c # b
    <3>1. c \in Anc[a] \ {Genesis} /\ t \in ChainTxs(a)
      BY <1>0, <1>3, <2>3 DEF ChainTxs
    <3>2. d.txPos[t] = c /\ t \notin TxsOf(b)
      BY <1>3, <3>1 DEF TxIndexIs
    <3> QED BY <1>2, <2>1, <3>2
  <2> QED BY <2>2, <2>3
<1>4. ASSUME NEW t \in Tx, e.txPos[t] # None PROVE t \in ChainTxs(b)
  BY <1>1, <1>2, <1>4 DEF TxIndexIs
<1>5. ASSUME NEW o \in OutPoints
      PROVE  IF e.vSpent[o] = None THEN \A t \in ChainTxs(b) : o \notin vin[t]
                                   ELSE e.vSpent[o] \in ChainTxs(b) /\ o \in vin[e.vSpent[o]]
  <2>1. CASE Spenders(b, o) # {}
    <3> DEFINE s == vtx[b][LastOf(Spenders(b, o))]
    <3>1. s \in Tx /\ s \in TxsOf(b) /\ o \in vin[s]
      BY <2>1, SpenderOf
    <3>2. e.vSpent[o] = s
      BY <1>2, <2>1
    <3> HIDE DEF s
    <3>3. s # None
      BY <3>1, TxAssumption
    <3> QED BY <1>1, <3>1, <3>2, <3>3
  <2>2. CASE Spenders(b, o) = {} /\ o[1] \in TxsOf(b)
    <3>1. e.vSpent[o] = None
      BY <1>2, <2>2
    <3>2. \A u \in ChainTxs(a) : o \in vin[u] => o[1] \in ChainTxs(a)
      BY <1>0, InputInChain
    <3>3. \A t \in TxsOf(b) : o \notin vin[t]
      BY <2>2, SpendersEmpty
    <3> QED BY <1>1, <2>2, <3>1, <3>2, <3>3
  <2>3. CASE Spenders(b, o) = {} /\ o[1] \notin TxsOf(b)
    <3>1. e.vSpent[o] = d.vSpent[o]
      BY <1>2, <2>3
    <3>2. \A t \in TxsOf(b) : o \notin vin[t]
      BY <2>3, SpendersEmpty
    <3> QED BY <1>1, <3>1, <3>2 DEF TxIndexIs
  <2> QED BY <2>1, <2>2, <2>3
<1> QED BY <1>3, <1>4, <1>5 DEF TxIndexIs, e

LEMMA ConnectChain ==
    ASSUME ZeroValue = {}, NEW d \in Database, NEW b \in Blocks \ {Genesis},
           Anc[b] \cap Rejected = {}, pnext[b] = None,
           ChainIs(d, Prev[b]), Connects(d, b)
    PROVE  ChainIs(ConnectBlock(d, b), b)
<1> DEFINE e == ConnectInputs(d, b)
<1>1. TxsOf(b) \cap ChainTxs(Prev[b]) = {}
  BY ConnectsNew DEF ChainIs
<1>2. SpentOnce(b) /\ NoDuplicates(b)
  BY <1>1, ConnectsSpendsOnce, OneBlockMore DEF ChainIs
<1>3. TxIndexIs(e, b)
  BY <1>1, ConnectTxIndex DEF ChainIs
<1>4. e \in Database /\ e.hashNext = d.hashNext
  BY ConnectInputsType
<1>5. ConnectBlock(d, b) = [e EXCEPT !.hashNext = [e.hashNext EXCEPT ![b] = pnext[b], ![Prev[b]] = b]]
  BY DEF ConnectBlock
<1> HIDE DEF e
<1>6. /\ ConnectBlock(d, b).txPos = e.txPos
      /\ ConnectBlock(d, b).vSpent = e.vSpent
      /\ ConnectBlock(d, b).hashNext = [d.hashNext EXCEPT ![b] = None, ![Prev[b]] = b]
  BY <1>4, <1>5 DEF Database
<1>7. LinksAre(ConnectBlock(d, b).hashNext, b)
  BY <1>6, LinksGrow DEF ChainIs, Database
<1>8. TxIndexIs(ConnectBlock(d, b), b)
  BY <1>3, <1>6 DEF TxIndexIs
<1> QED BY <1>2, <1>7, <1>8 DEF ChainIs

-----------------------------------------------------------------------------
(* The links in memory.                                                    *)

\* The path to a block determines its forward links.
LEMMA LinksUnique ==
    ASSUME NEW b \in Blocks,
           NEW m \in [Blocks -> Blocks \cup {None}], NEW n \in [Blocks -> Blocks \cup {None}],
           LinksAre(m, b), LinksAre(n, b)
    PROVE  m = n
<1> SUFFICES ASSUME NEW c \in Blocks PROVE m[c] = n[c]
  OBVIOUS
<1>1. CASE \E e \in Anc[b] : Prev[e] = c
  <2>1. /\ m[c] \in Anc[b] /\ Prev[m[c]] = c
        /\ n[c] \in Anc[b] /\ Prev[n[c]] = c
    BY <1>1 DEF LinksAre
  <2>2. m[c] # Genesis /\ m[c] \in Blocks
    BY <2>1, AncClosed, TreeAssumption
  <2>3. c \in Anc[b] /\ c # b
    <3>1. c \in Anc[b] /\ nHeight[m[c]] = nHeight[c] + 1
      BY <2>1, <2>2, AncClosed, TreeAssumption
    <3>2. nHeight[m[c]] <= nHeight[b]
      BY <2>1, <2>2, AncClosed, TreeAssumption
    <3> QED BY <3>1, <3>2, TreeAssumption
  <2> QED BY <2>1, <2>3, Child
<1>2. CASE ~\E e \in Anc[b] : Prev[e] = c
  BY <1>2 DEF LinksAre
<1> QED BY <1>1, <1>2

\* A block outside a chain has no forward link in it.
LEMMA NoLink ==
    ASSUME NEW b \in Blocks, NEW next, LinksAre(next, b), NEW c \in Blocks, c \notin Anc[b]
    PROVE  next[c] = None
<1>1. ~\E e \in Anc[b] : Prev[e] = c
  BY AncClosed, TreeAssumption
<1> QED BY <1>1 DEF LinksAre

\* After a reorganisation the links in memory are the path to the new tip.
LEMMA RelinkedMemory ==
    ASSUME NEW a \in Blocks, NEW b \in Blocks,
           pnext \in [Blocks -> Blocks \cup {None}], LinksAre(pnext, a)
    PROVE  LinksAre(Relinked(a, b), b)
<1> DEFINE up   == Anc[b] \ Anc[a]
           down == Anc[a] \ Anc[b]
           n == [c \in Blocks |->
                   CASE \E e \in up : Prev[e] = c -> CHOOSE e \in up : Prev[e] = c
                     [] ~(\E e \in up : Prev[e] = c) /\ (\E e \in down : Prev[e] = c) -> None
                     [] OTHER -> pnext[c]]
<1>1. ASSUME NEW c \in Blocks, NEW e \in Anc[a], Prev[e] = c PROVE pnext[c] = e
  <2>1. pnext[c] \in Anc[a] /\ Prev[pnext[c]] = c
    BY <1>1 DEF LinksAre
  <2>2. c \in Anc[a] /\ c # a
    <3>1. e # Genesis /\ e \in Blocks
      BY <1>1, AncClosed, TreeAssumption
    <3>2. c \in Anc[a] /\ nHeight[e] = nHeight[c] + 1 /\ nHeight[e] <= nHeight[a]
      BY <1>1, <3>1, AncClosed, TreeAssumption
    <3> QED BY <3>2, TreeAssumption
  <2> QED BY <1>1, <2>1, <2>2, Child
<1>2. ASSUME NEW c \in Blocks
      PROVE  IF \E e \in Anc[b] : Prev[e] = c THEN n[c] \in Anc[b] /\ Prev[n[c]] = c
                                              ELSE n[c] = None
  <2>1. CASE \E e \in up : Prev[e] = c
    <3>1. n[c] = CHOOSE e \in up : Prev[e] = c
      BY <2>1
    <3>2. n[c] \in up /\ Prev[n[c]] = c
      BY <2>1, <3>1
    <3> QED BY <2>1, <3>2
  <2>2. CASE ~(\E e \in up : Prev[e] = c) /\ (\E e \in Anc[b] : Prev[e] = c)
    <3>1. PICK e \in Anc[b] : Prev[e] = c
      BY <2>2
    <3>2. e \in Anc[a] /\ pnext[c] = e
      BY <1>1, <2>2, <3>1
    <3>3. ~\E x \in down : Prev[x] = c
      BY <1>1, <3>1, <3>2
    <3>4. n[c] = pnext[c]
      BY <2>2, <3>3
    <3> QED BY <3>1, <3>2, <3>4
  <2>3. CASE ~\E e \in Anc[b] : Prev[e] = c
    <3>1. CASE \E e \in down : Prev[e] = c
      BY <2>3, <3>1
    <3>2. CASE ~\E e \in down : Prev[e] = c
      <4>1. n[c] = pnext[c]
        BY <2>3, <3>2
      <4>2. ~\E e \in Anc[a] : Prev[e] = c
        BY <2>3, <3>2
      <4> QED BY <2>3, <4>1, <4>2 DEF LinksAre
    <3> QED BY <3>1, <3>2
  <2> QED BY <2>1, <2>2, <2>3
<1>3. LinksAre(n, b)
  BY <1>2 DEF LinksAre
<1>4. Relinked(a, b) = n
  BY DEF Relinked, Branch
<1> QED BY <1>3, <1>4

-----------------------------------------------------------------------------
(* The invariant and its steps.                                            *)

IndexInv == TipsAgree /\ LinksOK /\ ChainInv

LEMMA InitIndex == Init => IndexInv
<1> SUFFICES ASSUME Init PROVE IndexInv
  OBVIOUS
<1>1. Anc[Genesis] = {Genesis} /\ Prev[Genesis] = None /\ None \notin Blocks
  BY TreeAssumption
<1>2. ChainTxs(Genesis) = {}
  BY <1>1 DEF ChainTxs
<1>3. TxIndexIs(disk, Genesis)
  BY <1>1, <1>2 DEF Init, TxIndexIs, EmptyDatabase
<1>4. LinksAre(disk.hashNext, Genesis)
  BY <1>1 DEF Init, LinksAre, EmptyDatabase
<1>5. NoDuplicates(Genesis) /\ SpentOnce(Genesis)
  BY <1>1 DEF NoDuplicates, SpentOnce
<1>6. disk.hashBestChain = Genesis /\ pindexBest = Genesis /\ pnext = disk.hashNext /\ pc = "idle"
  BY DEF Init, EmptyDatabase
<1> QED BY <1>3, <1>4, <1>5, <1>6 DEF IndexInv, TipsAgree, LinksOK, ChainInv, ChainIs

\* Steps that leave the links, the transaction index and the tips alone.
LEMMA IndexFrame ==
    ASSUME IndexInv, disk'.txPos = disk.txPos, disk'.vSpent = disk.vSpent,
           disk'.hashNext = disk.hashNext, disk'.hashBestChain = disk.hashBestChain,
           pnext' = pnext, pindexBest' = pindexBest, postponedFailed' = postponedFailed,
           pc # "postponed", pc' \notin {"reorganize", "postponed"}
    PROVE  IndexInv'
BY DEF IndexInv, TipsAgree, LinksOK, ChainInv, ChainIs, TxIndexIs

\* Connecting the next block on top of the tip on disk.
LEMMA IndexInner ==
    ASSUME ZeroValue = {}, Inv, ChainIs(disk, disk.hashBestChain), pnext = disk.hashNext,
           NEW b \in mapBlockIndex \ {Genesis}, Prev[b] = disk.hashBestChain,
           SetBestChainInner(b)
    PROVE  ChainIs(disk', b) /\ disk'.hashBestChain = b /\ pnext' = disk'.hashNext
<1>1. /\ b \in Blocks \ {Genesis} /\ Prev[b] \in Blocks /\ disk \in Database
      /\ pnext \in [Blocks -> Blocks \cup {None}]
      /\ Prev[b] # b /\ b \notin Anc[Prev[b]]
  BY AncSelf, TreeAssumption DEF Inv, TypeOK
<1>2. Anc[b] \cap Rejected = {}
  BY AncIndexed DEF Inv, IndexOK
<1>3. ChainIs(disk, Prev[b]) /\ pnext = disk.hashNext
  OBVIOUS
<1>4. pnext[b] = None
  BY <1>1, <1>3, NoLink DEF ChainIs
<1>5. Connects(disk, b) /\ disk' = WriteHashBestChain(ConnectBlock(disk, b), b)
      /\ pnext' = [pnext EXCEPT ![Prev[b]] = b]
  BY DEF SetBestChainInner
<1> DEFINE e == ConnectBlock(disk, b)
<1>6. ChainIs(e, b) /\ e \in Database
  BY <1>1, <1>2, <1>3, <1>4, <1>5, ConnectChain, ConnectBlockType
<1> HIDE DEF e
<1>7. /\ disk'.hashBestChain = b /\ disk'.hashNext = e.hashNext
      /\ disk'.txPos = e.txPos /\ disk'.vSpent = e.vSpent
  BY <1>1, <1>5, <1>6, BestType DEF e
<1>8. ChainIs(disk', b)
  BY <1>6, <1>7 DEF ChainIs, TxIndexIs
<1>9. e.hashNext = [disk.hashNext EXCEPT ![b] = pnext[b], ![Prev[b]] = b]
  <2>1. ConnectInputs(disk, b) \in Database /\ ConnectInputs(disk, b).hashNext = disk.hashNext
    BY <1>1, ConnectInputsType
  <2> QED BY <2>1 DEF e, ConnectBlock, Database
<1>10. pnext' = e.hashNext
  BY <1>1, <1>3, <1>4, <1>5, <1>9
<1> QED BY <1>7, <1>8, <1>10

\* One step of the batch.
LEMMA IndexBatch ==
    ASSUME IndexInv, pc = "reorganize",
           ~postponedFailed => ChainIs(batch', cursor'),
           UNCHANGED <<disk, memory, orphan, pc, pblock, vWorkQueue, postponedFailed, restarts>>
    PROVE  IndexInv'
<1>1. /\ disk' = disk /\ pnext' = pnext /\ pindexBest' = pindexBest
      /\ pc' = pc /\ postponedFailed' = postponedFailed
  BY DEF memory
<1> QED BY <1>1 DEF IndexInv, TipsAgree, LinksOK, ChainInv

\* AcceptBlock, between two blocks: the new block is no link of the best chain.
LEMMA AcceptIndex ==
    ASSUME Inv, IndexInv, NEW b \in Blocks, AcceptBlock(b), pc \in {"idle", "orphans"}
    PROVE  IndexInv'
<1>1. CASE PassesAcceptBlock(b) /\ AddToBlockIndex(b)
  <2>1. b \notin mapBlockIndex /\ disk \in Database
    BY <1>1 DEF PassesAcceptBlock, Inv, TypeOK
  <2>2. /\ disk'.txPos = disk.txPos /\ disk'.vSpent = disk.vSpent
        /\ disk'.hashBestChain = disk.hashBestChain
        /\ disk'.hashNext = [disk.hashNext EXCEPT ![b] = None]
    BY <1>1, <2>1 DEF AddToBlockIndex, Database
  <2>3. /\ pnext' = pnext /\ pindexBest' = pindexBest /\ postponedFailed' = postponedFailed
        /\ pc' \notin {"reorganize", "postponed"}
    BY <1>1 DEF AddToBlockIndex, Accepted
  <2>4. ~postponedFailed => disk'.hashNext = disk.hashNext
    <3> SUFFICES ASSUME ~postponedFailed PROVE disk'.hashNext = disk.hashNext
      OBVIOUS
    <3>1. LinksAre(disk.hashNext, disk.hashBestChain) /\ disk.hashBestChain \in Blocks
          /\ disk.hashBestChain \in mapBlockIndex
      BY <2>1 DEF IndexInv, LinksOK, Inv, IndexOK, Database
    <3>2. b \notin Anc[disk.hashBestChain]
      BY <2>1, <3>1, AncIndexed
    <3>3. disk.hashNext[b] = None
      BY <3>1, <3>2, NoLink
    <3>4. disk.hashNext \in [Blocks -> Blocks \cup {None}]
      BY <2>1 DEF Database
    <3> QED BY <2>2, <3>3, <3>4
  <2>5. CASE postponedFailed
    BY <2>3, <2>5 DEF IndexInv, TipsAgree, LinksOK, ChainInv
  <2>6. CASE ~postponedFailed
    BY <2>2, <2>3, <2>4, <2>6, IndexFrame
  <2> QED BY <2>5, <2>6
<1>2. CASE Refused /\ UNCHANGED <<disk, memory, postponedFailed, restarts>>
  <2>1. /\ disk' = disk /\ pnext' = pnext /\ pindexBest' = pindexBest
        /\ postponedFailed' = postponedFailed /\ pc' \in {"idle", "orphans"}
    BY <1>2 DEF memory, Refused
  <2> QED BY <2>1, IndexFrame
<1> QED BY <1>1, <1>2 DEF AcceptBlock

LEMMA NextIndex ==
    ASSUME ZeroValue = {}
    PROVE  Inv /\ IndexInv /\ [Next]_vars => IndexInv'
<1> SUFFICES ASSUME Inv, IndexInv, [Next]_vars PROVE IndexInv'
  OBVIOUS
<1>1. ASSUME NEW b \in Blocks, HoldOrphan(b) \/ DropBlock(b) PROVE IndexInv'
  <2>1. disk' = disk /\ pnext' = pnext /\ pindexBest' = pindexBest
        /\ postponedFailed' = postponedFailed /\ pc = "idle" /\ pc' = "idle"
    BY <1>1 DEF HoldOrphan, DropBlock, NewBlock, vars, db, memory
  <2> QED BY <2>1, IndexFrame
<1>2. ASSUME NEW b \in Blocks, AcceptBlock(b), pc \in {"idle", "orphans"} PROVE IndexInv'
  BY <1>2, AcceptIndex
<1>3. ASSUME NEW b \in Blocks, ProcessBlock(b) \/ ProcessOrphan(b) PROVE IndexInv'
  BY <1>2, <1>3 DEF ProcessBlock, ProcessOrphan, NewBlock
<1>4. CASE NextInQueue
  <2>1. /\ disk' = disk /\ pnext' = pnext /\ pindexBest' = pindexBest
        /\ postponedFailed' = postponedFailed /\ pc = "orphans" /\ pc' \in {"idle", "orphans"}
    BY <1>4 DEF NextInQueue, db, memory
  <2> QED BY <2>1, IndexFrame
<1>5. CASE Restart
  <2>1. /\ disk' = disk /\ pnext' = disk.hashNext /\ pindexBest' = disk.hashBestChain
        /\ postponedFailed' = postponedFailed /\ pc' = "idle"
    BY <1>5 DEF Restart
  <2> QED BY <2>1 DEF IndexInv, TipsAgree, LinksOK, ChainInv
<1>6. CASE ExtendBestFails \/ ReorganizeFails
  <2>1. /\ disk' = disk /\ pnext' = pnext /\ pindexBest' = pindexBest
        /\ postponedFailed' = postponedFailed
        /\ pc # "postponed" /\ pc' \in {"idle", "orphans"}
    BY <1>6 DEF ExtendBestFails, ReorganizeFails, Refused, memory
  <2> QED BY <2>1, IndexFrame
<1>7. CASE ExtendBest
  <2>1. /\ pc = "setbest" /\ Prev[pblock] = pindexBest /\ SetBestChainInner(pblock)
        /\ pindexBest' = pblock /\ pc' = "orphans" /\ postponedFailed' = postponedFailed
    BY <1>7 DEF ExtendBest, Accepted
  <2>2. pblock \in mapBlockIndex \ {Genesis}
    BY <2>1 DEF Inv, ControlOK
  <2>3. ~postponedFailed => pindexBest = disk.hashBestChain
    BY <2>1 DEF IndexInv, TipsAgree
  <2>4. ~postponedFailed =>
           ChainIs(disk', pblock) /\ disk'.hashBestChain = pblock /\ pnext' = disk'.hashNext
    BY <2>1, <2>2, <2>3, IndexInner DEF IndexInv, ChainInv, LinksOK
  <2> QED BY <2>1, <2>4 DEF IndexInv, TipsAgree, LinksOK, ChainInv, ChainIs
<1>8. CASE BeginReorganize
  <2>1. /\ disk' = disk /\ batch' = disk /\ cursor' = pindexBest /\ pc = "setbest"
        /\ pc' = "reorganize" /\ pnext' = pnext /\ pindexBest' = pindexBest
        /\ postponedFailed' = postponedFailed
    BY <1>8 DEF BeginReorganize, memory
  <2> QED BY <2>1 DEF IndexInv, TipsAgree, LinksOK, ChainInv
<1>9. CASE ReorganizeDisconnect
  <2>1. cursor \in Blocks \ {Genesis} /\ batch \in Database
    <3>1. cursor \in Blocks /\ pindexIntermediate \in Blocks
      BY <1>9, ReorganizeFacts DEF ReorganizeDisconnect
    <3> QED BY <1>9, <3>1, AncSelf DEF ReorganizeDisconnect, Inv, TypeOK
  <2>2. ~postponedFailed => ChainIs(DisconnectBlock(batch, cursor), Prev[cursor])
    BY <1>9, <2>1, DisconnectChain DEF ReorganizeDisconnect, IndexInv, ChainInv
  <2> QED BY <1>9, <2>2, IndexBatch DEF ReorganizeDisconnect
<1>10. CASE ReorganizeConnect
  <2> DEFINE b == NextTowards(cursor, pindexIntermediate)
  <2>1. /\ pindexIntermediate \in Blocks /\ pindexIntermediate \in Anc[pblock]
        /\ pblock \in mapBlockIndex /\ batch \in Database /\ pindexBest \in Blocks
    BY <1>10, ReorganizeFacts DEF ReorganizeConnect, Inv, TypeOK, ControlOK
  <2>2. /\ b \in Anc[pindexIntermediate] /\ b \in Blocks \ {Genesis}
        /\ Prev[b] = cursor
    BY <1>10, <2>1, NextBlock DEF ReorganizeConnect
  <2>3. b \in mapBlockIndex
    BY <2>1, <2>2, AncIndexed
  <2>4. Anc[b] \cap Rejected = {}
    BY <2>3, AncIndexed DEF Inv, IndexOK
  <2>5. b \notin Anc[pindexBest]
    <3>1. b \notin Anc[cursor]
      BY <2>2, TreeAssumption
    <3> QED BY <1>10, <2>2, <3>1 DEF ReorganizeConnect, Inv, ControlOK
  <2>6. ~postponedFailed => pnext[b] = None
    <3>1. ~postponedFailed => LinksAre(pnext, pindexBest)
      BY <1>10 DEF IndexInv, TipsAgree, LinksOK, ReorganizeConnect
    <3> QED BY <2>1, <2>2, <2>5, <3>1, NoLink
  <2>7. Connects(batch, b) /\ batch' = ConnectBlock(batch, b) /\ cursor' = b /\ pc = "reorganize"
    BY <1>10 DEF ReorganizeConnect
  <2>8. ~postponedFailed => ChainIs(batch, Prev[b])
    BY <2>2, <2>7 DEF IndexInv, ChainInv
  <2> HIDE DEF b
  <2>9. ~postponedFailed => ChainIs(batch', cursor')
    BY <2>1, <2>2, <2>4, <2>6, <2>7, <2>8, ConnectChain
  <2> QED BY <1>10, <2>9, IndexBatch DEF ReorganizeConnect
<1>11. CASE CommitReorganize
  <2>1. /\ cursor \in Blocks /\ pindexBest \in Blocks /\ batch \in Database
        /\ pnext \in [Blocks -> Blocks \cup {None}]
    BY <1>11, ReorganizeFacts DEF CommitReorganize, Inv, TypeOK
  <2>2. /\ disk' = WriteHashBestChain(batch, cursor) /\ pc = "reorganize" /\ pc' = "postponed"
        /\ cursor' = cursor /\ postponedFailed' = postponedFailed
    BY <1>11 DEF CommitReorganize
  <2>3. /\ disk'.hashBestChain = cursor /\ disk'.hashNext = batch.hashNext
        /\ disk'.txPos = batch.txPos /\ disk'.vSpent = batch.vSpent
    BY <2>1, <2>2, BestType
  <2>4. ~postponedFailed => ChainIs(disk', cursor)
    BY <2>2, <2>3 DEF IndexInv, ChainInv, ChainIs, TxIndexIs
  <2>5. ~postponedFailed => pnext' = disk'.hashNext
    <3> SUFFICES ASSUME ~postponedFailed PROVE pnext' = disk'.hashNext
      OBVIOUS
    <3>1. LinksAre(pnext, pindexBest)
      BY <2>2 DEF IndexInv, TipsAgree, LinksOK
    <3>2. LinksAre(pnext', cursor)
      BY <1>11, <2>1, <3>1, RelinkedMemory DEF CommitReorganize
    <3>3. LinksAre(batch.hashNext, cursor) /\ batch.hashNext \in [Blocks -> Blocks \cup {None}]
      BY <2>1, <2>2 DEF IndexInv, ChainInv, ChainIs, Database
    <3>4. pnext' \in [Blocks -> Blocks \cup {None}]
      BY <1>11, NextInv DEF Inv, TypeOK
    <3> QED BY <2>1, <2>3, <3>2, <3>3, <3>4, LinksUnique
  <2> QED BY <2>2, <2>3, <2>4, <2>5 DEF IndexInv, TipsAgree, LinksOK, ChainInv, ChainIs
<1>12. CASE ConnectPostponed
  <2> DEFINE b == NextTowards(cursor, pblock)
  <2>1. pblock \in Blocks /\ cursor \in Anc[pblock] /\ cursor # pblock /\ pblock \in mapBlockIndex
    BY <1>12 DEF ConnectPostponed, Inv, TypeOK, ControlOK
  <2>2. b \in mapBlockIndex \ {Genesis} /\ Prev[b] = cursor
    BY <2>1, NextBlock, AncIndexed
  <2>3. /\ SetBestChainInner(b) /\ cursor' = b /\ pc = "postponed" /\ pc' = "postponed"
        /\ postponedFailed' = postponedFailed
    BY <1>12 DEF ConnectPostponed
  <2> HIDE DEF b
  <2>4. ~postponedFailed => Prev[b] = disk.hashBestChain
    BY <2>2, <2>3 DEF IndexInv, TipsAgree
  <2>5. ~postponedFailed =>
           ChainIs(disk', b) /\ disk'.hashBestChain = b /\ pnext' = disk'.hashNext
    BY <2>2, <2>3, <2>4, IndexInner DEF IndexInv, ChainInv, LinksOK
  <2> QED BY <2>3, <2>5 DEF IndexInv, TipsAgree, LinksOK, ChainInv, ChainIs
<1>13. CASE NewBestBlock
  <2>1. /\ disk' = disk /\ pnext' = pnext /\ pindexBest' = pblock
        /\ pc = "postponed" /\ pc' = "orphans"
    BY <1>13 DEF NewBestBlock, Accepted
  <2>2. CASE cursor = pblock /\ postponedFailed' = postponedFailed
    BY <2>1, <2>2 DEF IndexInv, TipsAgree, LinksOK, ChainInv
  <2>3. CASE postponedFailed' = TRUE
    BY <2>3 DEF IndexInv, TipsAgree, LinksOK, ChainInv
  <2> QED BY <1>13, <2>2, <2>3 DEF NewBestBlock
<1>14. CASE UNCHANGED vars
  BY <1>14 DEF vars, db, memory, IndexInv, TipsAgree, LinksOK, ChainInv
<1> QED BY <1>1, <1>3, <1>4, <1>5, <1>6, <1>7, <1>8, <1>9, <1>10, <1>11, <1>12, <1>13, <1>14
        DEF Next, SetBestChain

-----------------------------------------------------------------------------
\* When every output is worth something, then until a postponed block fails, in
\* every state that a crash may leave on disk: the transaction index describes
\* the chain of hashBestChain, no output of it is spent twice, the forward links
\* are its path, and the tip in memory is the tip on disk (ConnectBlock,
\* DisconnectBlock, Reorganize, SetBestChain, LoadBlockIndex).
THEOREM IndexCorrect ==
    ASSUME ZeroValue = {}
    PROVE  Spec => [](TxIndexOK /\ NoDoubleSpend /\ LinksOK /\ TipsAgree)
<1>1. Inv /\ IndexInv /\ [Next]_vars => (Inv /\ IndexInv)'
  BY NextInv, NextIndex
<1>2. IndexInv => TxIndexOK /\ NoDoubleSpend /\ LinksOK /\ TipsAgree
  BY DEF IndexInv, ChainInv, ChainIs, TxIndexOK, NoDoubleSpend
<1> QED BY InitInv, InitIndex, <1>1, <1>2, PTL DEF Spec

-----------------------------------------------------------------------------
(* The chain that is chosen.  A block is judged by the index on disk or in *)
(* the batch, which has come a long way of connects and disconnects; the   *)
(* verdict is the one that the block's own chain deserves.                 *)

\* An index that describes a chain gives the verdict of the chain's own index.
LEMMA ConnectsSame ==
    ASSUME NEW d \in Database, NEW a \in Blocks, TxIndexIs(d, a), NEW b \in Blocks
    PROVE  Connects(d, b) <=> Connects(IndexOf[a], b)
<1> DEFINE e == IndexOf[a]
<1>1. /\ e.txPos = [t \in Tx |->
                      IF t \in ChainTxs(a) THEN CHOOSE c \in Anc[a] \ {Genesis} : t \in TxsOf(c)
                                           ELSE None]
      /\ e.vSpent = [o \in OutPoints |->
                      IF \E t \in ChainTxs(a) : o \in vin[t]
                      THEN CHOOSE t \in ChainTxs(a) : o \in vin[t]
                      ELSE None]
  BY DEF IndexOf, EmptyDatabase
<1> HIDE DEF e
<1>2. ASSUME NEW t \in Tx PROVE e.txPos[t] = d.txPos[t]
  <2>1. CASE t \in ChainTxs(a)
    <3> DEFINE c == CHOOSE c \in Anc[a] \ {Genesis} : t \in TxsOf(c)
    <3>1. \E x \in Anc[a] \ {Genesis} : t \in TxsOf(x)
      BY <2>1 DEF ChainTxs
    <3>2. c \in Anc[a] \ {Genesis} /\ t \in TxsOf(c)
      BY <3>1
    <3>3. e.txPos[t] = c
      BY <1>1, <2>1
    <3> HIDE DEF c
    <3> QED BY <3>2, <3>3 DEF TxIndexIs
  <2>2. CASE t \notin ChainTxs(a)
    BY <1>1, <2>2 DEF TxIndexIs
  <2> QED BY <2>1, <2>2
<1>3. ASSUME NEW o \in OutPoints PROVE e.vSpent[o] = None <=> d.vSpent[o] = None
  <2>1. CASE \E t \in ChainTxs(a) : o \in vin[t]
    <3> DEFINE t == CHOOSE t \in ChainTxs(a) : o \in vin[t]
    <3>1. t \in ChainTxs(a)
      BY <2>1
    <3>2. e.vSpent[o] = t
      BY <1>1, <2>1
    <3> HIDE DEF t
    <3>3. t # None
      BY <3>1, TxsType, TxAssumption
    <3> QED BY <2>1, <3>2, <3>3 DEF TxIndexIs
  <2>2. CASE ~\E t \in ChainTxs(a) : o \in vin[t]
    BY <1>1, <2>2 DEF TxIndexIs
  <2> QED BY <2>1, <2>2
<1>4. \A t \in TxsOf(b) : t \in Tx
  BY TxsType
<1>5. NoOverwrite(d, b) <=> NoOverwrite(e, b)
  BY <1>2, <1>3, <1>4 DEF NoOverwrite
<1>6. ASSUME NEW i \in DOMAIN vtx[b], NEW o \in vin[vtx[b][i]]
      PROVE  InputOK(d, b, i, o) <=> InputOK(e, b, i, o)
  <2>1. vtx[b] \in Seq(Tx)
    BY TxAssumption
  <2>2. o \in OutPoints /\ o[1] \in Tx
    BY <1>6, <2>1, TxAssumption
  <2>3. PosOf(d, b, i, o[1]) = PosOf(e, b, i, o[1])
    BY <1>2, <2>2 DEF PosOf
  <2>4. Immature(d, b, i, o[1]) <=> Immature(e, b, i, o[1])
    BY <2>3 DEF Immature
  <2>5. AlreadySpent(d, b, i, o) <=> AlreadySpent(e, b, i, o)
    BY <1>3, <2>2 DEF AlreadySpent
  <2> QED BY <2>3, <2>4, <2>5 DEF InputOK
<1>7. Connects(d, b) <=> Connects(e, b)
  BY <1>5, <1>6 DEF Connects
<1> QED BY <1>7 DEF e

\* A valid block connects to every index that describes its parent's chain, and
\* so does each of its ancestors.
LEMMA ValidConnects ==
    ASSUME NEW b \in ValidBlocks, NEW c \in Anc[b] \ {Genesis},
           NEW d \in Database, TxIndexIs(d, Prev[c])
    PROVE  Connects(d, c)
<1>1. b \in Blocks /\ c \in Blocks /\ Prev[c] \in Blocks
  BY AncSelf, TreeAssumption DEF ValidBlocks
<1>2. Connects(IndexOf[Prev[c]], c)
  BY DEF ValidBlocks
<1> QED BY <1>1, <1>2, ConnectsSame

\* The tip of a consistent chain can be disconnected.
LEMMA ChainDisconnects ==
    ASSUME NEW d \in Database, NEW b \in Blocks \ {Genesis}, ChainIs(d, b)
    PROVE  Disconnects(d, b)
<1> SUFFICES ASSUME NEW t \in TxsOf(b), NEW o \in vin[t] PROVE d.txPos[o[1]] # None
  BY DEF Disconnects
<1>1. t \in ChainTxs(b)
  BY ChainTxsStep
<1>2. o[1] \in ChainTxs(b)
  BY <1>1, InputInChain DEF ChainIs
<1>3. PICK c \in Anc[b] \ {Genesis} : o[1] \in TxsOf(c)
  BY <1>2 DEF ChainTxs
<1>4. d.txPos[o[1]] = c
  BY <1>3 DEF ChainIs, TxIndexIs
<1> QED BY <1>3, <1>4, AncSelf, TreeAssumption

\* Only an invalid block is refused by SetBestChain.
LEMMA RefusedInvalid ==
    ASSUME Inv, IndexInv, ~postponedFailed, ExtendBestFails \/ ReorganizeFails
    PROVE  pblock \notin ValidBlocks
<1>1. CASE ExtendBestFails
  <2>1. pc = "setbest" /\ Prev[pblock] = pindexBest /\ ~Connects(disk, pblock)
    BY <1>1 DEF ExtendBestFails
  <2>2. pblock \in Blocks \ {Genesis} /\ disk \in Database
    BY <2>1 DEF Inv, TypeOK, ControlOK
  <2>3. TxIndexIs(disk, Prev[pblock])
    BY <2>1 DEF IndexInv, TipsAgree, ChainInv, ChainIs
  <2> QED BY <2>1, <2>2, <2>3, AncSelf, ValidConnects
<1>2. CASE ReorganizeFails
  <2>1. pc = "reorganize" /\ ChainIs(batch, cursor) /\ batch \in Database
    BY <1>2 DEF ReorganizeFails, IndexInv, ChainInv, Inv, TypeOK
  <2>2. /\ cursor \in Blocks /\ pindexIntermediate \in Blocks
        /\ pindexIntermediate \in Anc[pblock] /\ pblock \in Blocks
    BY <2>1, ReorganizeFacts DEF Inv, TypeOK, ControlOK
  <2>3. CASE cursor \notin Anc[pindexIntermediate] /\ ~Disconnects(batch, cursor)
    <3>1. cursor # Genesis
      BY <2>2, <2>3, AncSelf
    <3> QED BY <2>1, <2>2, <2>3, <3>1, ChainDisconnects
  <2>4. CASE /\ cursor \in Anc[pindexIntermediate] \ {pindexIntermediate}
             /\ ~Connects(batch, NextTowards(cursor, pindexIntermediate))
    <3> DEFINE b == NextTowards(cursor, pindexIntermediate)
    <3>1. b \in Anc[pindexIntermediate] /\ b \in Blocks \ {Genesis} /\ Prev[b] = cursor
      BY <2>2, <2>4, NextBlock
    <3>2. ~Connects(batch, b)
      BY <2>4
    <3> HIDE DEF b
    <3>3. b \in Anc[pblock]
      BY <2>2, <3>1, AncClosed
    <3>4. TxIndexIs(batch, Prev[b])
      BY <2>1, <3>1 DEF ChainIs
    <3> QED BY <2>1, <3>1, <3>2, <3>3, <3>4, ValidConnects
  <2> QED BY <1>2, <2>3, <2>4 DEF ReorganizeFails
<1> QED BY <1>1, <1>2

\* While SetBestChain is at work, pblock is the one block that may outweigh the
\* tip, and the one whose orphans may still be waiting for it to be queued.
InSetBestChain == pc \in {"setbest", "reorganize", "postponed"}

HeaviestInv ==
    restarts = 0 /\ ~postponedFailed =>
        \A b \in mapBlockIndex \cap ValidBlocks :
            nChainTrust[b] <= nChainTrust[pindexBest] \/ (InSetBestChain /\ b = pblock)

InQueue(b) == \E i \in 1 .. Len(vWorkQueue) : vWorkQueue[i] = b

StrandedInv ==
    ~postponedFailed =>
        \A o \in mapOrphanBlocks :
            Prev[o] \in mapBlockIndex \cap ValidBlocks =>
                InQueue(Prev[o]) \/ (InSetBestChain /\ Prev[o] = pblock)

ChoiceInv == HeaviestInv /\ StrandedInv

LEMMA ChoiceFrame ==
    ASSUME ChoiceInv, InSetBestChain' = InSetBestChain,
           UNCHANGED <<mapBlockIndex, pindexBest, pblock, vWorkQueue, postponedFailed, restarts>>,
           \A o \in mapOrphanBlocks' : o \in mapOrphanBlocks \/ Prev[o] \notin mapBlockIndex
    PROVE  ChoiceInv'
BY DEF ChoiceInv, HeaviestInv, StrandedInv, InQueue

\* A block is accepted: it is queued, and nothing in the index outweighs the tip.
LEMMA AcceptedChoice ==
    ASSUME Inv, ChoiceInv, NEW b \in Blocks, Accepted(b), pindexBest' \in Blocks,
           mapBlockIndex' \subseteq mapBlockIndex \cup {b}, mapOrphanBlocks' \subseteq mapOrphanBlocks,
           UNCHANGED <<postponedFailed, restarts>>,
           InSetBestChain => b = pblock,
           nChainTrust[pindexBest] <= nChainTrust[pindexBest'],
           nChainTrust[b] <= nChainTrust[pindexBest']
    PROVE  ChoiceInv'
<1>1. vWorkQueue \in Seq(Blocks) /\ vWorkQueue' = Append(vWorkQueue, b) /\ pc' = "orphans"
  BY DEF Accepted, Inv, TypeOK
<1>2. ~InSetBestChain'
  BY <1>1 DEF InSetBestChain
<1>3. ASSUME restarts = 0, ~postponedFailed, NEW c \in mapBlockIndex' \cap ValidBlocks
      PROVE  nChainTrust[c] <= nChainTrust[pindexBest']
  <2>1. c \in Blocks /\ pindexBest \in Blocks
    BY <1>3 DEF ValidBlocks, Inv, TypeOK
  <2>2. CASE c = b
    BY <2>2
  <2>3. CASE c # b
    <3>1. c \in mapBlockIndex \cap ValidBlocks /\ nChainTrust[c] <= nChainTrust[pindexBest]
      BY <1>3, <2>3 DEF ChoiceInv, HeaviestInv
    <3> QED BY <2>1, <3>1, TreeAssumption
  <2> QED BY <2>2, <2>3
<1>4. HeaviestInv'
  BY <1>3 DEF HeaviestInv
<1>5. vWorkQueue'[Len(vWorkQueue) + 1] = b /\ Len(vWorkQueue') = Len(vWorkQueue) + 1
      /\ Len(vWorkQueue) \in Nat
      /\ \A i \in 1 .. Len(vWorkQueue) : vWorkQueue'[i] = vWorkQueue[i]
  BY <1>1
<1>6. ASSUME NEW c \in Blocks, c = b \/ InQueue(c)
      PROVE  \E i \in 1 .. Len(vWorkQueue') : vWorkQueue'[i] = c
  <2>1. CASE c = b
    BY <1>5, <2>1
  <2>2. CASE InQueue(c)
    BY <1>5, <2>2 DEF InQueue
  <2> QED BY <1>6, <2>1, <2>2
<1>7. ASSUME ~postponedFailed, NEW o \in mapOrphanBlocks', Prev[o] \in mapBlockIndex' \cap ValidBlocks
      PROVE  \E i \in 1 .. Len(vWorkQueue') : vWorkQueue'[i] = Prev[o]
  <2>1. Prev[o] \in Blocks
    BY <1>7 DEF ValidBlocks
  <2>2. Prev[o] = b \/ InQueue(Prev[o])
    BY <1>7 DEF ChoiceInv, StrandedInv
  <2> QED BY <1>6, <2>1, <2>2
<1>8. StrandedInv'
  BY <1>7 DEF StrandedInv, InQueue
<1> QED BY <1>4, <1>8 DEF ChoiceInv

\* A block is refused: it was in the index already and invalid, or never gets there.
LEMMA RefusedChoice ==
    ASSUME Inv, ChoiceInv, Refused, mapOrphanBlocks' \subseteq mapOrphanBlocks,
           UNCHANGED <<mapBlockIndex, pindexBest, postponedFailed, restarts>>,
           ~postponedFailed /\ InSetBestChain => pblock \notin ValidBlocks
    PROVE  ChoiceInv'
<1>1. vWorkQueue' = vWorkQueue
  BY DEF Refused
<1>2. HeaviestInv'
  BY DEF ChoiceInv, HeaviestInv
<1>3. StrandedInv'
  BY <1>1 DEF ChoiceInv, StrandedInv, InQueue
<1> QED BY <1>2, <1>3 DEF ChoiceInv

LEMMA AcceptChoice ==
    ASSUME Inv, ChoiceInv, NEW b \in Blocks, AcceptBlock(b), pc \in {"idle", "orphans"},
           mapOrphanBlocks' \subseteq mapOrphanBlocks
    PROVE  ChoiceInv'
<1>0. ~InSetBestChain /\ pindexBest \in Blocks
  BY DEF InSetBestChain, Inv, TypeOK
<1>1. CASE AddToBlockIndex(b)
  <2>1. mapBlockIndex' = mapBlockIndex \cup {b} /\ UNCHANGED <<pindexBest, postponedFailed, restarts>>
    BY <1>1 DEF AddToBlockIndex
  <2>2. CASE pc' = "setbest" /\ pblock' = b /\ vWorkQueue' = vWorkQueue
    <3>1. InSetBestChain'
      BY <2>2 DEF InSetBestChain
    <3>2. HeaviestInv'
      BY <1>0, <2>1, <2>2, <3>1 DEF ChoiceInv, HeaviestInv
    <3>3. StrandedInv'
      BY <1>0, <2>1, <2>2, <3>1 DEF ChoiceInv, StrandedInv, InQueue
    <3> QED BY <3>2, <3>3 DEF ChoiceInv
  <2>3. CASE nChainTrust[b] <= nChainTrust[pindexBest] /\ Accepted(b)
    <3>1. nChainTrust[pindexBest] <= nChainTrust[pindexBest']
      BY <1>0, <2>1, TreeAssumption
    <3> QED BY <1>0, <2>1, <2>3, <3>1, AcceptedChoice
  <2> QED BY <1>1, <2>2, <2>3 DEF AddToBlockIndex
<1>2. CASE Refused /\ UNCHANGED <<disk, memory, postponedFailed, restarts>>
  <2>1. UNCHANGED <<mapBlockIndex, pindexBest, postponedFailed, restarts>>
    BY <1>2 DEF memory
  <2> QED BY <1>0, <1>2, <2>1, RefusedChoice
<1> QED BY <1>1, <1>2 DEF AcceptBlock

LEMMA InitChoice == Init => ChoiceInv
<1> SUFFICES ASSUME Init PROVE ChoiceInv
  OBVIOUS
<1>1. mapBlockIndex = {Genesis} /\ pindexBest = Genesis /\ mapOrphanBlocks = {}
  BY DEF Init
<1> QED BY <1>1, TreeAssumption DEF ChoiceInv, HeaviestInv, StrandedInv

LEMMA NextChoice == Inv /\ IndexInv /\ ChoiceInv /\ [Next]_vars => ChoiceInv'
<1> SUFFICES ASSUME Inv, IndexInv, ChoiceInv, [Next]_vars PROVE ChoiceInv'
  OBVIOUS
<1>1. ASSUME NEW b \in Blocks, HoldOrphan(b) PROVE ChoiceInv'
  <2>1. /\ UNCHANGED <<mapBlockIndex, pindexBest, pblock, vWorkQueue, postponedFailed, restarts, pc>>
        /\ mapOrphanBlocks' = mapOrphanBlocks \cup {b} /\ Prev[b] \notin mapBlockIndex
    BY <1>1 DEF HoldOrphan, memory
  <2> QED BY <2>1, ChoiceFrame DEF InSetBestChain
<1>2. ASSUME NEW b \in Blocks, ProcessBlock(b) \/ ProcessOrphan(b) PROVE ChoiceInv'
  <2>1. AcceptBlock(b) /\ pc \in {"idle", "orphans"} /\ mapOrphanBlocks' \subseteq mapOrphanBlocks
    BY <1>2 DEF ProcessBlock, ProcessOrphan, NewBlock, orphan
  <2> QED BY <2>1, AcceptChoice
<1>3. CASE NextInQueue
  <2>1. /\ UNCHANGED <<mapBlockIndex, pindexBest, pblock, postponedFailed, restarts, mapOrphanBlocks>>
        /\ vWorkQueue' = Tail(vWorkQueue) /\ ~HasOrphanChild(Head(vWorkQueue))
        /\ pc = "orphans" /\ pc' \in {"idle", "orphans"}
    BY <1>3 DEF NextInQueue, memory, orphan
  <2>2. vWorkQueue \in Seq(Blocks) /\ vWorkQueue # <<>>
    BY <2>1 DEF Inv, TypeOK, ControlOK
  <2>3. ~InSetBestChain /\ ~InSetBestChain'
    BY <2>1 DEF InSetBestChain
  <2>4. HeaviestInv'
    BY <2>1, <2>3 DEF ChoiceInv, HeaviestInv
  <2>5. ASSUME ~postponedFailed, NEW o \in mapOrphanBlocks, Prev[o] \in mapBlockIndex \cap ValidBlocks
        PROVE  \E i \in 1 .. Len(vWorkQueue') : vWorkQueue'[i] = Prev[o]
    <3>1. PICK i \in 1 .. Len(vWorkQueue) : vWorkQueue[i] = Prev[o]
      BY <2>3, <2>5 DEF ChoiceInv, StrandedInv, InQueue
    <3>2. i # 1
      BY <2>1, <2>2, <2>5, <3>1 DEF HasOrphanChild
    <3>3. Len(vWorkQueue') = Len(vWorkQueue) - 1 /\ Len(vWorkQueue) \in Nat
          /\ i - 1 \in 1 .. Len(vWorkQueue')
      BY <2>1, <2>2, <3>1, <3>2
    <3>4. vWorkQueue'[i - 1] = vWorkQueue[i]
      BY <2>1, <2>2, <3>1, <3>3
    <3> QED BY <3>1, <3>3, <3>4
  <2>6. StrandedInv'
    BY <2>1, <2>5 DEF StrandedInv, InQueue
  <2> QED BY <2>4, <2>6 DEF ChoiceInv
<1>4. CASE Restart
  <2>1. restarts' = restarts + 1 /\ mapOrphanBlocks' = {} /\ restarts \in Nat
    BY <1>4, TxAssumption DEF Restart, Inv, TypeOK
  <2> QED BY <2>1 DEF ChoiceInv, HeaviestInv, StrandedInv
<1>5. CASE ExtendBestFails \/ ReorganizeFails
  <2>1. /\ Refused
        /\ UNCHANGED <<mapBlockIndex, pindexBest, postponedFailed, restarts, mapOrphanBlocks>>
    BY <1>5 DEF ExtendBestFails, ReorganizeFails, memory, orphan
  <2>2. ~postponedFailed => pblock \notin ValidBlocks
    BY <1>5, RefusedInvalid
  <2> QED BY <2>1, <2>2, RefusedChoice
<1>6. CASE ExtendBest \/ (NewBestBlock /\ postponedFailed' = postponedFailed)
  <2>1. /\ Accepted(pblock) /\ pindexBest' = pblock /\ pc \in {"setbest", "postponed"}
        /\ UNCHANGED <<mapBlockIndex, mapOrphanBlocks, postponedFailed, restarts>>
    BY <1>6 DEF ExtendBest, NewBestBlock, orphan
  <2>2. /\ pblock \in Blocks /\ pindexBest \in Blocks /\ nChainTrust[pblock] \in Nat
        /\ nChainTrust[pindexBest] \in Nat /\ nChainTrust[pblock] > nChainTrust[pindexBest]
    BY <2>1, TreeAssumption DEF Inv, TypeOK, ControlOK
  <2>3. nChainTrust[pindexBest] <= nChainTrust[pindexBest'] /\ nChainTrust[pblock] <= nChainTrust[pindexBest']
    BY <2>1, <2>2
  <2> QED BY <2>1, <2>2, <2>3, AcceptedChoice
<1>7. CASE NewBestBlock /\ postponedFailed'
  BY <1>7 DEF ChoiceInv, HeaviestInv, StrandedInv
<1>8. CASE \/ BeginReorganize \/ ReorganizeDisconnect \/ ReorganizeConnect
           \/ CommitReorganize \/ ConnectPostponed
  <2>1. /\ UNCHANGED <<mapBlockIndex, pindexBest, pblock, vWorkQueue, postponedFailed, restarts,
                       mapOrphanBlocks>>
        /\ pc \in {"setbest", "reorganize", "postponed"}
        /\ pc' \in {"setbest", "reorganize", "postponed"}
    BY <1>8 DEF BeginReorganize, ReorganizeDisconnect, ReorganizeConnect, CommitReorganize,
                ConnectPostponed, memory, orphan
  <2> QED BY <2>1, ChoiceFrame DEF InSetBestChain
<1>9. CASE UNCHANGED vars
  <2>1. UNCHANGED <<mapBlockIndex, pindexBest, pblock, vWorkQueue, postponedFailed, restarts,
                    mapOrphanBlocks, pc>>
    BY <1>9 DEF vars, memory, orphan
  <2> QED BY <2>1, ChoiceFrame DEF InSetBestChain
<1>10. CASE NewBestBlock
  <2>1. postponedFailed' = postponedFailed \/ postponedFailed'
    BY <1>10 DEF NewBestBlock
  <2> QED BY <1>6, <1>7, <1>10, <2>1
<1>11. ASSUME NEW b \in Blocks, DropBlock(b) PROVE ChoiceInv'
  BY <1>9, <1>11 DEF DropBlock
<1> QED BY <1>1, <1>2, <1>3, <1>4, <1>5, <1>6, <1>8, <1>9, <1>10, <1>11 DEF Next, SetBestChain

\* Whatever the tree of blocks and the order in which they come, a node that has
\* not died and has met no failing postponed block ends every ProcessBlock on
\* the heaviest valid chain it knows; a crash costs that, never the orphans: no
\* block waits for a valid parent the node already has.
THEOREM ChainChosen ==
    ASSUME ZeroValue = {}
    PROVE  Spec => [](BestIsHeaviest /\ NoStrandedOrphan)
<1>1. Inv /\ IndexInv /\ ChoiceInv /\ [Next]_vars => (Inv /\ IndexInv /\ ChoiceInv)'
  BY NextInv, NextIndex, NextChoice
<1>2. Inv /\ ChoiceInv => BestIsHeaviest /\ NoStrandedOrphan
  <2> SUFFICES ASSUME Inv, ChoiceInv, pc = "idle" PROVE BestIsHeaviest /\ NoStrandedOrphan
    BY DEF BestIsHeaviest, NoStrandedOrphan
  <2>1. vWorkQueue = <<>> /\ ~InSetBestChain
    BY DEF Inv, ControlOK, InSetBestChain
  <2>2. \A b \in Blocks : ~InQueue(b)
    BY <2>1 DEF InQueue
  <2>3. BestIsHeaviest
    BY <2>1 DEF ChoiceInv, HeaviestInv, BestIsHeaviest
  <2>4. NoStrandedOrphan
    BY <2>1, <2>2 DEF ChoiceInv, StrandedInv, NoStrandedOrphan, ValidBlocks
  <2> QED BY <2>3, <2>4
<1> QED BY InitInv, InitIndex, InitChoice, <1>1, <1>2, PTL DEF Spec
=============================================================================

---------------------------- MODULE Peers_proofs ----------------------------
(***************************************************************************)
(* For every number of nodes, openers and permits: the counts of           *)
(* references and permits are right, and no node is deleted while a thread *)
(* that has counted a reference uses it; for every number of peers and     *)
(* items, the queues of requests keep their ranges.                        *)
(***************************************************************************)
EXTENDS MCNetwork, FiniteSetTheorems, TLAPS

Addresses   == {Target[o] : o \in Openers} \cup {None}
OpenerSteps == {"idle", "connect", "found", "connecting", "grant", "network", "oneshot"}

\* PeersTypeOK, and the types that the steps rely on.
PTypes ==
    /\ PeersTypeOK
    /\ addr \in [Nodes -> Addresses]
    /\ fInbound \in [Nodes -> BOOLEAN] /\ fNetworkNode \in [Nodes -> BOOLEAN]
    /\ pcO \in [Openers -> OpenerSteps]
    /\ semOutbound \in Int

\* A thread has a copy only while it works on it, and its nodes are not deleted.
CopiesOK ==
    /\ pcS # "service" => copyS = {}
    /\ pcM # "handle" => copyM = {}
    /\ copyS \cup copyM \subseteq vNodes \cup vNodesDisconnected

\* Nobody knows a node that is not allocated yet.
FreshOK ==
    \A n \in Fresh :
        /\ ~fInbound[n] /\ ~fNetworkNode[n] /\ addr[n] = None
        /\ \A o \in Openers : hand[o] # n

\* What an opener holds is an outbound node: inbound ones have no address to find.
HandsOK ==
    /\ \A n \in Nodes : fInbound[n] => addr[n] = None
    /\ \A o \in Openers : pcO[o] \in {"found", "grant", "network", "oneshot"} =>
          hand[o] \in Nodes /\ ~fInbound[hand[o]]

\* The openers that have a permit of their own, and all that are at work.
Waiting == {o \in Openers : pcO[o] \in {"connect", "connecting", "found", "grant"}}
Busy    == {o \in Openers : pcO[o] # "idle"}

FiniteOK == IsFiniteSet(grantOutbound) /\ IsFiniteSet(Busy)

PInv ==
    /\ PTypes /\ CopiesOK /\ FreshOK /\ HandsOK
    /\ RefCountsCover /\ UsersCover
    /\ FiniteOK /\ PermitsConserved

LEMMA InitPeers == PeersInit => PInv
<1> SUFFICES ASSUME PeersInit PROVE PInv
  OBVIOUS
<1>1. PTypes
  BY PeersAssumption DEF PeersInit, PTypes, PeersTypeOK, Addresses, OpenerSteps
<1>2. CopiesOK /\ FreshOK /\ HandsOK
  BY PeersAssumption DEF PeersInit, CopiesOK, FreshOK, HandsOK, Fresh
<1>3. RefCountsCover /\ UsersCover
  BY DEF PeersInit, RefCountsCover, UsersCover
<1>4. grantOutbound = {} /\ Busy = {} /\ Waiting = {}
  BY DEF PeersInit, Busy, Waiting
<1>5. FiniteOK /\ PermitsConserved
  <2>1. semOutbound = MAX_OUTBOUND_CONNECTIONS
    BY DEF PeersInit
  <2> QED BY <1>4, <2>1, FS_EmptySet, PeersAssumption DEF FiniteOK, PermitsConserved, Waiting
<1> QED BY <1>1, <1>2, <1>3, <1>5 DEF PInv

\* The sets that are counted are finite.
LEMMA UsersFinite ==
    ASSUME FiniteOK
    PROVE  /\ IsFiniteSet(Waiting) /\ Cardinality(Waiting) \in Nat
           /\ Cardinality(grantOutbound) \in Nat
           /\ \A n : IsFiniteSet(Users(n)) /\ Cardinality(Users(n)) \in Nat
<1>1. Waiting \subseteq Busy /\ \A n : Users(n) \subseteq Busy
  BY DEF Waiting, Busy, Users
<1>2. IsFiniteSet(Waiting) /\ \A n : IsFiniteSet(Users(n))
  BY <1>1, FS_Subset DEF FiniteOK
<1> QED BY <1>2, FS_CardinalityType DEF FiniteOK

-----------------------------------------------------------------------------
(* The socket and the message thread.                                      *)

\* Steps that leave openers and permits alone.
LEMMA OpenersFrame ==
    ASSUME FiniteOK, PermitsConserved, UNCHANGED <<semVars, openVars>>
    PROVE  FiniteOK' /\ PermitsConserved' /\ \A n : Users(n)' = Users(n)
<1>1. /\ semOutbound' = semOutbound /\ grantOutbound' = grantOutbound
      /\ pcO' = pcO /\ hand' = hand
  BY DEF semVars, openVars
<1>2. Busy' = Busy /\ \A n : Users(n)' = Users(n)
  BY <1>1 DEF Busy, Users
<1> QED BY <1>1, <1>2 DEF FiniteOK, PermitsConserved

LEMMA DisconnectPeers == PInv /\ DisconnectNodes => PInv'
<1> SUFFICES ASSUME PInv, DisconnectNodes PROVE PInv'
  OBVIOUS
<1> DEFINE gone == {n \in vNodes : fDisconnect[n] \/ nRefCount[n] <= 0}
           conn == {n \in gone : fNetworkNode[n] \/ fInbound[n]}
           refs == Release(conn)
           disc == vNodesDisconnected \cup gone
           del  == {n \in disc : refs[n] <= 0}
           left == grantOutbound \cap (gone \cup del)
<1>1. /\ pcS = "disconnect" /\ pcS' = "accept"
      /\ vNodes' = vNodes \ gone /\ nRefCount' = refs
      /\ vNodesDisconnected' = disc \ del /\ deleted' = deleted \cup del
      /\ semOutbound' = semOutbound + Cardinality(left)
      /\ grantOutbound' = grantOutbound \ left
      /\ UNCHANGED <<addr, fInbound, fNetworkNode, copyS, todoS, msgVars, openVars>>
  BY DEF DisconnectNodes
<1>2. pcM' = pcM /\ copyM' = copyM /\ todoM' = todoM /\ relay' = relay /\ pcO' = pcO /\ hand' = hand
  BY <1>1 DEF msgVars, openVars
<1>3. /\ gone \subseteq vNodes /\ disc \subseteq Nodes /\ del \subseteq disc
      /\ \A n \in Nodes : refs[n] = nRefCount[n] - (IF n \in conn THEN 1 ELSE 0)
      /\ refs \in [Nodes -> Int] /\ nRefCount \in [Nodes -> Int]
  BY DEF PInv, PTypes, PeersTypeOK, Release
\* A node that is deleted is in no copy.
<1>4. \A n \in del : n \notin copyS \cup copyM
  BY <1>3 DEF PInv, RefCountsCover, One
<1>5. Fresh' \subseteq Fresh
  BY <1>1, <1>3 DEF Fresh
<1>6. \A n : Users(n)' = Users(n)
  BY <1>2 DEF Users
<1>7. FiniteOK' /\ PermitsConserved'
  <2>1. IsFiniteSet(grantOutbound) /\ IsFiniteSet(Busy)
    BY DEF PInv, FiniteOK
  <2>2. /\ IsFiniteSet(left) /\ IsFiniteSet(grantOutbound \ left)
        /\ Cardinality(grantOutbound \ left) = Cardinality(grantOutbound) - Cardinality(left)
    <3>1. IsFiniteSet(left)
      BY <2>1, FS_Subset
    <3>2. grantOutbound \cap left = left
      OBVIOUS
    <3> HIDE DEF left
    <3> QED BY <2>1, <3>1, <3>2, FS_Difference
  <2>3. Cardinality(left) \in Nat
    BY <2>2, FS_CardinalityType
  <2>4. Busy' = Busy /\ Waiting' = Waiting
    BY <1>2 DEF Busy, Waiting
  <2>5. semOutbound + Cardinality(grantOutbound) + Cardinality(Waiting) = MAX_OUTBOUND_CONNECTIONS
    BY DEF PInv, PermitsConserved, Waiting
  <2>6. semOutbound \in Int /\ Cardinality(Waiting) \in Nat /\ Cardinality(grantOutbound) \in Nat
    BY UsersFinite DEF PInv, PTypes
  <2>7. semOutbound' + Cardinality(grantOutbound') + Cardinality(Waiting') = MAX_OUTBOUND_CONNECTIONS
    <3> HIDE DEF left
    <3> QED BY <1>1, <2>2, <2>3, <2>4, <2>5, <2>6
  <2>8. PermitsConserved'
    BY <2>7 DEF PermitsConserved, Waiting
  <2> HIDE DEF left
  <2> QED BY <1>1, <2>1, <2>2, <2>4, <2>8 DEF FiniteOK
<1>8. semOutbound' \in Int
  <2>1. IsFiniteSet(left)
    BY FS_Subset DEF PInv, FiniteOK
  <2>2. Cardinality(left) \in Nat
    BY <2>1, FS_CardinalityType
  <2> HIDE DEF left
  <2> QED BY <1>1, <2>2 DEF PInv, PTypes
<1> HIDE DEF gone, conn, refs, disc, del, left
<1>9. PTypes'
  BY <1>1, <1>2, <1>3, <1>8 DEF PInv, PTypes, PeersTypeOK, disc
<1>10. CopiesOK'
  BY <1>1, <1>2, <1>3, <1>4 DEF PInv, CopiesOK, disc
<1>11. FreshOK' /\ HandsOK'
  BY <1>1, <1>2, <1>5 DEF PInv, FreshOK, HandsOK
<1>12. RefCountsCover'
  <2> SUFFICES ASSUME NEW n \in (vNodes \cup vNodesDisconnected)'
               PROVE  LET known == (One(n \in vNodes) + One(n \in copyS) + One(n \in copyM))'
                      IN  nRefCount'[n] >= known /\ (fInbound'[n] => nRefCount'[n] = known)
    BY DEF RefCountsCover
  <2>1. n \in vNodes \cup vNodesDisconnected /\ n \in Nodes
    BY <1>1, <1>3 DEF disc, PInv, PTypes, PeersTypeOK
  <2>2. /\ vNodes \cap vNodesDisconnected = {}
        /\ LET known == One(n \in vNodes) + One(n \in copyS) + One(n \in copyM)
           IN  nRefCount[n] >= known /\ (fInbound[n] => nRefCount[n] = known)
    BY <2>1 DEF PInv, RefCountsCover, PTypes, PeersTypeOK
  <2>3. CASE n \in gone
    BY <1>1, <1>2, <1>3, <2>1, <2>2, <2>3 DEF conn, One
  <2>4. CASE n \notin gone
    BY <1>1, <1>2, <1>3, <2>1, <2>2, <2>4 DEF conn, One
  <2> QED BY <2>3, <2>4
<1>13. UsersCover'
  <2> SUFFICES ASSUME NEW n \in (vNodes \cup vNodesDisconnected)'
               PROVE  nRefCount'[n] >= One(n \in copyS') + One(n \in copyM') + Cardinality(Users(n)')
                            + One(n \in vNodes' /\ (fNetworkNode'[n] \/ fInbound'[n]))
    BY DEF UsersCover
  <2>1. n \in vNodes \cup vNodesDisconnected /\ n \in Nodes
    BY <1>1, <1>3 DEF disc, PInv, PTypes, PeersTypeOK
  <2>2. nRefCount[n] >= One(n \in copyS) + One(n \in copyM) + Cardinality(Users(n))
                            + One(n \in vNodes /\ (fNetworkNode[n] \/ fInbound[n]))
    BY <2>1 DEF PInv, UsersCover
  <2>3. Cardinality(Users(n)) \in Nat
    BY UsersFinite DEF PInv
  <2>4. CASE n \in gone
    BY <1>1, <1>2, <1>3, <1>6, <2>1, <2>2, <2>3, <2>4 DEF conn, One
  <2>5. CASE n \notin gone
    BY <1>1, <1>2, <1>3, <1>6, <2>1, <2>2, <2>3, <2>5 DEF conn, One
  <2> QED BY <2>4, <2>5
<1> QED BY <1>7, <1>9, <1>10, <1>11, <1>12, <1>13 DEF PInv
\* Another step of these two threads that only changes counts, copies and fDisconnect:
\* the invariant is kept if each count changes as the node's part in the copies does.
LEMMA CopyStep ==
    ASSUME PInv,
           UNCHANGED <<vNodes, vNodesDisconnected, deleted, addr, fInbound, fNetworkNode,
                       semVars, openVars>>,
           nRefCount' \in [Nodes -> Int],
           copyS' \cup copyM' \subseteq Nodes,
           todoS' \subseteq copyS', todoM' \subseteq copyM',
           relay' \in Nodes \cup {None},
           CopiesOK',
           \A n \in Nodes : nRefCount'[n] - nRefCount[n]
                = One(n \in copyS') + One(n \in copyM') - One(n \in copyS) - One(n \in copyM)
    PROVE  PInv'
<1>1. /\ vNodes' = vNodes /\ vNodesDisconnected' = vNodesDisconnected /\ deleted' = deleted
      /\ addr' = addr /\ fInbound' = fInbound /\ fNetworkNode' = fNetworkNode
      /\ semOutbound' = semOutbound /\ pcO' = pcO /\ hand' = hand
  BY DEF semVars, openVars
<1>2. PTypes'
  BY <1>1 DEF PInv, PTypes, PeersTypeOK
<1>3. FreshOK' /\ HandsOK'
  BY <1>1 DEF PInv, FreshOK, HandsOK, Fresh
<1>4. FiniteOK' /\ PermitsConserved' /\ \A n : Users(n)' = Users(n)
  BY OpenersFrame DEF PInv
<1>5. nRefCount \in [Nodes -> Int] /\ vNodes \cup vNodesDisconnected \subseteq Nodes
  BY DEF PInv, PTypes, PeersTypeOK
<1>6. RefCountsCover'
  BY <1>1, <1>5 DEF PInv, RefCountsCover, One
<1>7. UsersCover'
  <2> SUFFICES ASSUME NEW n \in vNodes \cup vNodesDisconnected
               PROVE  nRefCount'[n] >= One(n \in copyS') + One(n \in copyM') + Cardinality(Users(n))
                            + One(n \in vNodes /\ (fNetworkNode[n] \/ fInbound[n]))
    BY <1>1, <1>4 DEF UsersCover
  <2>1. nRefCount[n] >= One(n \in copyS) + One(n \in copyM) + Cardinality(Users(n))
                            + One(n \in vNodes /\ (fNetworkNode[n] \/ fInbound[n]))
    BY DEF PInv, UsersCover
  <2>2. Cardinality(Users(n)) \in Nat
    BY UsersFinite DEF PInv
  <2> QED BY <1>5, <2>1, <2>2 DEF One
<1> QED BY <1>2, <1>3, <1>4, <1>6, <1>7 DEF PInv

LEMMA CopyPeers == PInv /\ (CopyNodesS \/ CopyNodesM) => PInv'
<1> SUFFICES ASSUME PInv, CopyNodesS \/ CopyNodesM PROVE PInv'
  OBVIOUS
<1>1. /\ nRefCount \in [Nodes -> Int] /\ vNodes \subseteq Nodes /\ copyS \cup copyM \subseteq Nodes
      /\ todoS \subseteq copyS /\ todoM \subseteq copyM /\ relay \in Nodes \cup {None}
  BY DEF PInv, PTypes, PeersTypeOK
<1>2. /\ nRefCount' = AddRef(vNodes)
      /\ UNCHANGED <<vNodes, vNodesDisconnected, deleted, addr, fInbound, fNetworkNode,
                     semVars, openVars>>
  BY DEF CopyNodesS, CopyNodesM
<1>3. /\ nRefCount' \in [Nodes -> Int]
      /\ \A n \in Nodes : nRefCount'[n] = nRefCount[n] + IF n \in vNodes THEN 1 ELSE 0
  BY <1>1, <1>2 DEF AddRef
<1>4. CASE CopyNodesS
  <2>1. /\ copyS = {} /\ copyS' = vNodes /\ todoS' = vNodes /\ pcS' = "service"
        /\ copyM' = copyM /\ todoM' = todoM /\ relay' = relay /\ pcM' = pcM
    BY <1>4 DEF CopyNodesS, msgVars, PInv, CopiesOK
  <2>2. CopiesOK'
    BY <1>2, <2>1 DEF PInv, CopiesOK
  <2> QED BY <1>1, <1>2, <1>3, <2>1, <2>2, CopyStep DEF One
<1>5. CASE CopyNodesM
  <2>1. /\ copyM = {} /\ copyM' = vNodes /\ todoM' = vNodes /\ pcM' = "handle"
        /\ copyS' = copyS /\ todoS' = todoS /\ pcS' = pcS /\ relay' = relay
    BY <1>5 DEF CopyNodesM, sockVars, PInv, CopiesOK
  <2>2. CopiesOK'
    BY <1>2, <2>1 DEF PInv, CopiesOK
  <2> QED BY <1>1, <1>2, <1>3, <2>1, <2>2, CopyStep DEF One
<1> QED BY <1>4, <1>5

LEMMA ReleasePeers == PInv /\ (ReleaseNodesS \/ ReleaseNodesM) => PInv'
<1> SUFFICES ASSUME PInv, ReleaseNodesS \/ ReleaseNodesM PROVE PInv'
  OBVIOUS
<1>1. /\ nRefCount \in [Nodes -> Int] /\ vNodes \subseteq Nodes /\ copyS \cup copyM \subseteq Nodes
      /\ todoS \subseteq copyS /\ todoM \subseteq copyM /\ relay \in Nodes \cup {None}
  BY DEF PInv, PTypes, PeersTypeOK
<1>2. UNCHANGED <<vNodes, vNodesDisconnected, deleted, addr, fInbound, fNetworkNode,
                  semVars, openVars>>
  BY DEF ReleaseNodesS, ReleaseNodesM
<1>3. CASE ReleaseNodesS
  <2>1. /\ copyS' = {} /\ todoS' = {} /\ nRefCount' = Release(copyS) /\ pcS' = "disconnect"
        /\ copyM' = copyM /\ todoM' = todoM /\ relay' = relay /\ pcM' = pcM
    BY <1>3 DEF ReleaseNodesS, msgVars
  <2>2. CopiesOK'
    BY <1>2, <2>1 DEF PInv, CopiesOK
  <2>3. /\ nRefCount' \in [Nodes -> Int]
        /\ \A n \in Nodes : nRefCount'[n] = nRefCount[n] - IF n \in copyS THEN 1 ELSE 0
    BY <1>1, <2>1 DEF Release
  <2> QED BY <1>1, <1>2, <2>1, <2>2, <2>3, CopyStep DEF One
<1>4. CASE ReleaseNodesM
  <2>1. /\ copyM' = {} /\ todoM' = {} /\ nRefCount' = Release(copyM) /\ pcM' = "copy"
        /\ copyS' = copyS /\ todoS' = todoS /\ relay' = relay /\ pcS' = pcS
    BY <1>4 DEF ReleaseNodesM, sockVars
  <2>2. CopiesOK'
    BY <1>2, <2>1 DEF PInv, CopiesOK
  <2>3. /\ nRefCount' \in [Nodes -> Int]
        /\ \A n \in Nodes : nRefCount'[n] = nRefCount[n] - IF n \in copyM THEN 1 ELSE 0
    BY <1>1, <2>1 DEF Release
  <2> QED BY <1>1, <1>2, <2>1, <2>2, <2>3, CopyStep DEF One
<1> QED BY <1>3, <1>4

\* Servicing a node and handling its messages leave the copies and counts alone.
LEMMA WorkPeers ==
    ASSUME PInv, NEW n \in Nodes, ServiceSocket(n) \/ HandleNode(n) \/ Relayed
    PROVE  PInv'
<1>1. /\ nRefCount \in [Nodes -> Int] /\ vNodes \subseteq Nodes /\ copyS \cup copyM \subseteq Nodes
      /\ todoS \subseteq copyS /\ todoM \subseteq copyM /\ relay \in Nodes \cup {None}
  BY DEF PInv, PTypes, PeersTypeOK
<1>2. /\ UNCHANGED <<vNodes, vNodesDisconnected, deleted, addr, fInbound, fNetworkNode,
                     semVars, openVars>>
      /\ nRefCount' = nRefCount /\ copyS' = copyS /\ copyM' = copyM
      /\ pcS' = pcS /\ pcM' = pcM
  BY DEF ServiceSocket, HandleNode, Relayed, nodeVars, sockVars, msgVars
<1>3. todoS' \subseteq todoS /\ todoM' \subseteq todoM /\ relay' \in Nodes \cup {None}
  BY <1>1 DEF ServiceSocket, HandleNode, Relayed, nodeVars, sockVars, msgVars
<1>4. CopiesOK'
  BY <1>2 DEF PInv, CopiesOK
<1> QED BY <1>1, <1>2, <1>3, <1>4, CopyStep DEF One
\* A node nobody knew is published with one reference, by the socket thread or by an
\* opener: nobody has a copy with it, and the others' counts do not change.
LEMMA PublishFacts ==
    ASSUME PInv, NEW n \in Fresh
    PROVE  /\ n \in Nodes /\ n \notin vNodes \cup vNodesDisconnected \cup deleted
           /\ n \notin copyS \cup copyM
           /\ Users(n) = {}
           /\ ~fInbound[n] /\ ~fNetworkNode[n]
<1>1. n \in Nodes /\ n \notin vNodes \cup vNodesDisconnected \cup deleted
  BY DEF Fresh
<1>2. Users(n) = {} /\ ~fInbound[n] /\ ~fNetworkNode[n]
  BY DEF PInv, FreshOK, Users
<1> QED BY <1>1, <1>2 DEF PInv, CopiesOK

LEMMA AcceptPeers == PInv /\ AcceptConnection => PInv'
<1> SUFFICES ASSUME PInv, AcceptConnection PROVE PInv'
  OBVIOUS
<1>0. /\ pcS = "accept" /\ pcS' = "copy"
      /\ UNCHANGED <<semVars, copyS, todoS, msgVars, openVars>>
      /\ copyM' = copyM /\ todoM' = todoM /\ relay' = relay /\ pcM' = pcM
      /\ semOutbound' = semOutbound /\ pcO' = pcO /\ hand' = hand
  BY DEF AcceptConnection, msgVars, semVars, openVars
<1>1. /\ nRefCount \in [Nodes -> Int] /\ vNodes \cup vNodesDisconnected \subseteq Nodes
      /\ copyS \cup copyM \subseteq Nodes
      /\ todoS \subseteq copyS /\ todoM \subseteq copyM /\ relay \in Nodes \cup {None}
  BY DEF PInv, PTypes, PeersTypeOK
<1>2. CASE UNCHANGED nodeVars
  <2>1. CopiesOK'
    BY <1>0, <1>2 DEF PInv, CopiesOK, nodeVars
  <2> QED BY <1>0, <1>1, <1>2, <2>1, CopyStep DEF nodeVars, One
<1>3. ASSUME NEW n \in Fresh,
             fInbound' = [fInbound EXCEPT ![n] = TRUE],
             nRefCount' = [nRefCount EXCEPT ![n] = 1],
             vNodes' = vNodes \cup {n},
             UNCHANGED <<vNodesDisconnected, deleted, addr, fNetworkNode, fDisconnect>>
      PROVE  PInv'
  <2>1. /\ n \in Nodes /\ n \notin vNodes \cup vNodesDisconnected \cup deleted
        /\ n \notin copyS \cup copyM /\ Users(n) = {} /\ ~fNetworkNode[n]
    BY PublishFacts
  <2>2. PTypes'
    BY <1>0, <1>3, <2>1 DEF PInv, PTypes, PeersTypeOK
  <2>3. CopiesOK'
    BY <1>0, <1>3 DEF PInv, CopiesOK
  <2>4. /\ Fresh' \subseteq Fresh \ {n}
        /\ \A m \in Nodes \ {n} : fInbound'[m] = fInbound[m] /\ nRefCount'[m] = nRefCount[m]
        /\ fInbound'[n] /\ nRefCount'[n] = 1
    BY <1>1, <1>3, <2>1 DEF Fresh, PInv, PTypes
  <2>5. FreshOK'
    BY <1>0, <1>3, <2>4 DEF PInv, FreshOK, Fresh
  <2>6. HandsOK'
    <3>1. addr[n] = None
      BY DEF PInv, FreshOK
    <3>2. \A o \in Openers : hand[o] # n
      BY DEF PInv, FreshOK
    <3> QED BY <1>0, <1>3, <2>4, <3>1, <3>2 DEF PInv, HandsOK
  <2>7. FiniteOK' /\ PermitsConserved' /\ \A m : Users(m)' = Users(m)
    BY <1>0, OpenersFrame DEF PInv
  <2>8. RefCountsCover'
    <3> SUFFICES ASSUME NEW m \in vNodes \cup {n} \cup vNodesDisconnected
                 PROVE  LET known == (One(m \in vNodes) + One(m \in copyS) + One(m \in copyM))'
                        IN  nRefCount'[m] >= known /\ (fInbound'[m] => nRefCount'[m] = known)
      BY <1>3 DEF RefCountsCover
    <3>1. CASE m = n
      BY <1>0, <1>3, <2>1, <2>4, <3>1 DEF One
    <3>2. CASE m # n
      BY <1>0, <1>1, <1>3, <2>4, <3>2 DEF PInv, RefCountsCover, One
    <3> QED BY <3>1, <3>2
  <2>9. UsersCover'
    <3> SUFFICES ASSUME NEW m \in vNodes \cup {n} \cup vNodesDisconnected
                 PROVE  nRefCount'[m] >= One(m \in copyS) + One(m \in copyM) + Cardinality(Users(m))
                            + One(m \in vNodes' /\ (fNetworkNode[m] \/ fInbound'[m]))
      BY <1>0, <1>3, <2>7 DEF UsersCover
    <3>1. CASE m = n
      BY <1>3, <2>1, <2>4, <3>1, FS_EmptySet DEF One
    <3>2. CASE m # n
      BY <1>1, <1>3, <2>4, <3>2 DEF PInv, UsersCover, One
    <3> QED BY <3>1, <3>2
  <2> QED BY <2>2, <2>3, <2>5, <2>6, <2>7, <2>8, <2>9 DEF PInv
<1> QED BY <1>2, <1>3 DEF AcceptConnection
-----------------------------------------------------------------------------
(* The openers.                                                            *)

OwnPermit == {"connect", "connecting", "found", "grant"}
OwnRef    == {"grant", "network"}

\* A set that gains or loses one element.
LEMMA OneElement ==
    ASSUME NEW S, NEW T, NEW x, IsFiniteSet(S), T = S \cup {x} \/ T = S \ {x}
    PROVE  Cardinality(T) = Cardinality(S) + One(x \in T) - One(x \in S)
<1>1. Cardinality(S) \in Nat
  BY FS_CardinalityType
<1>2. /\ Cardinality(S \cup {x}) = IF x \in S THEN Cardinality(S) ELSE Cardinality(S) + 1
      /\ Cardinality(S \ {x}) = IF x \in S THEN Cardinality(S) - 1 ELSE Cardinality(S)
  BY FS_AddElement, FS_RemoveElement
<1>3. CASE T = S \cup {x}
  <2>1. x \in T
    BY <1>3
  <2> QED BY <1>1, <1>2, <1>3, <2>1 DEF One
<1>4. CASE T = S \ {x}
  <2>1. x \notin T
    BY <1>4
  <2> QED BY <1>1, <1>2, <1>4, <2>1 DEF One
<1> QED BY <1>3, <1>4

\* What an opener's step changes in the sets that are counted.
LEMMA OpenerSets ==
    ASSUME PInv, NEW o \in Openers, NEW q \in OpenerSteps,
           pcO' = [pcO EXCEPT ![o] = q],
           \A p \in Openers \ {o} : hand'[p] = hand[p]
    PROVE  /\ pcO' \in [Openers -> OpenerSteps]
           /\ IsFiniteSet(Busy')
           /\ Cardinality(Waiting') = Cardinality(Waiting) + One(q \in OwnPermit) - One(pcO[o] \in OwnPermit)
           /\ \A n : Cardinality(Users(n)') = Cardinality(Users(n))
                        + One(q \in OwnRef /\ hand'[o] = n) - One(pcO[o] \in OwnRef /\ hand[o] = n)
<1>1. /\ pcO \in [Openers -> OpenerSteps] /\ pcO' \in [Openers -> OpenerSteps] /\ pcO'[o] = q
      /\ \A p \in Openers \ {o} : pcO'[p] = pcO[p]
  BY DEF PInv, PTypes
<1>2. /\ IsFiniteSet(Busy) /\ IsFiniteSet(Waiting) /\ Cardinality(Waiting) \in Nat
      /\ \A n : IsFiniteSet(Users(n)) /\ Cardinality(Users(n)) \in Nat
  BY UsersFinite DEF PInv, FiniteOK
<1>3. IsFiniteSet(Busy')
  <2>1. IsFiniteSet(Busy \cup {o}) /\ Busy' \subseteq Busy \cup {o}
    BY <1>1, <1>2, FS_AddElement DEF Busy
  <2> QED BY <2>1, FS_Subset
<1>4. Cardinality(Waiting') = Cardinality(Waiting) + One(q \in OwnPermit) - One(pcO[o] \in OwnPermit)
  <2>1. /\ o \in Waiting <=> pcO[o] \in OwnPermit
        /\ o \in Waiting' <=> pcO'[o] \in OwnPermit
        /\ \A p \in Openers \ {o} : p \in Waiting' <=> p \in Waiting
        /\ Waiting \subseteq Openers /\ Waiting' \subseteq Openers
    BY <1>1 DEF Waiting, OwnPermit
  <2>2. Waiting' = Waiting \cup {o} \/ Waiting' = Waiting \ {o}
    BY <2>1
  <2> QED BY <1>1, <1>2, OneElement, <2>1, <2>2 DEF One
<1>5. ASSUME NEW n
      PROVE  Cardinality(Users(n)') = Cardinality(Users(n))
                 + One(q \in OwnRef /\ hand'[o] = n) - One(pcO[o] \in OwnRef /\ hand[o] = n)
  <2>1. /\ o \in Users(n) <=> pcO[o] \in OwnRef /\ hand[o] = n
        /\ o \in Users(n)' <=> pcO'[o] \in OwnRef /\ hand'[o] = n
        /\ \A p \in Openers \ {o} : p \in Users(n)' <=> p \in Users(n)
        /\ Users(n) \subseteq Openers /\ Users(n)' \subseteq Openers
    BY <1>1 DEF Users, OwnRef
  <2>2. Users(n)' = Users(n) \cup {o} \/ Users(n)' = Users(n) \ {o}
    BY <2>1
  <2> QED BY <1>1, <1>2, OneElement, <2>1, <2>2 DEF One
<1> QED BY <1>1, <1>3, <1>4, <1>5

\* An opener's step keeps what is known of the permits when they go where it went.
LEMMA OpenerPermits ==
    ASSUME PInv, NEW o \in Openers, NEW q \in OpenerSteps,
           pcO' = [pcO EXCEPT ![o] = q],
           \A p \in Openers \ {o} : hand'[p] = hand[p],
           semOutbound' \in Int, IsFiniteSet(grantOutbound'),
           semOutbound' + Cardinality(grantOutbound') + One(q \in OwnPermit)
              = semOutbound + Cardinality(grantOutbound) + One(pcO[o] \in OwnPermit)
    PROVE  FiniteOK' /\ PermitsConserved'
<1>1. /\ IsFiniteSet(Busy')
      /\ Cardinality(Waiting') = Cardinality(Waiting) + One(q \in OwnPermit) - One(pcO[o] \in OwnPermit)
  BY OpenerSets
<1>2. /\ Cardinality(Waiting) \in Nat /\ Cardinality(grantOutbound) \in Nat
      /\ Cardinality(grantOutbound') \in Nat /\ semOutbound \in Int
  BY UsersFinite, FS_CardinalityType DEF PInv, PTypes
<1>3. semOutbound + Cardinality(grantOutbound) + Cardinality(Waiting) = MAX_OUTBOUND_CONNECTIONS
  BY DEF PInv, PermitsConserved, Waiting
<1>4. semOutbound' + Cardinality(grantOutbound') + Cardinality(Waiting') = MAX_OUTBOUND_CONNECTIONS
  BY <1>1, <1>2, <1>3 DEF One
<1> QED BY <1>1, <1>4 DEF FiniteOK, PermitsConserved, Waiting

\* Steps of an opener that touch no node: it takes a permit or gives it back, looks
\* for a node and finds one or none, or is done with it.
LEMMA OpenerFrame ==
    ASSUME PInv, NEW o \in Openers, NEW q \in OpenerSteps \ OwnRef,
           pcO[o] \notin OwnRef,
           pcO' = [pcO EXCEPT ![o] = q],
           hand' = hand \/ \E n \in (vNodes \cup {None}) : hand' = [hand EXCEPT ![o] = n],
           q \in {"found", "oneshot"} => hand'[o] \in Nodes /\ ~fInbound[hand'[o]],
           UNCHANGED <<nodeVars, grantOutbound, sockVars, msgVars>>,
           semOutbound' \in Int,
           semOutbound' + One(q \in OwnPermit) = semOutbound + One(pcO[o] \in OwnPermit)
    PROVE  PInv'
<1>1. /\ vNodes' = vNodes /\ vNodesDisconnected' = vNodesDisconnected /\ deleted' = deleted
      /\ addr' = addr /\ nRefCount' = nRefCount /\ fInbound' = fInbound
      /\ fNetworkNode' = fNetworkNode
      /\ pcS' = pcS /\ copyS' = copyS /\ todoS' = todoS
      /\ pcM' = pcM /\ copyM' = copyM /\ todoM' = todoM /\ relay' = relay
  BY DEF nodeVars, sockVars, msgVars
<1>2. /\ hand \in [Openers -> Nodes \cup {None}] /\ vNodes \subseteq Nodes
      /\ semOutbound \in Int /\ pcO \in [Openers -> OpenerSteps]
  BY DEF PInv, PTypes, PeersTypeOK
<1>3. /\ hand' \in [Openers -> Nodes \cup {None}]
      /\ \A p \in Openers \ {o} : hand'[p] = hand[p]
      /\ hand'[o] \in {hand[o], None} \cup vNodes
  BY <1>2
<1>4. PTypes' /\ CopiesOK'
  <2>1. pcO' \in [Openers -> OpenerSteps]
    BY <1>2
  <2> QED BY <1>1, <1>3, <2>1 DEF PInv, PTypes, PeersTypeOK, CopiesOK
<1>5. FreshOK'
  BY <1>1, <1>3, PeersAssumption DEF PInv, FreshOK, Fresh
<1>6. HandsOK'
  BY <1>1, <1>2, <1>3 DEF PInv, HandsOK, OwnRef
<1>7. FiniteOK' /\ PermitsConserved'
  <2>1. IsFiniteSet(grantOutbound') /\ Cardinality(grantOutbound') = Cardinality(grantOutbound)
    BY DEF PInv, FiniteOK
  <2>2. Cardinality(grantOutbound) \in Nat
    BY UsersFinite DEF PInv
  <2>3. semOutbound' + Cardinality(grantOutbound') + One(q \in OwnPermit)
              = semOutbound + Cardinality(grantOutbound) + One(pcO[o] \in OwnPermit)
    <3>1. One(q \in OwnPermit) \in Nat /\ One(pcO[o] \in OwnPermit) \in Nat
      BY DEF One
    <3> QED BY <1>2, <2>1, <2>2, <3>1
  <2> QED BY <1>3, <2>1, <2>3, OpenerPermits
<1>8. \A n : Cardinality(Users(n)') = Cardinality(Users(n))
  <2>1. \A n : Cardinality(Users(n)) \in Nat
    BY UsersFinite DEF PInv
  <2>2. \A n : Cardinality(Users(n)') = Cardinality(Users(n))
                 + One(q \in OwnRef /\ hand'[o] = n) - One(pcO[o] \in OwnRef /\ hand[o] = n)
    BY <1>3, OpenerSets
  <2> QED BY <2>1, <2>2 DEF One
<1>9. RefCountsCover' /\ UsersCover'
  BY <1>1, <1>8 DEF PInv, RefCountsCover, UsersCover
<1> QED BY <1>4, <1>5, <1>6, <1>7, <1>9 DEF PInv

LEMMA OpenerIdle ==
    ASSUME PInv, NEW o \in Openers,
           BeginOpen(o) \/ FindNode(o) \/ ConnectFails(o) \/ SetOneShot(o)
    PROVE  PInv'
<1>1. semOutbound \in Int
  BY DEF PInv, PTypes
<1>2. CASE BeginOpen(o)
  <2> DEFINE q == IF o \in Named THEN "connecting" ELSE "connect"
  <2>1. /\ pcO[o] = "idle" /\ pcO' = [pcO EXCEPT ![o] = q] /\ hand' = hand
        /\ semOutbound' = semOutbound - 1
        /\ UNCHANGED <<nodeVars, grantOutbound, sockVars, msgVars>>
    BY <1>2 DEF BeginOpen
  <2>2. q \in OpenerSteps \ OwnRef /\ q \in OwnPermit /\ q \notin {"found", "oneshot"}
        /\ pcO[o] \notin OwnRef /\ pcO[o] \notin OwnPermit
    BY <2>1 DEF OpenerSteps, OwnRef, OwnPermit
  <2> HIDE DEF q
  <2>3. semOutbound' \in Int
        /\ semOutbound' + One(q \in OwnPermit) = semOutbound + One(pcO[o] \in OwnPermit)
    BY <1>1, <2>1, <2>2 DEF One
  <2> QED BY <2>1, <2>2, <2>3, OpenerFrame
<1>3. CASE FindNode(o)
  <2>1. /\ pcO[o] = "connect" /\ semOutbound' = semOutbound
        /\ UNCHANGED <<nodeVars, grantOutbound, sockVars, msgVars>>
    BY <1>3 DEF FindNode, semVars
  <2>2. CASE pcO' = [pcO EXCEPT ![o] = "connecting"] /\ hand' = hand
    BY <1>1, <2>1, <2>2, OpenerFrame DEF One, OpenerSteps, OwnRef, OwnPermit
  <2>3. ASSUME NEW n \in NodeAt(Target[o]), hand' = [hand EXCEPT ![o] = n],
               pcO' = [pcO EXCEPT ![o] = "found"]
        PROVE  PInv'
    <3>1. n \in vNodes /\ n \in Nodes /\ addr[n] # None
      BY <2>3, PeersAssumption DEF NodeAt, PInv, PTypes, PeersTypeOK
    <3>2. hand'[o] = n /\ ~fInbound[n]
      BY <2>3, <3>1 DEF PInv, HandsOK, PTypes, PeersTypeOK
    <3> QED BY <1>1, <2>1, <2>3, <3>1, <3>2, OpenerFrame DEF One, OpenerSteps, OwnRef, OwnPermit
  <2> QED BY <1>3, <2>2, <2>3 DEF FindNode
<1>4. CASE ConnectFails(o)
  <2>1. /\ pcO[o] = "connecting" /\ pcO' = [pcO EXCEPT ![o] = "idle"] /\ hand' = hand
        /\ semOutbound' = semOutbound + 1
        /\ UNCHANGED <<nodeVars, grantOutbound, sockVars, msgVars>>
    BY <1>4 DEF ConnectFails
  <2>2. /\ semOutbound' \in Int
        /\ semOutbound' + One("idle" \in OwnPermit) = semOutbound + One(pcO[o] \in OwnPermit)
    BY <1>1, <2>1 DEF One, OwnPermit
  <2> QED BY <2>1, <2>2, OpenerFrame DEF OpenerSteps, OwnRef
<1>5. CASE SetOneShot(o)
  BY <1>1, <1>5, OpenerFrame DEF SetOneShot, semVars, One, OpenerSteps, OwnRef, OwnPermit
<1> QED BY <1>2, <1>3, <1>4, <1>5
\* The opener counts a reference to the node it has found, deleted in between or not.
LEMMA AddRefPeers ==
    ASSUME PInv, NEW o \in Openers, AddRefFound(o)
    PROVE  PInv'
<1> DEFINE h == hand[o]
<1>1. /\ pcO[o] = "found" /\ pcO' = [pcO EXCEPT ![o] = "grant"] /\ nRefCount' = AddRef({h})
      /\ hand' = hand /\ vNodes' = vNodes /\ vNodesDisconnected' = vNodesDisconnected
      /\ deleted' = deleted /\ addr' = addr /\ fInbound' = fInbound /\ fNetworkNode' = fNetworkNode
      /\ semOutbound' = semOutbound /\ grantOutbound' = grantOutbound
      /\ pcS' = pcS /\ copyS' = copyS /\ todoS' = todoS
      /\ pcM' = pcM /\ copyM' = copyM /\ todoM' = todoM /\ relay' = relay
  BY DEF AddRefFound, semVars, sockVars, msgVars
<1>2. nRefCount \in [Nodes -> Int] /\ vNodes \cup vNodesDisconnected \subseteq Nodes
      /\ semOutbound \in Int /\ pcO \in [Openers -> OpenerSteps]
  BY DEF PInv, PTypes, PeersTypeOK
<1>3. h \in Nodes /\ ~fInbound[h]
  BY <1>1 DEF PInv, HandsOK
<1> HIDE DEF h
<1>4. /\ nRefCount' \in [Nodes -> Int] /\ nRefCount'[h] = nRefCount[h] + 1
      /\ \A n \in Nodes \ {h} : nRefCount'[n] = nRefCount[n]
  BY <1>1, <1>2, <1>3 DEF AddRef
<1>5. "grant" \in OpenerSteps /\ One("grant" \in OwnPermit) = 1 /\ One(pcO[o] \in OwnPermit) = 1
  BY <1>1 DEF OpenerSteps, OwnPermit, One
<1>6. /\ pcO' \in [Openers -> OpenerSteps]
      /\ \A n : Cardinality(Users(n)') = Cardinality(Users(n))
                  + One("grant" \in OwnRef /\ hand'[o] = n) - One(pcO[o] \in OwnRef /\ hand[o] = n)
  BY <1>1, <1>5, OpenerSets
<1>7. \A n : Cardinality(Users(n)') = Cardinality(Users(n)) + One(h = n)
  <2>1. \A n : Cardinality(Users(n)) \in Nat
    BY UsersFinite DEF PInv
  <2> QED BY <1>1, <1>6, <2>1 DEF OwnRef, One, h
<1>8. FiniteOK' /\ PermitsConserved'
  <2>1. IsFiniteSet(grantOutbound')
    BY <1>1 DEF PInv, FiniteOK
  <2> QED BY <1>1, <1>2, <1>5, <2>1, OpenerPermits
<1>9. PTypes' /\ CopiesOK'
  BY <1>1, <1>4, <1>6 DEF PInv, PTypes, PeersTypeOK, CopiesOK
<1>10. FreshOK' /\ HandsOK'
  BY <1>1, <1>2 DEF PInv, FreshOK, HandsOK, Fresh
<1>11. RefCountsCover'
  <2> SUFFICES ASSUME NEW n \in vNodes \cup vNodesDisconnected
               PROVE  LET known == One(n \in vNodes) + One(n \in copyS) + One(n \in copyM)
                      IN  nRefCount'[n] >= known /\ (fInbound[n] => nRefCount'[n] = known)
    BY <1>1 DEF RefCountsCover
  <2>1. LET known == One(n \in vNodes) + One(n \in copyS) + One(n \in copyM)
        IN  nRefCount[n] >= known /\ (fInbound[n] => nRefCount[n] = known)
    BY DEF PInv, RefCountsCover
  <2>2. n = h => ~fInbound[n]
    BY <1>3
  <2> QED BY <1>2, <1>4, <2>1, <2>2 DEF One
<1>12. UsersCover'
  <2> SUFFICES ASSUME NEW n \in vNodes \cup vNodesDisconnected
               PROVE  nRefCount'[n] >= One(n \in copyS) + One(n \in copyM) + Cardinality(Users(n)')
                            + One(n \in vNodes /\ (fNetworkNode[n] \/ fInbound[n]))
    BY <1>1 DEF UsersCover
  <2>1. nRefCount[n] >= One(n \in copyS) + One(n \in copyM) + Cardinality(Users(n))
                            + One(n \in vNodes /\ (fNetworkNode[n] \/ fInbound[n]))
    BY DEF PInv, UsersCover
  <2>2. Cardinality(Users(n)) \in Nat
    BY UsersFinite DEF PInv
  <2> QED BY <1>2, <1>4, <1>7, <2>1, <2>2 DEF One
<1> QED BY <1>8, <1>9, <1>10, <1>11, <1>12 DEF PInv

LEMMA ConnectedPeers ==
    ASSUME PInv, NEW o \in Openers, Connected(o)
    PROVE  PInv'
<1>0. PICK n \in Fresh :
        /\ pcO[o] = "connecting" /\ addr' = [addr EXCEPT ![n] = Target[o]]
        /\ nRefCount' = [nRefCount EXCEPT ![n] = 1] /\ vNodes' = vNodes \cup {n}
        /\ hand' = [hand EXCEPT ![o] = n] /\ pcO' = [pcO EXCEPT ![o] = "grant"]
        /\ UNCHANGED <<vNodesDisconnected, deleted, fInbound, fNetworkNode, fDisconnect,
                       semVars, sockVars, msgVars>>
  BY DEF Connected
<1>1. /\ vNodesDisconnected' = vNodesDisconnected
      /\ deleted' = deleted /\ fInbound' = fInbound /\ fNetworkNode' = fNetworkNode
      /\ semOutbound' = semOutbound /\ grantOutbound' = grantOutbound
      /\ pcS' = pcS /\ copyS' = copyS /\ todoS' = todoS
      /\ pcM' = pcM /\ copyM' = copyM /\ todoM' = todoM /\ relay' = relay
  BY <1>0 DEF semVars, sockVars, msgVars
<1>2. /\ nRefCount \in [Nodes -> Int] /\ vNodes \cup vNodesDisconnected \subseteq Nodes
      /\ semOutbound \in Int /\ pcO \in [Openers -> OpenerSteps]
      /\ hand \in [Openers -> Nodes \cup {None}] /\ addr \in [Nodes -> Addresses]
  BY DEF PInv, PTypes, PeersTypeOK
<1>3. /\ n \in Nodes /\ n \notin vNodes \cup vNodesDisconnected \cup deleted
      /\ n \notin copyS \cup copyM /\ Users(n) = {} /\ ~fInbound[n] /\ ~fNetworkNode[n]
  BY PublishFacts
<1>4. /\ nRefCount' \in [Nodes -> Int] /\ nRefCount'[n] = 1
      /\ \A m \in Nodes \ {n} : nRefCount'[m] = nRefCount[m]
      /\ hand' \in [Openers -> Nodes \cup {None}] /\ hand'[o] = n
      /\ \A p \in Openers \ {o} : hand'[p] = hand[p]
      /\ addr' \in [Nodes -> Addresses]
      /\ \A m \in Nodes \ {n} : addr'[m] = addr[m]
  BY <1>0, <1>2, <1>3 DEF Addresses
<1>5. "grant" \in OpenerSteps /\ One("grant" \in OwnPermit) = 1 /\ One(pcO[o] \in OwnPermit) = 1
  BY <1>0 DEF OpenerSteps, OwnPermit, One
<1>6. /\ pcO' \in [Openers -> OpenerSteps]
      /\ \A m : Cardinality(Users(m)') = Cardinality(Users(m))
                  + One("grant" \in OwnRef /\ hand'[o] = m) - One(pcO[o] \in OwnRef /\ hand[o] = m)
  BY <1>0, <1>4, <1>5, OpenerSets
<1>7. \A m : Cardinality(Users(m)) \in Nat /\ Cardinality(Users(m)') = Cardinality(Users(m)) + One(n = m)
  <2>1. \A m : Cardinality(Users(m)) \in Nat
    BY UsersFinite DEF PInv
  <2> QED BY <1>0, <1>4, <1>6, <2>1 DEF OwnRef, One
<1>8. FiniteOK' /\ PermitsConserved'
  <2>1. IsFiniteSet(grantOutbound')
    BY <1>1 DEF PInv, FiniteOK
  <2> QED BY <1>0, <1>1, <1>2, <1>4, <1>5, <2>1, OpenerPermits
<1>9. PTypes' /\ CopiesOK'
  <2>1. PTypes'
    BY <1>0, <1>1, <1>3, <1>4, <1>6 DEF PInv, PTypes, PeersTypeOK
  <2>2. CopiesOK'
    BY <1>0, <1>1 DEF PInv, CopiesOK
  <2> QED BY <2>1, <2>2
<1>10. FreshOK'
  <2>1. Fresh' \subseteq Fresh \ {n}
    BY <1>0, <1>1 DEF Fresh
  <2> QED BY <1>1, <1>4, <2>1 DEF PInv, FreshOK, Fresh
<1>11. HandsOK'
  BY <1>0, <1>1, <1>2, <1>3, <1>4 DEF PInv, HandsOK
<1>12. RefCountsCover'
  <2> SUFFICES ASSUME NEW m \in vNodes \cup {n} \cup vNodesDisconnected
               PROVE  LET known == One(m \in vNodes \cup {n}) + One(m \in copyS) + One(m \in copyM)
                      IN  nRefCount'[m] >= known /\ (fInbound[m] => nRefCount'[m] = known)
    BY <1>0, <1>1 DEF RefCountsCover
  <2>1. CASE m = n
    BY <1>3, <1>4, <2>1 DEF One
  <2>2. CASE m # n
    BY <1>2, <1>4, <2>2 DEF PInv, RefCountsCover, One
  <2> QED BY <2>1, <2>2
<1>13. UsersCover'
  <2> SUFFICES ASSUME NEW m \in vNodes \cup {n} \cup vNodesDisconnected
               PROVE  nRefCount'[m] >= One(m \in copyS) + One(m \in copyM) + Cardinality(Users(m)')
                            + One(m \in vNodes \cup {n} /\ (fNetworkNode[m] \/ fInbound[m]))
    BY <1>0, <1>1 DEF UsersCover
  <2>1. CASE m = n
    <3>1. Cardinality(Users(n)) = 0 /\ One(n = n) = 1
      BY <1>3, FS_EmptySet DEF One
    <3>2. Cardinality(Users(n)') = 0 + 1
      BY <1>7, <3>1
    <3> QED BY <1>3, <1>4, <2>1, <3>2 DEF One
  <2>2. CASE m # n
    BY <1>2, <1>4, <1>7, <2>2 DEF PInv, UsersCover, One
  <2> QED BY <2>1, <2>2
<1> QED BY <1>8, <1>9, <1>10, <1>11, <1>12, <1>13 DEF PInv
\* The opener's permit goes to the node, or back when the node has one.
LEMMA MoveGrantPeers ==
    ASSUME PInv, NEW o \in Openers, MoveGrant(o)
    PROVE  PInv'
<1>1. /\ pcO[o] = "grant" /\ pcO' = [pcO EXCEPT ![o] = "network"] /\ nRefCount' = nRefCount
      /\ hand' = hand /\ vNodes' = vNodes /\ vNodesDisconnected' = vNodesDisconnected
      /\ deleted' = deleted /\ addr' = addr /\ fInbound' = fInbound /\ fNetworkNode' = fNetworkNode
      /\ semOutbound' = semOutbound + IF hand[o] \in grantOutbound THEN 1 ELSE 0
      /\ grantOutbound' = grantOutbound \cup {hand[o]}
      /\ pcS' = pcS /\ copyS' = copyS /\ todoS' = todoS
      /\ pcM' = pcM /\ copyM' = copyM /\ todoM' = todoM /\ relay' = relay
  BY DEF MoveGrant, nodeVars, sockVars, msgVars
<1>2. vNodes \cup vNodesDisconnected \subseteq Nodes
      /\ semOutbound \in Int /\ pcO \in [Openers -> OpenerSteps]
  BY DEF PInv, PTypes, PeersTypeOK
<1>3. /\ "network" \in OpenerSteps /\ One("network" \in OwnPermit) = 0
      /\ One(pcO[o] \in OwnPermit) = 1
  BY <1>1 DEF OpenerSteps, OwnPermit, One
<1>4. /\ pcO' \in [Openers -> OpenerSteps]
      /\ \A n : Cardinality(Users(n)') = Cardinality(Users(n))
                  + One("network" \in OwnRef /\ hand'[o] = n) - One(pcO[o] \in OwnRef /\ hand[o] = n)
  BY <1>1, <1>3, OpenerSets
<1>5. \A n : Cardinality(Users(n)') = Cardinality(Users(n))
  <2>1. \A n : Cardinality(Users(n)) \in Nat
    BY UsersFinite DEF PInv
  <2> QED BY <1>1, <1>4, <2>1 DEF OwnRef, One
<1>6. FiniteOK' /\ PermitsConserved' /\ semOutbound' \in Int
  <2>1. IsFiniteSet(grantOutbound)
    BY DEF PInv, FiniteOK
  <2>2. /\ IsFiniteSet(grantOutbound') /\ Cardinality(grantOutbound) \in Nat
        /\ Cardinality(grantOutbound') =
              IF hand[o] \in grantOutbound THEN Cardinality(grantOutbound)
                                           ELSE Cardinality(grantOutbound) + 1
    BY <1>1, <2>1, FS_AddElement, FS_CardinalityType
  <2>3. /\ semOutbound' \in Int
        /\ semOutbound' + Cardinality(grantOutbound') = semOutbound + Cardinality(grantOutbound) + 1
    BY <1>1, <1>2, <2>2
  <2>4. semOutbound' + Cardinality(grantOutbound') + One("network" \in OwnPermit)
              = semOutbound + Cardinality(grantOutbound) + One(pcO[o] \in OwnPermit)
    BY <1>2, <1>3, <2>2, <2>3
  <2> QED BY <1>1, <1>3, <2>2, <2>3, <2>4, OpenerPermits
<1>7. PTypes' /\ CopiesOK'
  BY <1>1, <1>4, <1>6 DEF PInv, PTypes, PeersTypeOK, CopiesOK
<1>8. FreshOK' /\ HandsOK'
  BY <1>1, <1>2 DEF PInv, FreshOK, HandsOK, Fresh
<1>9. RefCountsCover' /\ UsersCover'
  BY <1>1, <1>5 DEF PInv, RefCountsCover, UsersCover
<1> QED BY <1>6, <1>7, <1>8, <1>9 DEF PInv

\* The opener's reference becomes that of the connection: from now on disconnecting
\* releases it.
LEMMA NetworkNodePeers ==
    ASSUME PInv, NEW o \in Openers, SetNetworkNode(o)
    PROVE  PInv'
<1> DEFINE h == hand[o]
           q == pcO'[o]
<1>1. /\ pcO[o] = "network" /\ fNetworkNode' = [fNetworkNode EXCEPT ![h] = TRUE]
      /\ nRefCount' = nRefCount /\ vNodes' = vNodes /\ vNodesDisconnected' = vNodesDisconnected
      /\ deleted' = deleted /\ addr' = addr /\ fInbound' = fInbound
      /\ semOutbound' = semOutbound /\ grantOutbound' = grantOutbound
      /\ pcS' = pcS /\ copyS' = copyS /\ todoS' = todoS
      /\ pcM' = pcM /\ copyM' = copyM /\ todoM' = todoM /\ relay' = relay
  BY DEF SetNetworkNode, semVars, sockVars, msgVars
<1>2. /\ nRefCount \in [Nodes -> Int] /\ vNodes \cup vNodesDisconnected \subseteq Nodes
      /\ semOutbound \in Int /\ pcO \in [Openers -> OpenerSteps]
      /\ hand \in [Openers -> Nodes \cup {None}] /\ fNetworkNode \in [Nodes -> BOOLEAN]
  BY DEF PInv, PTypes, PeersTypeOK
<1>3. /\ q \in {"idle", "oneshot"} /\ pcO' = [pcO EXCEPT ![o] = q]
      /\ hand' \in [Openers -> Nodes \cup {None}]
      /\ \A p \in Openers \ {o} : hand'[p] = hand[p]
      /\ hand'[o] \in {hand[o], None} /\ (q = "oneshot" => hand'[o] = hand[o])
  BY <1>2 DEF SetNetworkNode
<1>4. h \in Nodes /\ ~fInbound[h] /\ h \notin Fresh
  BY <1>1 DEF PInv, HandsOK, FreshOK
<1> HIDE DEF h, q
<1>5. /\ fNetworkNode' \in [Nodes -> BOOLEAN] /\ fNetworkNode'[h]
      /\ \A n \in Nodes \ {h} : fNetworkNode'[n] = fNetworkNode[n]
  BY <1>1, <1>2, <1>4
<1>6. /\ q \in OpenerSteps /\ One(q \in OwnPermit) = 0 /\ One(pcO[o] \in OwnPermit) = 0
  BY <1>1, <1>3 DEF OpenerSteps, OwnPermit, One
<1>7. /\ pcO' \in [Openers -> OpenerSteps]
      /\ \A n : Cardinality(Users(n)') = Cardinality(Users(n))
                  + One(q \in OwnRef /\ hand'[o] = n) - One(pcO[o] \in OwnRef /\ hand[o] = n)
  BY <1>3, <1>6, OpenerSets
<1>8. \A n : Cardinality(Users(n)) \in Nat /\ Cardinality(Users(n)') = Cardinality(Users(n)) - One(h = n)
  <2>1. \A n : Cardinality(Users(n)) \in Nat
    BY UsersFinite DEF PInv
  <2>2. q \notin OwnRef /\ pcO[o] \in OwnRef
    BY <1>1, <1>3 DEF OwnRef
  <2> QED BY <1>7, <2>1, <2>2 DEF One, h
<1>9. FiniteOK' /\ PermitsConserved'
  <2>1. IsFiniteSet(grantOutbound')
    BY <1>1 DEF PInv, FiniteOK
  <2> QED BY <1>1, <1>2, <1>3, <1>6, <2>1, OpenerPermits
<1>10. PTypes' /\ CopiesOK'
  BY <1>1, <1>3, <1>5, <1>7 DEF PInv, PTypes, PeersTypeOK, CopiesOK
<1>11. FreshOK'
  BY <1>1, <1>3, <1>4, <1>5, PeersAssumption DEF PInv, FreshOK, Fresh
<1>12. HandsOK'
  BY <1>1, <1>2, <1>3, <1>4 DEF PInv, HandsOK, h
<1>13. RefCountsCover'
  BY <1>1 DEF PInv, RefCountsCover
<1>14. UsersCover'
  <2> SUFFICES ASSUME NEW n \in vNodes \cup vNodesDisconnected
               PROVE  nRefCount[n] >= One(n \in copyS) + One(n \in copyM) + Cardinality(Users(n)')
                            + One(n \in vNodes /\ (fNetworkNode'[n] \/ fInbound[n]))
    BY <1>1 DEF UsersCover
  <2>1. nRefCount[n] >= One(n \in copyS) + One(n \in copyM) + Cardinality(Users(n))
                            + One(n \in vNodes /\ (fNetworkNode[n] \/ fInbound[n]))
    BY DEF PInv, UsersCover
  <2>2. CASE n = h
    BY <1>2, <1>8, <2>1, <2>2 DEF One
  <2>3. CASE n # h
    BY <1>2, <1>5, <1>8, <2>1, <2>3 DEF One
  <2> QED BY <2>2, <2>3
<1> QED BY <1>9, <1>10, <1>11, <1>12, <1>13, <1>14 DEF PInv

-----------------------------------------------------------------------------
LEMMA NextPeers == PInv /\ [PeersNext]_peersVars => PInv'
<1> SUFFICES ASSUME PInv, [PeersNext]_peersVars PROVE PInv'
  OBVIOUS
<1>1. CASE SocketThread
  BY <1>1, DisconnectPeers, AcceptPeers, CopyPeers, ReleasePeers, WorkPeers DEF SocketThread
<1>2. CASE MessageThread
  <2>1. CASE Relayed
    <3>1. relay \in Nodes
      BY <2>1 DEF Relayed, PInv, PTypes, PeersTypeOK
    <3> QED BY <2>1, <3>1, WorkPeers
  <2> QED BY <1>2, <2>1, CopyPeers, ReleasePeers, WorkPeers DEF MessageThread
<1>3. ASSUME NEW o \in Openers, Opening(o) PROVE PInv'
  BY <1>3, OpenerIdle, AddRefPeers, ConnectedPeers, MoveGrantPeers, NetworkNodePeers DEF Opening
<1>4. CASE UNCHANGED peersVars
  <2>1. /\ nRefCount' = nRefCount /\ copyS' = copyS /\ copyM' = copyM /\ todoS' = todoS
        /\ todoM' = todoM /\ relay' = relay /\ pcS' = pcS /\ pcM' = pcM
        /\ UNCHANGED <<vNodes, vNodesDisconnected, deleted, addr, fInbound, fNetworkNode,
                       semVars, openVars>>
    BY <1>4 DEF peersVars, nodeVars, sockVars, msgVars
  <2>2. CopiesOK'
    BY <2>1 DEF PInv, CopiesOK
  <2>3. /\ nRefCount \in [Nodes -> Int] /\ copyS \cup copyM \subseteq Nodes
        /\ todoS \subseteq copyS /\ todoM \subseteq copyM /\ relay \in Nodes \cup {None}
    BY DEF PInv, PTypes, PeersTypeOK
  <2> QED BY <2>1, <2>2, <2>3, CopyStep DEF One
<1> QED BY <1>1, <1>2, <1>3, <1>4 DEF PeersNext

\* What is deleted has no reference left, so UsersCover and RefCountsCover leave
\* nobody who could be using it.
LEMMA DeleteUnused ==
    PInv /\ [PeersNext]_peersVars =>
        \A n \in deleted' \ deleted :
            /\ n \notin copyS \cup copyM
            /\ \A o \in Openers : pcO[o] \in {"grant", "network"} => hand[o] # n
<1> SUFFICES ASSUME PInv, [PeersNext]_peersVars, NEW n \in deleted' \ deleted
             PROVE  /\ n \notin copyS \cup copyM
                    /\ Users(n) = {}
  BY DEF Users
<1>1. DisconnectNodes
  BY DEF PeersNext, SocketThread, MessageThread, Opening, AcceptConnection, CopyNodesS, CopyNodesM,
         ReleaseNodesS, ReleaseNodesM, ServiceSocket, HandleNode, Relayed, BeginOpen, FindNode,
         AddRefFound, Connected, ConnectFails, MoveGrant, SetNetworkNode, SetOneShot,
         peersVars, nodeVars
<1> DEFINE gone == {m \in vNodes : fDisconnect[m] \/ nRefCount[m] <= 0}
           conn == {m \in gone : fNetworkNode[m] \/ fInbound[m]}
<1>2. /\ n \in vNodesDisconnected \cup gone
      /\ nRefCount[n] - (IF n \in conn THEN 1 ELSE 0) <= 0
  BY <1>1 DEF DisconnectNodes, Release, PInv, PTypes, PeersTypeOK
<1>3. /\ nRefCount[n] >= One(n \in vNodes) + One(n \in copyS) + One(n \in copyM)
      /\ nRefCount[n] >= One(n \in copyS) + One(n \in copyM) + Cardinality(Users(n))
                            + One(n \in vNodes /\ (fNetworkNode[n] \/ fInbound[n]))
      /\ nRefCount[n] \in Int
  BY <1>2 DEF PInv, RefCountsCover, UsersCover, PTypes, PeersTypeOK
<1>4. IsFiniteSet(Users(n)) /\ Cardinality(Users(n)) \in Nat
  BY UsersFinite DEF PInv
<1>5. n \notin copyS \cup copyM /\ Cardinality(Users(n)) = 0
  BY <1>2, <1>3, <1>4 DEF One
<1> QED BY <1>4, <1>5, FS_EmptySet
-----------------------------------------------------------------------------
(* The requests.                                                           *)

LEMMA InitRequests == RequestsInit => RequestsTypeOK
  BY RequestsAssumption DEF RequestsInit, RequestsTypeOK, Never

LEMMA NextRequests == RequestsTypeOK /\ [RequestsNext]_requestVars => RequestsTypeOK'
<1> SUFFICES ASSUME RequestsTypeOK, [RequestsNext]_requestVars PROVE RequestsTypeOK'
  OBVIOUS
<1> DEFINE Times == Never .. MaxDelay
           Queue == (0 .. MaxDelay) \X Items
<1>1. /\ have \subseteq Items /\ mapAlreadyAskedFor \in [Items -> Times]
      /\ mapAskFor \in [Peers -> SUBSET Queue] /\ getdata \in [Peers -> SUBSET Items]
  BY DEF RequestsTypeOK
<1>2. Never \in Int /\ Never < 0 /\ Never \in Times /\ 0 \in Times
  BY RequestsAssumption DEF Never
<1>3. ASSUME NEW p \in Peers, NEW i \in Items, Inv(p, i) PROVE RequestsTypeOK'
  <2> DEFINE t == AtLeast(mapAlreadyAskedFor[i] + RETRY, 0)
  <2>1. t \in 0 .. MaxDelay /\ t \in Times
    BY <1>1, <1>2, <1>3, RequestsAssumption DEF Inv, AskFor, AtLeast
  <2>2. /\ mapAlreadyAskedFor' = [mapAlreadyAskedFor EXCEPT ![i] = t]
        /\ mapAskFor' = [mapAskFor EXCEPT ![p] = @ \cup {<<t, i>>}]
        /\ have' = have /\ getdata' = getdata
    BY <1>3 DEF Inv, AskFor
  <2> HIDE DEF t
  <2>3. mapAskFor[p] \cup {<<t, i>>} \in SUBSET Queue
    BY <1>1, <2>1
  <2> QED BY <1>1, <2>1, <2>2, <2>3 DEF RequestsTypeOK
<1>4. ASSUME NEW p \in Peers, NEW i \in Items, Receive(p, i) PROVE RequestsTypeOK'
  BY <1>1, <1>2, <1>4 DEF Receive, RequestsTypeOK
<1>5. ASSUME NEW p \in Peers, NEW i \in Items, ReceiveAgain(p, i) \/ NoAnswer(p, i)
      PROVE  RequestsTypeOK'
  BY <1>1, <1>5 DEF ReceiveAgain, NoAnswer, RequestsTypeOK
<1>6. ASSUME NEW p \in Peers, SendGetData(p) PROVE RequestsTypeOK'
  <2>1. Want(p) \subseteq Items
    BY <1>1, <1>6 DEF Want, Due
  <2>2. mapAskFor[p] \ Due(p) \in SUBSET Queue
    BY <1>1, <1>6
  <2>3. mapAskFor' \in [Peers -> SUBSET Queue]
    BY <1>1, <1>6, <2>2 DEF SendGetData
  <2>4. getdata' \in [Peers -> SUBSET Items]
    BY <1>1, <1>6, <2>1 DEF SendGetData
  <2>5. mapAlreadyAskedFor' \in [Items -> Times]
    BY <1>1, <1>2, <1>6 DEF SendGetData
  <2> QED BY <1>1, <1>6, <2>3, <2>4, <2>5 DEF SendGetData, RequestsTypeOK
<1>7. ASSUME NEW p \in Peers, Disconnect(p) PROVE RequestsTypeOK'
  BY <1>1, <1>7 DEF Disconnect, RequestsTypeOK
<1>8. ASSUME NEW i \in Items, Forget(i) PROVE RequestsTypeOK'
  BY <1>1, <1>8 DEF Forget, RequestsTypeOK
<1>9. CASE Tick
  <2>1. mapAlreadyAskedFor' \in [Items -> Times]
    <3>1. \A t \in Times : AtLeast(t - 1, Never) \in Times
      BY <1>2, RequestsAssumption DEF AtLeast
    <3> QED BY <1>1, <1>9, <3>1 DEF Tick
  <2>2. mapAskFor' \in [Peers -> SUBSET Queue]
    <3>1. \A t \in 0 .. MaxDelay : AtLeast(t - 1, 0) \in 0 .. MaxDelay
      BY RequestsAssumption DEF AtLeast
    <3>2. \A p \in Peers : {<<AtLeast(e[1] - 1, 0), e[2]>> : e \in mapAskFor[p]} \in SUBSET Queue
      BY <1>1, <3>1
    <3> QED BY <1>9, <3>2 DEF Tick
  <2> QED BY <1>1, <1>9, <2>1, <2>2 DEF Tick, RequestsTypeOK
<1>10. CASE UNCHANGED requestVars
  BY <1>1, <1>10 DEF requestVars, RequestsTypeOK
<1> QED BY <1>3, <1>4, <1>5, <1>6, <1>7, <1>8, <1>9, <1>10 DEF RequestsNext

-----------------------------------------------------------------------------
LEMMA NetworkInv == NetworkSpec => [](PInv /\ RequestsTypeOK)
<1>1. NetworkInit => PInv /\ RequestsTypeOK
  BY InitPeers, InitRequests DEF NetworkInit
<1>2. [NetworkNext]_networkVars => [PeersNext]_peersVars /\ [RequestsNext]_requestVars
  BY DEF NetworkNext, networkVars
<1>3. PInv /\ RequestsTypeOK /\ [NetworkNext]_networkVars => (PInv /\ RequestsTypeOK)'
  BY <1>2, NextPeers, NextRequests
<1> QED BY <1>1, <1>3, PTL DEF NetworkSpec

\* For every number of nodes, openers and permits: every count covers those that use
\* the node, "assert(nRefCount >= 0)" included, an inbound node is not counted too
\* often, and no permit is lost or made up (AddRef, Release, CSemaphoreGrant); for
\* every number of peers and items, requests stay in their range (AskFor, mapAskFor).
THEOREM CountsCorrect == NetworkSpec => []CountsOK
<1>1. PInv /\ RequestsTypeOK => CountsOK
  BY DEF PInv, PTypes, CountsOK
<1> QED BY NetworkInv, <1>1, PTL

\* The socket thread deletes no node that a thread with a counted reference uses,
\* however many openers find the same node and whenever it is disconnected (the
\* deletion of vNodesDisconnected in ThreadSocketHandler2).
THEOREM DeletesUnused == NetworkSpec => NoDeleteInUse
<1>1. [NetworkNext]_networkVars => [PeersNext]_peersVars
  BY DEF NetworkNext, networkVars
<1>2. PInv /\ [NetworkNext]_networkVars =>
        [\A n \in deleted' \ deleted :
            /\ n \notin copyS \cup copyM
            /\ \A o \in Openers : pcO[o] \in {"grant", "network"} => hand[o] # n]_peersVars
  BY <1>1, DeleteUnused
<1> QED BY NetworkInv, <1>2, PTL DEF NetworkSpec, NoDeleteInUse
=============================================================================

------------------------------- MODULE Peers --------------------------------
(***************************************************************************)
(* The connections of a node (net.cpp): vNodes and the reference counts    *)
(* that keep a CNode alive while a thread uses it.  The socket thread      *)
(* accepts, services, disconnects and deletes; the message thread works on *)
(* a copy of vNodes; further threads open outbound connections, each with  *)
(* a permit of semOutbound.                                                *)
(*                                                                         *)
(* One action is what a thread does under one hold of cs_vNodes, or one    *)
(* access to a node outside it.  The four locks that deletion tries are    *)
(* held only by a thread that has counted its reference, so they are left  *)
(* out.                                                                    *)
(***************************************************************************)
EXTENDS Integers, FiniteSets

CONSTANTS
    Nodes,              \* the CNode objects that are ever allocated
    Openers, Target,    \* threads that connect, and the address each connects to
    Named,              \* those that give it as a name (-addnode, -seednode)
    None,
    MAX_OUTBOUND_CONNECTIONS,
    MaxInbound          \* -maxconnections less MAX_OUTBOUND_CONNECTIONS

ASSUME PeersAssumption ==
    /\ None \notin Nodes
    /\ Named \subseteq Openers
    /\ None \notin {Target[o] : o \in Openers}
    /\ MAX_OUTBOUND_CONNECTIONS \in Nat /\ MaxInbound \in Nat

VARIABLES
    vNodes, vNodesDisconnected, deleted,
    addr, nRefCount, fInbound, fNetworkNode, fDisconnect,
    semOutbound, grantOutbound,     \* permits left, and the nodes that hold one
    pcS, copyS, todoS,              \* socket thread: vNodesCopy and what is left of it
    pcM, copyM, todoM, relay,       \* message thread, and the node a checkpoint is relayed to
    pcO, hand                       \* openers: where they are and their pnode

nodeVars  == <<vNodes, vNodesDisconnected, deleted, addr, nRefCount, fInbound, fNetworkNode, fDisconnect>>
semVars   == <<semOutbound, grantOutbound>>
sockVars  == <<pcS, copyS, todoS>>
msgVars   == <<pcM, copyM, todoM, relay>>
openVars  == <<pcO, hand>>
peersVars == <<nodeVars, semVars, sockVars, msgVars, openVars>>

Fresh == Nodes \ (vNodes \cup vNodesDisconnected \cup deleted)

PeersInit ==
    /\ vNodes = {} /\ vNodesDisconnected = {} /\ deleted = {}
    /\ addr = [n \in Nodes |-> None]
    /\ nRefCount = [n \in Nodes |-> 0]
    /\ fInbound = [n \in Nodes |-> FALSE]
    /\ fNetworkNode = [n \in Nodes |-> FALSE]
    /\ fDisconnect = [n \in Nodes |-> FALSE]
    /\ semOutbound = MAX_OUTBOUND_CONNECTIONS
    /\ grantOutbound = {}
    /\ pcS = "disconnect" /\ copyS = {} /\ todoS = {}
    /\ pcM = "copy" /\ copyM = {} /\ todoM = {} /\ relay = None
    /\ pcO = [o \in Openers |-> "idle"]
    /\ hand = [o \in Openers |-> None]

\* AddRef or Release of every node of a set.
AddRef(S)  == [n \in Nodes |-> nRefCount[n] + IF n \in S THEN 1 ELSE 0]
Release(S) == [n \in Nodes |-> nRefCount[n] - IF n \in S THEN 1 ELSE 0]

-----------------------------------------------------------------------------
(* ThreadSocketHandler2.                                                   *)

\* Mutant: a disconnected node is deleted at once.
DisconnectAndDelete ==
    LET gone == {n \in vNodes : fDisconnect[n] \/ nRefCount[n] <= 0}
        refs == Release({n \in gone : fNetworkNode[n] \/ fInbound[n]})
    IN  /\ pcS = "disconnect"
        /\ vNodes' = vNodes \ gone
        /\ nRefCount' = refs
        /\ fDisconnect' = [n \in Nodes |-> fDisconnect[n] \/ n \in gone]
        /\ deleted' = deleted \cup gone
        /\ semOutbound' = semOutbound + Cardinality(grantOutbound \cap gone)
        /\ grantOutbound' = grantOutbound \ gone
        /\ pcS' = "accept"
        /\ UNCHANGED <<vNodesDisconnected, addr, fInbound, fNetworkNode, copyS, todoS, msgVars, openVars>>

\* Mutant: only what has just been disconnected is looked at for deletion.
DisconnectLooksOnce ==
    LET gone == {n \in vNodes : fDisconnect[n] \/ nRefCount[n] <= 0}
        refs == Release({n \in gone : fNetworkNode[n] \/ fInbound[n]})
        del  == {n \in gone : refs[n] <= 0}
    IN  /\ pcS = "disconnect"
        /\ vNodes' = vNodes \ gone
        /\ nRefCount' = refs
        /\ fDisconnect' = [n \in Nodes |-> fDisconnect[n] \/ n \in gone]
        /\ vNodesDisconnected' = (vNodesDisconnected \cup gone) \ del
        /\ deleted' = deleted \cup del
        /\ semOutbound' = semOutbound + Cardinality(grantOutbound \cap gone)
        /\ grantOutbound' = grantOutbound \ gone
        /\ pcS' = "accept"
        /\ UNCHANGED <<addr, fInbound, fNetworkNode, copyS, todoS, msgVars, openVars>>

\* Disconnected nodes leave vNodes and give up their permit and the reference of
\* their connection; those without references are deleted, with a permit that
\* they got later.
DisconnectNodes ==
    LET gone == {n \in vNodes : fDisconnect[n] \/ nRefCount[n] <= 0}
        refs == Release({n \in gone : fNetworkNode[n] \/ fInbound[n]})
        disc == vNodesDisconnected \cup gone
        del  == {n \in disc : refs[n] <= 0}
    IN  /\ pcS = "disconnect"
        /\ vNodes' = vNodes \ gone
        /\ nRefCount' = refs
        /\ fDisconnect' = [n \in Nodes |-> fDisconnect[n] \/ n \in gone]
        /\ vNodesDisconnected' = disc \ del
        /\ deleted' = deleted \cup del
        /\ semOutbound' = semOutbound + Cardinality(grantOutbound \cap (gone \cup del))
        /\ grantOutbound' = grantOutbound \ (gone \cup del)
        /\ pcS' = "accept"
        /\ UNCHANGED <<addr, fInbound, fNetworkNode, copyS, todoS, msgVars, openVars>>

\* An inbound connection is accepted, or none.
AcceptConnection ==
    /\ pcS = "accept"
    /\ \/ UNCHANGED nodeVars
       \/ \E n \in Fresh :
            /\ Cardinality({m \in vNodes : fInbound[m]}) < MaxInbound
            /\ fInbound' = [fInbound EXCEPT ![n] = TRUE]
            /\ nRefCount' = [nRefCount EXCEPT ![n] = 1]
            /\ vNodes' = vNodes \cup {n}
            /\ UNCHANGED <<vNodesDisconnected, deleted, addr, fNetworkNode, fDisconnect>>
    /\ pcS' = "copy"
    /\ UNCHANGED <<semVars, copyS, todoS, msgVars, openVars>>

\* Mutant: the nodes of the copy are not counted.
CopyUncounted ==
    /\ pcS = "copy"
    /\ copyS' = vNodes /\ todoS' = vNodes
    /\ pcS' = "service"
    /\ UNCHANGED <<nodeVars, semVars, msgVars, openVars>>

CopyNodesS ==
    /\ pcS = "copy"
    /\ copyS' = vNodes /\ todoS' = vNodes
    /\ nRefCount' = AddRef(vNodes)
    /\ pcS' = "service"
    /\ UNCHANGED <<vNodes, vNodesDisconnected, deleted, addr, fInbound, fNetworkNode, fDisconnect,
                   semVars, msgVars, openVars>>

\* A node is serviced; its socket may turn out to be closed.
ServiceSocket(n) ==
    /\ pcS = "service" /\ n \in todoS
    /\ todoS' = todoS \ {n}
    /\ \E closed \in BOOLEAN : fDisconnect' = [fDisconnect EXCEPT ![n] = fDisconnect[n] \/ closed]
    /\ UNCHANGED <<vNodes, vNodesDisconnected, deleted, addr, nRefCount, fInbound, fNetworkNode,
                   semVars, pcS, copyS, msgVars, openVars>>

ReleaseNodesS ==
    /\ pcS = "service" /\ todoS = {}
    /\ nRefCount' = Release(copyS)
    /\ copyS' = {}
    /\ pcS' = "disconnect"
    /\ UNCHANGED <<vNodes, vNodesDisconnected, deleted, addr, fInbound, fNetworkNode, fDisconnect,
                   semVars, todoS, msgVars, openVars>>

-----------------------------------------------------------------------------
(* ThreadMessageHandler2.                                                  *)

CopyNodesM ==
    /\ pcM = "copy"
    /\ copyM' = vNodes /\ todoM' = vNodes
    /\ nRefCount' = AddRef(vNodes)
    /\ pcM' = "handle"
    /\ UNCHANGED <<vNodes, vNodesDisconnected, deleted, addr, fInbound, fNetworkNode, fDisconnect,
                   semVars, sockVars, relay, openVars>>

\* ProcessMessages and SendMessages for a node that is not disconnected: it may
\* be disconnected, and a block among its messages may make
\* AcceptPendingSyncCheckpoint walk over vNodes, without a lock.
HandleNode(n) ==
    /\ pcM = "handle" /\ n \in todoM /\ relay = None
    /\ todoM' = todoM \ {n}
    /\ \/ fDisconnect[n] /\ UNCHANGED <<fDisconnect, relay>>
       \/ /\ ~fDisconnect[n]
          /\ \E bad \in BOOLEAN : fDisconnect' = [fDisconnect EXCEPT ![n] = bad]
          /\ relay' \in vNodes \cup {None}
    /\ UNCHANGED <<vNodes, vNodesDisconnected, deleted, addr, nRefCount, fInbound, fNetworkNode,
                   semVars, sockVars, pcM, copyM, openVars>>

\* RelayTo has written to the node.
Relayed ==
    /\ relay # None
    /\ relay' = None
    /\ UNCHANGED <<nodeVars, semVars, sockVars, pcM, copyM, todoM, openVars>>

ReleaseNodesM ==
    /\ pcM = "handle" /\ todoM = {} /\ relay = None
    /\ nRefCount' = Release(copyM)
    /\ copyM' = {}
    /\ pcM' = "copy"
    /\ UNCHANGED <<vNodes, vNodesDisconnected, deleted, addr, fInbound, fNetworkNode, fDisconnect,
                   semVars, sockVars, todoM, relay, openVars>>

-----------------------------------------------------------------------------
(* OpenNetworkConnection and ConnectNode.                                  *)

NodeAt(a) == {n \in vNodes : addr[n] = a}

\* A permit is taken, and no node has the address or name.
BeginOpen(o) ==
    /\ pcO[o] = "idle"
    /\ semOutbound > 0
    /\ NodeAt(Target[o]) = {}
    /\ semOutbound' = semOutbound - 1
    /\ pcO' = [pcO EXCEPT ![o] = IF o \in Named THEN "connecting" ELSE "connect"]
    /\ UNCHANGED <<nodeVars, grantOutbound, sockVars, msgVars, hand>>

\* Without a name, ConnectNode looks for an existing connection again; another
\* opener may have made one.
FindNode(o) ==
    /\ pcO[o] = "connect"
    /\ \/ /\ NodeAt(Target[o]) = {}
          /\ pcO' = [pcO EXCEPT ![o] = "connecting"]
          /\ UNCHANGED hand
       \/ \E n \in NodeAt(Target[o]) :
            /\ hand' = [hand EXCEPT ![o] = n]
            /\ pcO' = [pcO EXCEPT ![o] = "found"]
    /\ UNCHANGED <<nodeVars, semVars, sockVars, msgVars>>

AddRefFound(o) ==
    /\ pcO[o] = "found"
    /\ nRefCount' = AddRef({hand[o]})
    /\ pcO' = [pcO EXCEPT ![o] = "grant"]
    /\ UNCHANGED <<vNodes, vNodesDisconnected, deleted, addr, fInbound, fNetworkNode, fDisconnect,
                   semVars, sockVars, msgVars, hand>>

\* The connection is made and the node published.
Connected(o) ==
    \E n \in Fresh :
        /\ pcO[o] = "connecting"
        /\ addr' = [addr EXCEPT ![n] = Target[o]]
        /\ nRefCount' = [nRefCount EXCEPT ![n] = 1]
        /\ vNodes' = vNodes \cup {n}
        /\ hand' = [hand EXCEPT ![o] = n]
        /\ pcO' = [pcO EXCEPT ![o] = "grant"]
        /\ UNCHANGED <<vNodesDisconnected, deleted, fInbound, fNetworkNode, fDisconnect, semVars, sockVars, msgVars>>

\* The connection fails, and the permit's destructor gives it back.
ConnectFails(o) ==
    /\ pcO[o] = "connecting"
    /\ semOutbound' = semOutbound + 1
    /\ pcO' = [pcO EXCEPT ![o] = "idle"]
    /\ UNCHANGED <<nodeVars, grantOutbound, sockVars, msgVars, hand>>

\* MoveTo: a permit that the node has already is given back first.
MoveGrant(o) ==
    /\ pcO[o] = "grant"
    /\ semOutbound' = semOutbound + IF hand[o] \in grantOutbound THEN 1 ELSE 0
    /\ grantOutbound' = grantOutbound \cup {hand[o]}
    /\ pcO' = [pcO EXCEPT ![o] = "network"]
    /\ UNCHANGED <<nodeVars, sockVars, msgVars, hand>>

SetNetworkNode(o) ==
    /\ pcO[o] = "network"
    /\ fNetworkNode' = [fNetworkNode EXCEPT ![hand[o]] = TRUE]
    /\ \/ pcO' = [pcO EXCEPT ![o] = "idle"] /\ hand' = [hand EXCEPT ![o] = None]
       \/ o \in Named /\ pcO' = [pcO EXCEPT ![o] = "oneshot"] /\ UNCHANGED hand
    /\ UNCHANGED <<vNodes, vNodesDisconnected, deleted, addr, nRefCount, fInbound, fDisconnect,
                   semVars, sockVars, msgVars>>

\* pnode->fOneShot = true, for a connection of ProcessOneShot.
SetOneShot(o) ==
    /\ pcO[o] = "oneshot"
    /\ pcO' = [pcO EXCEPT ![o] = "idle"]
    /\ hand' = [hand EXCEPT ![o] = None]
    /\ UNCHANGED <<nodeVars, semVars, sockVars, msgVars>>

-----------------------------------------------------------------------------
SocketThread  == DisconnectNodes \/ AcceptConnection \/ CopyNodesS \/ ReleaseNodesS \/ \E n \in Nodes : ServiceSocket(n)
MessageThread == CopyNodesM \/ Relayed \/ ReleaseNodesM \/ \E n \in Nodes : HandleNode(n)
Opening(o)    == \/ BeginOpen(o) \/ FindNode(o) \/ AddRefFound(o) \/ Connected(o) \/ ConnectFails(o)
                 \/ MoveGrant(o) \/ SetNetworkNode(o) \/ SetOneShot(o)

PeersNext == SocketThread \/ MessageThread \/ \E o \in Openers : Opening(o)

PeersSpec == PeersInit /\ [][PeersNext]_peersVars

\* The socket and the message thread run; an opener may wait for its connection.
PeersFairSpec == PeersSpec /\ WF_peersVars(SocketThread) /\ WF_peersVars(MessageThread)

-----------------------------------------------------------------------------
(* Properties.                                                             *)

One(cond) == IF cond THEN 1 ELSE 0

\* Types of the threads' locals and of the nodes' fields.
PeersTypeOK ==
    /\ nRefCount \in [Nodes -> Int]
    /\ vNodes \cup vNodesDisconnected \cup deleted \cup copyS \cup copyM \subseteq Nodes
    /\ vNodes \cap vNodesDisconnected = {} /\ (vNodes \cup vNodesDisconnected) \cap deleted = {}
    /\ todoS \subseteq copyS /\ todoM \subseteq copyM
    /\ relay \in Nodes \cup {None}
    /\ hand \in [Openers -> Nodes \cup {None}]

\* A node's count covers its connection and every copy of vNodes it is in, and for
\* an inbound one nothing else: "assert(nRefCount >= 0)", and no node stays behind.
RefCountsCover ==
    \A n \in vNodes \cup vNodesDisconnected :
        LET known == One(n \in vNodes) + One(n \in copyS) + One(n \in copyM)
        IN  /\ nRefCount[n] >= known
            /\ fInbound[n] => nRefCount[n] = known

\* The openers that have counted a reference to n and not yet handed it over to the
\* connection by setting fNetworkNode.
Users(n) == {o \in Openers : pcO[o] \in {"grant", "network"} /\ hand[o] = n}

\* The count also covers those openers, beside the copies and the reference that
\* disconnecting releases: two openers may have found one node, and the flag that
\* the first one sets lets the socket thread release while the second still works.
UsersCover ==
    \A n \in vNodes \cup vNodesDisconnected :
        nRefCount[n] >= One(n \in copyS) + One(n \in copyM) + Cardinality(Users(n))
                            + One(n \in vNodes /\ (fNetworkNode[n] \/ fInbound[n]))

\* A node is not deleted while a thread has counted a reference to it: the socket
\* and the message thread with their copies, an opener with the node it has made or
\* found (vNodesDisconnected is "hold in disconnected pool until all refs are released").
NoDeleteInUse ==
    [][\A n \in deleted' \ deleted :
          /\ n \notin copyS \cup copyM
          /\ \A o \in Openers : pcO[o] \in {"grant", "network"} => hand[o] # n]_peersVars

\* No permit is lost or made up, wherever nodes are disconnected while their
\* connection is still being opened (CSemaphoreGrant).
PermitsConserved ==
    semOutbound + Cardinality(grantOutbound)
        + Cardinality({o \in Openers : pcO[o] \in {"connect", "connecting", "found", "grant"}})
    = MAX_OUTBOUND_CONNECTIONS

\* A disconnected inbound node is deleted at last.
InboundDeleted ==
    \A n \in Nodes : (n \in vNodesDisconnected /\ fInbound[n]) ~> n \in deleted
=============================================================================

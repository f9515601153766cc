----------------------------- MODULE MCNetwork ------------------------------
(***************************************************************************)
(* The connections and the requests over them, in one run.  They share no  *)
(* state: a behaviour is one of Peers or one of Requests, and the other    *)
(* stays as it starts.                                                     *)
(*                                                                         *)
(* Peers: two nodes, and two openers for one address.                      *)
(***************************************************************************)
EXTENDS Peers, Requests

CONSTANTS o1, o2, home

VARIABLE part

MCTarget == [o \in {o1, o2} |-> home]

networkVars == <<part, peersVars, requestVars>>

NetworkInit == part \in {"peers", "requests"} /\ PeersInit /\ RequestsInit

NetworkNext ==
    \/ part = "peers" /\ PeersNext /\ UNCHANGED <<part, requestVars>>
    \/ part = "requests" /\ RequestsNext /\ UNCHANGED <<part, peersVars>>

OfPeers(A)    == part = "peers" /\ A /\ UNCHANGED <<part, requestVars>>
OfRequests(A) == part = "requests" /\ A /\ UNCHANGED <<part, peersVars>>

\* The fairness of PeersFairSpec and of RequestsFairSpec.
NetworkSpec ==
    /\ NetworkInit /\ [][NetworkNext]_networkVars
    /\ WF_networkVars(OfPeers(SocketThread)) /\ WF_networkVars(OfPeers(MessageThread))
    /\ WF_networkVars(OfRequests(Tick))
    /\ \A p \in Peers : WF_networkVars(OfRequests(SendGetData(p)))
    /\ \A p \in Honest, i \in Items : WF_networkVars(OfRequests(i \in getdata[p] /\ Receive(p, i)))

\* Types, and what is counted: references to nodes (AddRef, Release) and permits of
\* outbound connections (CSemaphoreGrant).
CountsOK == PeersTypeOK /\ RequestsTypeOK /\ RefCountsCover /\ UsersCover /\ PermitsConserved
=============================================================================

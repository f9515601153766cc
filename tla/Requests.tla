------------------------------ MODULE Requests ------------------------------
(***************************************************************************)
(* How an item that peers announce is fetched (CNode::AskFor, the getdata  *)
(* part of SendMessages, and the handlers of inv, tx and block): one queue *)
(* of request times per peer, and one time per item for all peers, so that *)
(* they are asked one after the other.  Peers may not answer, answer late  *)
(* or go away.                                                             *)
(*                                                                         *)
(* Times are relative to now, in parts of the two minutes between retries. *)
(* What lies RETRY or more in the past has the same effect as no entry.    *)
(***************************************************************************)
EXTENDS Integers

CONSTANTS
    Peers, Honest,      \* honest peers stay, and answer what they are asked
    Items,
    RETRY,              \* two minutes
    MaxDelay            \* bound of the model: how far ahead requests are queued

ASSUME RequestsAssumption ==
    /\ Honest \subseteq Peers
    /\ RETRY \in Nat \ {0} /\ MaxDelay \in Nat

VARIABLES
    have,               \* what AlreadyHave finds
    mapAlreadyAskedFor, \* item -> time of its last request, queued or sent
    mapAskFor,          \* peer -> {<<time, item>>}
    getdata             \* peer -> items asked and not yet answered

requestVars == <<have, mapAlreadyAskedFor, mapAskFor, getdata>>

Never == -RETRY
AtLeast(a, b) == IF a < b THEN b ELSE a

RequestsInit ==
    /\ have = {}
    /\ mapAlreadyAskedFor = [i \in Items |-> Never]
    /\ mapAskFor = [p \in Peers |-> {}]
    /\ getdata = [p \in Peers |-> {}]

AskFor(p, i) ==
    LET nRequestTime == AtLeast(mapAlreadyAskedFor[i] + RETRY, 0)
    IN  /\ nRequestTime <= MaxDelay
        /\ mapAlreadyAskedFor' = [mapAlreadyAskedFor EXCEPT ![i] = nRequestTime]
        /\ mapAskFor' = [mapAskFor EXCEPT ![p] = @ \cup {<<nRequestTime, i>>}]

\* inv: a peer announces an item that is not here.
Inv(p, i) ==
    /\ i \notin have
    /\ AskFor(p, i)
    /\ UNCHANGED <<have, getdata>>

Due(p)  == {e \in mapAskFor[p] : e[1] <= 0}

\* Mutant: a request is dropped when a later one is queued for another peer.
WantLast(p) == {e[2] : e \in Due(p)} \ (have \cup {i \in Items : mapAlreadyAskedFor[i] > 0})

Want(p) == {e[2] : e \in Due(p)} \ have

\* SendMessages: the requests that are due are sent, or dropped when the item is here.
SendGetData(p) ==
    /\ Due(p) # {}
    /\ getdata' = [getdata EXCEPT ![p] = @ \cup Want(p)]
    /\ mapAlreadyAskedFor' = [i \in Items |-> IF i \in Want(p) THEN 0 ELSE mapAlreadyAskedFor[i]]
    /\ mapAskFor' = [mapAskFor EXCEPT ![p] = @ \ Due(p)]
    /\ UNCHANGED have

\* tx or block: the item comes, asked for or not, and is accepted, or held as an
\* orphan transaction and its time kept.
Receive(p, i) ==
    /\ i \notin have
    /\ have' = have \cup {i}
    /\ mapAlreadyAskedFor' \in {[mapAlreadyAskedFor EXCEPT ![i] = Never], mapAlreadyAskedFor}
    /\ getdata' = [getdata EXCEPT ![p] = @ \ {i}]
    /\ UNCHANGED mapAskFor

\* An answer to a request that another peer has answered before.
ReceiveAgain(p, i) ==
    /\ i \in have \cap getdata[p]
    /\ getdata' = [getdata EXCEPT ![p] = @ \ {i}]
    /\ UNCHANGED <<have, mapAlreadyAskedFor, mapAskFor>>

\* A peer has not got it any more (mapRelay), or what it sends is refused.
NoAnswer(p, i) ==
    /\ p \notin Honest
    /\ i \in getdata[p]
    /\ getdata' = [getdata EXCEPT ![p] = @ \ {i}]
    /\ UNCHANGED <<have, mapAlreadyAskedFor, mapAskFor>>

\* A peer is disconnected, and its queue goes with it; another takes its place.
Disconnect(p) ==
    /\ p \notin Honest
    /\ mapAskFor' = [mapAskFor EXCEPT ![p] = {}]
    /\ getdata' = [getdata EXCEPT ![p] = {}]
    /\ UNCHANGED <<have, mapAlreadyAskedFor>>

\* Something that was here is given up: an orphan over the limit, a transaction
\* that conflicts with a block.
Forget(i) ==
    /\ i \in have
    /\ have' = have \ {i}
    /\ UNCHANGED <<mapAlreadyAskedFor, mapAskFor, getdata>>

Tick ==
    /\ mapAlreadyAskedFor' = [i \in Items |-> AtLeast(mapAlreadyAskedFor[i] - 1, Never)]
    /\ mapAskFor' = [p \in Peers |-> {<<AtLeast(e[1] - 1, 0), e[2]>> : e \in mapAskFor[p]}]
    /\ UNCHANGED <<have, getdata>>

RequestsNext ==
    \/ \E p \in Peers, i \in Items : Inv(p, i) \/ Receive(p, i) \/ ReceiveAgain(p, i) \/ NoAnswer(p, i)
    \/ \E p \in Peers : SendGetData(p) \/ Disconnect(p)
    \/ \E i \in Items : Forget(i)
    \/ Tick

RequestsSpec == RequestsInit /\ [][RequestsNext]_requestVars

\* Time passes, the message thread comes round to every peer, and an honest peer
\* answers what it was asked for.
RequestsFairSpec ==
    /\ RequestsSpec
    /\ WF_requestVars(Tick)
    /\ \A p \in Peers : WF_requestVars(SendGetData(p))
    /\ \A p \in Honest, i \in Items : WF_requestVars(i \in getdata[p] /\ Receive(p, i))

-----------------------------------------------------------------------------
(* Properties.                                                             *)

\* Types and ranges: no request lies in the past, none beyond the bound (mapAskFor).
RequestsTypeOK ==
    /\ have \subseteq Items
    /\ mapAlreadyAskedFor \in [Items -> Never .. MaxDelay]
    /\ mapAskFor \in [Peers -> SUBSET ((0 .. MaxDelay) \X Items)]
    /\ getdata \in [Peers -> SUBSET Items]

\* An honest peer that announces an item the node lacks is the end of the search,
\* however many others announced it before and never answer, answer late or
\* disconnect.
Obtained ==
    \A p \in Honest, i \in Items : (i \notin have /\ \E t \in 0 .. MaxDelay : <<t, i>> \in mapAskFor[p]) ~> i \in have
=============================================================================

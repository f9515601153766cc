------------------------------- MODULE Alerts -------------------------------
(***************************************************************************)
(* Alerts (alert.cpp, the "alert" and "version" messages of main.cpp):     *)
(* signed messages that nodes pass on, keep until they expire, and drop    *)
(* when another one cancels them.  Nothing is kept over a restart.         *)
(*                                                                         *)
(* A handler runs to its end before the next message of any peer, since    *)
(* one thread handles messages.  The opener of a connection says its       *)
(* version at once, the other side when it hears one, and until then it    *)
(* has the opener in vNodes all the same: an alert that it relays then     *)
(* reaches a peer that has heard no version, which throws it away.         *)
(* After the version, alerts on the way may arrive in any order; a         *)
(* connection that is lost takes them and setKnown with it, at both ends.  *)
(* The penalties for early and for refused alerts are left out.            *)
(***************************************************************************)
EXTENDS Integers, FiniteSets

CONSTANTS
    Nodes, Links,       \* Links: pairs of nodes, in both directions
    Opens,              \* those along which the first node opens connections
    AlertSet,           \* signed alerts
    nID, nCancel, setCancel, nExpiration, nRelayUntil,
    Canonical,          \* alerts of the form that nID = MaxID must have
    Applying,           \* alerts with a text that apply to the version of the nodes
    MaxID,              \* numeric_limits<int>::max()
    MaxTime, MaxLosses  \* bounds of the model: GetAdjustedTime, lost connections

Finals == {a \in AlertSet : nID[a] = MaxID /\ a \in Canonical}

\* The text of an alert as such, whenever it is in effect.
Names(a, b) == nID[b] <= nCancel[a] \/ nID[b] \in setCancel[a]

\* Alerts that the test of ProcessAlert does not refuse for their form.
WellFormed == {a \in AlertSet : nID[a] = MaxID => a \in Canonical}

\* An alert that is relayed as long as it is in effect.
Lasting(a) == a \in Applying \/ nRelayUntil[a] >= nExpiration[a]

\* nID is an int, and a canonical alert never expires and cancels all others
\* (ProcessAlert's test; of its setCancel that test says nothing).
ASSUME AlertAssumption ==
    /\ MaxID \in Int /\ MaxTime \in Nat /\ MaxLosses \in Nat
    /\ \A a \in AlertSet : /\ nID[a] \in Int /\ nID[a] <= MaxID
                           /\ nExpiration[a] \in Int /\ nRelayUntil[a] \in Int
    /\ \A a \in Finals : nExpiration[a] > MaxTime /\ nCancel[a] = MaxID - 1
    /\ \A l \in Links : l \in Nodes \X Nodes /\ <<l[2], l[1]>> \in Links
    /\ Opens \subseteq Links

\* Alerts as the holder of the key is expected to use it, which the code does not
\* enforce: cancellation is transitive and in one direction, and an alert outlives
\* those that it cancels, and is relayed as long when they apply.
Orderly(S) ==
    /\ \A a, b \in S : Names(a, b) /\ a # b => ~Names(b, a) /\ nExpiration[a] >= nExpiration[b]
    /\ \A a, b, c \in S : Names(a, b) /\ Names(b, c) => Names(a, c)
    /\ \A a \in S, b \in Applying \cap S : Names(a, b) => Lasting(a)

Back(l) == <<l[2], l[1]>>

VARIABLES
    mapAlerts,          \* node -> alerts
    vNodes,             \* links of which the first node has the second in vNodes
    fInbound,           \* those that the first node has accepted
    hasVersion,         \* those with nVersion # 0: the first has heard the second's version
    setKnown,           \* <<n, m>> -> what n knows m to have
    sent,               \* <<n, m>> -> alerts on the way from n to m
    dropped,            \* <<n, m>> -> alerts that n relayed before its version
    now,                \* GetAdjustedTime
    losses,             \* connections lost so far
    entered             \* alerts of the holder of the key that were not refused as such

connVars == <<vNodes, fInbound, hasVersion>>
alertVars == <<mapAlerts, connVars, setKnown, sent, dropped, now, losses, entered>>

AlertsInit ==
    /\ mapAlerts = [n \in Nodes |-> {}]
    /\ vNodes = {} /\ fInbound = {} /\ hasVersion = {}
    /\ setKnown = [l \in Links |-> {}] /\ sent = [l \in Links |-> {}]
    /\ dropped = [l \in Links |-> {}]
    /\ now = 0 /\ losses = 0 /\ entered = {}

IsInEffect(a) == now < nExpiration[a]
Cancels(a, b) == IsInEffect(a) /\ Names(a, b)

-----------------------------------------------------------------------------
\* Mutant: the form of the alert with the highest ID is not tested.
AnyForm(a) == IsInEffect(a)

\* ProcessAlert's tests of the alert itself.
Acceptable(a) == IsInEffect(a) /\ (nID[a] = MaxID => a \in Canonical)

\* What is left of the map when the alert has cancelled and the expired are dropped.
Left(n, a) == {b \in mapAlerts[n] : ~Cancels(a, b) /\ IsInEffect(b)}

ProcessAlert(n, a) == Acceptable(a) /\ \A b \in Left(n, a) : ~Cancels(b, a)

\* Mutant: an alert that applies to the nodes is also relayed until nRelayUntil only.
RelaysUntil(a) == IsInEffect(a) /\ now < nRelayUntil[a]

\* RelayTo, for a peer that is not known to have the alert.
Relays(a) == IsInEffect(a) /\ (a \in Applying \/ now < nRelayUntil[a])

\* The first node has said its version: the opener at once, the other when it has
\* heard the opener's (PushVersion).
SaysVersion(l) == l \in vNodes /\ (l \in fInbound => l \in hasVersion)

\* What a node makes of an alert that it receives.  What it refuses stays out of
\* setKnown, and what had to go before stays out of the map.
Receive(n, a, known, out) ==
    LET ok == ProcessAlert(n, a)
        to == {l \in vNodes : l[1] = n /\ a \notin known[l]}
        Gets(l) == ok /\ l \in to /\ Relays(a)
    IN  /\ mapAlerts' = [mapAlerts EXCEPT
                           ![n] = IF ~Acceptable(a) THEN @ ELSE Left(n, a) \cup (IF ok THEN {a} ELSE {})]
        /\ setKnown' = [l \in Links |-> IF ok /\ l \in to THEN known[l] \cup {a} ELSE known[l]]
        /\ sent' = [l \in Links |-> IF Gets(l) /\ SaysVersion(l) THEN out[l] \cup {a} ELSE out[l]]
        /\ dropped' = [l \in Links |-> IF Gets(l) /\ ~SaysVersion(l) THEN dropped[l] \cup {a} ELSE dropped[l]]

\* The holder of the key gives an alert to a node (sendalert).
Enter ==
    \E n \in Nodes, a \in AlertSet \ entered :
        /\ Receive(n, a, setKnown, sent)
        /\ entered' = IF Acceptable(a) THEN entered \cup {a} ELSE entered
        /\ UNCHANGED <<connVars, now, losses>>

\* The "alert" message from a peer, which has said its version before.
AlertMessage ==
    \E l \in Links : \E a \in sent[l] :
        LET out == [sent EXCEPT ![l] = @ \ {a}]
        IN  /\ Back(l) \in hasVersion
            /\ \/ /\ a \in setKnown[Back(l)]
                  /\ sent' = out /\ UNCHANGED <<mapAlerts, setKnown, dropped>>
               \/ /\ a \notin setKnown[Back(l)]
                  /\ Receive(l[2], a,
                             [setKnown EXCEPT ![Back(l)] = IF ProcessAlert(l[2], a) THEN @ \cup {a} ELSE @],
                             out)
            /\ UNCHANGED <<connVars, now, losses, entered>>

\* A connection is opened (ConnectNode); the other side accepts it.
Connect ==
    \E l \in Opens :
        /\ l \notin vNodes /\ Back(l) \notin vNodes
        /\ vNodes' = vNodes \cup {l}
        /\ UNCHANGED <<mapAlerts, fInbound, hasVersion, setKnown, sent, dropped, now, losses, entered>>

Accept ==
    \E l \in Links :
        /\ l \notin vNodes /\ Back(l) \in vNodes
        /\ vNodes' = vNodes \cup {l} /\ fInbound' = fInbound \cup {l}
        /\ UNCHANGED <<mapAlerts, hasVersion, setKnown, sent, dropped, now, losses, entered>>

\* The "version" message: an inbound peer is answered, and either is sent the alerts
\* that it is not known to have.
VersionMessage ==
    \E l \in vNodes \ hasVersion :
        /\ SaysVersion(Back(l))
        /\ hasVersion' = hasVersion \cup {l}
        /\ setKnown' = [setKnown EXCEPT ![l] = @ \cup {a \in mapAlerts[l[1]] : IsInEffect(a)}]
        /\ sent' = [sent EXCEPT ![l] = @ \cup {a \in mapAlerts[l[1]] \ setKnown[l] : Relays(a)}]
        /\ UNCHANGED <<mapAlerts, vNodes, fInbound, dropped, now, losses, entered>>

\* Connections end at both sides, with all that is on the way.
Closed(lost) ==
    LET Cleared(f) == [l \in Links |-> IF l \in lost THEN {} ELSE f[l]]
    IN  /\ losses < MaxLosses /\ losses' = losses + 1
        /\ vNodes' = vNodes \ lost /\ fInbound' = fInbound \ lost /\ hasVersion' = hasVersion \ lost
        /\ setKnown' = Cleared(setKnown) /\ sent' = Cleared(sent) /\ dropped' = Cleared(dropped)
        /\ UNCHANGED <<now, entered>>

Lose ==
    \E l \in vNodes : Closed({l, Back(l)}) /\ UNCHANGED mapAlerts

RestartNode ==
    \E n \in Nodes :
        /\ Closed({l \in Links : n \in {l[1], l[2]}})
        /\ mapAlerts' = [mapAlerts EXCEPT ![n] = {}]

Tick ==
    /\ now < MaxTime
    /\ now' = now + 1
    /\ UNCHANGED <<mapAlerts, connVars, setKnown, sent, dropped, losses, entered>>

AlertsNext ==
    \/ Enter \/ AlertMessage \/ Connect \/ Accept \/ VersionMessage
    \/ Lose \/ RestartNode \/ Tick

AlertsSpec == AlertsInit /\ [][AlertsNext]_alertVars

-----------------------------------------------------------------------------
(* Properties.                                                             *)

\* Types of the maps and of what is on the way; alerts come from the holder of the key.
AlertsTypeOK ==
    /\ mapAlerts \in [Nodes -> SUBSET AlertSet]
    /\ hasVersion \subseteq vNodes /\ fInbound \subseteq vNodes /\ vNodes \subseteq Links
    /\ {setKnown, sent, dropped} \subseteq [Links -> SUBSET AlertSet]
    /\ now \in 0 .. MaxTime /\ losses \in 0 .. MaxLosses /\ entered \subseteq AlertSet

\* Two nodes that have heard each other's version, with nothing on the way between
\* them, have the same alerts in effect, in whatever order alerts and their
\* cancellations reached them, and whatever connections were lost: what one has
\* cancelled, the other has not kept (ProcessAlert, RelayTo, setKnown).  They differ
\* only by what was relayed too early to a peer that had not heard a version: the
\* alert itself, or one that cancels it.
NodesAgree ==
    \A l \in hasVersion :
        Back(l) \in hasVersion /\ sent[l] \cup sent[Back(l)] = {}
            => \A a \in (mapAlerts[l[1]] \ mapAlerts[l[2]]) \cap Applying :
                  IsInEffect(a) => \/ a \in dropped[l]
                                   \/ \E b \in dropped[Back(l)] \cap mapAlerts[l[2]] : Names(b, a)

\* An alert that names the final ones: ProcessAlert refuses none for that.
Overrides(a) == MaxID <= nCancel[a] \/ MaxID \in setCancel[a]

\* The alert that says the key is compromised "must never expire" and "must cancel
\* all previous alerts": a node never has it together with another, and loses it
\* only when it is started again or takes an alert that names the highest ID, the
\* only way round the test of ProcessAlert.
FinalPrevails ==
    [][\A n \in Nodes :
          /\ mapAlerts'[n] \cap Finals # {} => mapAlerts'[n] \subseteq Finals
          /\ mapAlerts[n] \cap Finals # {} => \/ mapAlerts'[n] \cap Finals # {}
                                              \/ \E a \in mapAlerts'[n] : Overrides(a)
                                              \/ losses' # losses /\ mapAlerts'[n] = {}]_alertVars

\* The maps have their types, and neighbours agree when the key is used as expected.
AlertsOK == AlertsTypeOK /\ (Orderly(entered \cap WellFormed) => NodesAgree)
=============================================================================

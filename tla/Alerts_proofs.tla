--------------------------- MODULE Alerts_proofs ----------------------------
(***************************************************************************)
(* For every network and every set of alerts: nodes that have met agree    *)
(* once nothing is on the way between them, if the holder of the key has   *)
(* used it in order, and the final alert prevails in any case.             *)
(***************************************************************************)
EXTENDS Alerts, TLAPS

\* The alerts that a node may have.
Used == entered \cap WellFormed

\* A node has an alert, or one that names it.
Covered(n, x) == \E y \in mapAlerts[n] : y = x \/ Names(y, x)

\* No malformed alert is kept or passed on.
FormsOK ==
    /\ \A n \in Nodes : mapAlerts[n] \subseteq Used
    /\ \A l \in Links : setKnown[l] \cup sent[l] \subseteq Used

\* No node has an alert together with one that names it.
Clean == \A n \in Nodes : \A x, y \in mapAlerts[n] : x # y => ~Names(x, y)

\* A node has relayed what it has to each peer whose version it has heard.
Greeted == \A l \in hasVersion : \A x \in mapAlerts[l[1]] : IsInEffect(x) => x \in setKnown[l]

\* What a node has passed on, or takes a peer to know, it has had itself, and has
\* lost only to one that names it.
Remembered == \A l \in Links : \A x \in setKnown[l] \cup sent[l] : IsInEffect(x) => Covered(l[1], x)

\* What a node takes a peer to know is on its way there, or covered there, or was
\* relayed too early.
Told ==
    \A l \in Links : \A x \in setKnown[l] :
        IsInEffect(x) /\ Lasting(x) => x \in sent[l] \/ x \in dropped[l] \/ Covered(l[2], x)

AInv == AlertsTypeOK /\ FormsOK /\ Clean /\ Greeted /\ (Orderly(Used) => Remembered /\ Told)

LEMMA Types ==
    ASSUME AInv
    PROVE  /\ mapAlerts \in [Nodes -> SUBSET AlertSet]
           /\ setKnown \in [Links -> SUBSET AlertSet] /\ sent \in [Links -> SUBSET AlertSet]
           /\ dropped \in [Links -> SUBSET AlertSet]
           /\ hasVersion \subseteq vNodes /\ fInbound \subseteq vNodes /\ vNodes \subseteq Links
           /\ now \in 0 .. MaxTime /\ losses \in 0 .. MaxLosses /\ entered \subseteq AlertSet
           /\ now \in Nat
BY AlertAssumption DEF AInv, AlertsTypeOK

LEMMA LinkEnds ==
    \A l \in Links : l[1] \in Nodes /\ l[2] \in Nodes /\ Back(l) \in Links
                     /\ Back(l)[1] = l[2] /\ Back(l)[2] = l[1]
BY AlertAssumption DEF Back

\* What holds of the alerts that a node may have, in a form the provers take well.
LEMMA NamesOrder ==
    ASSUME NEW S \in SUBSET WellFormed, Orderly(S)
    PROVE  /\ \A a, b \in S : Names(a, b) /\ a # b => ~Names(b, a) /\ nExpiration[a] >= nExpiration[b]
           /\ \A a, b, c \in S : Names(a, b) /\ Names(b, c) => Names(a, c)
           /\ \A a \in S : nExpiration[a] \in Int /\ nRelayUntil[a] \in Int
BY AlertAssumption DEF Orderly, WellFormed

LEMMA OrderlyPart == ASSUME NEW S, Orderly(S), NEW T \in SUBSET S PROVE Orderly(T)
BY DEF Orderly

\* An alert outlives those that it names.
LEMMA Outlives ==
    ASSUME now \in Nat, NEW S \in SUBSET WellFormed, Orderly(S),
           NEW x \in S, NEW y \in S, y = x \/ Names(y, x), IsInEffect(x)
    PROVE  IsInEffect(y)
<1>1. nExpiration[x] \in Int /\ nExpiration[y] \in Int
  BY NamesOrder
<1>2. x = y \/ nExpiration[y] >= nExpiration[x]
  BY NamesOrder
<1> QED
  BY <1>1, <1>2 DEF IsInEffect

\* An alert that lasts is relayed while it is in effect.
LEMMA LastingRelays ==
    ASSUME now \in Nat, NEW x \in WellFormed, IsInEffect(x), Lasting(x)
    PROVE  Relays(x)
<1>1. nRelayUntil[x] \in Int /\ nExpiration[x] \in Int
  BY AlertAssumption DEF WellFormed
<1> QED
  BY <1>1 DEF Relays, Lasting, IsInEffect

\* What ProcessAlert makes of the map of a node.
AfterAlert(n, a) ==
    IF ~Acceptable(a) THEN mapAlerts[n] ELSE Left(n, a) \cup (IF ProcessAlert(n, a) THEN {a} ELSE {})

LEMMA AcceptableForm == ASSUME NEW a \in AlertSet, Acceptable(a) PROVE a \in WellFormed
BY DEF Acceptable, WellFormed

\* An alert that ProcessAlert takes or finds cancelled is covered afterwards.
LEMMA AlertCovered ==
    ASSUME NEW n \in Nodes, NEW a \in AlertSet, Acceptable(a), mapAlerts'[n] = AfterAlert(n, a)
    PROVE  \E y \in mapAlerts'[n] : (y = a \/ Names(y, a)) /\ y \in mapAlerts[n] \cup {a}
<1>1. CASE ProcessAlert(n, a)
  BY <1>1 DEF AfterAlert
<1>2. CASE ~ProcessAlert(n, a)
  <2>1. PICK b \in Left(n, a) : Cancels(b, a)
    BY <1>2 DEF ProcessAlert
  <2> QED
    BY <1>2, <2>1 DEF AfterAlert, Cancels, Left
<1> QED
  BY <1>1, <1>2

\* What was covered stays covered.
LEMMA CoverKept ==
    ASSUME now \in Nat, NEW S \in SUBSET WellFormed, Orderly(S),
           NEW n \in Nodes, NEW a \in AlertSet, mapAlerts[n] \subseteq S, Acceptable(a) => a \in S,
           mapAlerts'[n] = AfterAlert(n, a),
           NEW x \in S, IsInEffect(x), Covered(n, x)
    PROVE  Covered(n, x)'
<1> SUFFICES \E z \in mapAlerts'[n] : z = x \/ Names(z, x)
  BY DEF Covered, Names
<1>1. PICK y \in mapAlerts[n] : y = x \/ Names(y, x)
  BY DEF Covered
<1>2. y \in S /\ IsInEffect(y)
  BY <1>1, Outlives
<1>3. CASE ~Acceptable(a) \/ y \in Left(n, a)
  BY <1>1, <1>3 DEF AfterAlert
<1>4. CASE Acceptable(a) /\ y \notin Left(n, a)
  <2>1. Names(a, y) /\ a \in S
    BY <1>1, <1>2, <1>4 DEF Left, Cancels
  <2>2. Names(a, x)
    BY <1>1, <1>2, <2>1, NamesOrder
  <2>3. PICK z \in mapAlerts'[n] : (z = a \/ Names(z, a)) /\ z \in mapAlerts[n] \cup {a}
    BY <1>4, AlertCovered
  <2>4. z \in S
    BY <2>1, <2>3
  <2> QED
    BY <2>1, <2>2, <2>3, <2>4, NamesOrder
<1> QED
  BY <1>3, <1>4


\* A node that receives an alert.  The message it comes in may be gone, and its
\* sender may be known to have it: then the sender has covered it.
LEMMA ReceiveOK ==
    ASSUME AInv, NEW n \in Nodes, NEW a \in AlertSet, NEW known, NEW out, Receive(n, a, known, out),
           now' = now, UNCHANGED connVars,
           entered \subseteq entered', Acceptable(a) => a \in entered',
           \A l \in Links : known[l] \subseteq setKnown[l] \cup {a},
           \A l \in Links : a \in known[l] /\ a \notin setKnown[l]
                               => /\ l[1] = n /\ ProcessAlert(n, a)
                                  /\ Orderly(Used) => Covered(l[2], a),
           \A l \in Links : setKnown[l] \subseteq known[l] /\ out[l] \subseteq sent[l],
           \A l \in Links : \A x \in sent[l] \ out[l] : x = a /\ l[2] = n
    PROVE  /\ mapAlerts' \in [Nodes -> SUBSET AlertSet]
           /\ setKnown' \in [Links -> SUBSET AlertSet] /\ sent' \in [Links -> SUBSET AlertSet]
           /\ dropped' \in [Links -> SUBSET AlertSet]
           /\ FormsOK' /\ Clean' /\ Greeted' /\ (Orderly(Used') => Remembered' /\ Told')
<1> DEFINE ok == ProcessAlert(n, a)
           to == {l \in vNodes : l[1] = n /\ a \notin known[l]}
           Gets(l) == ok /\ l \in to /\ Relays(a)
<1>1. /\ mapAlerts \in [Nodes -> SUBSET AlertSet] /\ dropped \in [Links -> SUBSET AlertSet]
      /\ now \in Nat /\ hasVersion \subseteq vNodes /\ vNodes \subseteq Links
      /\ FormsOK /\ Clean /\ Greeted /\ (Orderly(Used) => Remembered /\ Told)
  BY Types DEF AInv
<1>2. /\ mapAlerts' = [mapAlerts EXCEPT ![n] = AfterAlert(n, a)]
      /\ setKnown' = [l \in Links |-> IF ok /\ l \in to THEN known[l] \cup {a} ELSE known[l]]
      /\ sent' = [l \in Links |-> IF Gets(l) /\ SaysVersion(l) THEN out[l] \cup {a} ELSE out[l]]
      /\ dropped' = [l \in Links |-> IF Gets(l) /\ ~SaysVersion(l) THEN dropped[l] \cup {a} ELSE dropped[l]]
  BY <1>1 DEF Receive, AfterAlert
<1>3. mapAlerts'[n] = AfterAlert(n, a) /\ \A m \in Nodes : m # n => mapAlerts'[m] = mapAlerts[m]
  BY <1>1, <1>2
<1>4. \A l \in Links : /\ setKnown'[l] = IF ok /\ l \in to THEN known[l] \cup {a} ELSE known[l]
                       /\ sent'[l] = IF Gets(l) /\ SaysVersion(l) THEN out[l] \cup {a} ELSE out[l]
                       /\ dropped'[l] = IF Gets(l) /\ ~SaysVersion(l) THEN dropped[l] \cup {a} ELSE dropped[l]
  BY <1>2
<1>5. Used \subseteq Used' /\ Used' \in SUBSET WellFormed /\ (Acceptable(a) => a \in Used')
  BY AcceptableForm DEF Used, WellFormed
<1>6. ok => a \in Used' /\ Acceptable(a) /\ IsInEffect(a) /\ a \in mapAlerts'[n]
  BY <1>3, <1>5 DEF ProcessAlert, Acceptable, AfterAlert
<1>7. \A x : IsInEffect(x)' <=> IsInEffect(x)
  BY DEF IsInEffect
<1>8. AfterAlert(n, a) \subseteq mapAlerts[n] \cup {a} /\ (a \in AfterAlert(n, a) \ mapAlerts[n] => ok)
  BY DEF AfterAlert, Left
<1> HIDE DEF ok, to, Gets
<1>9. ASSUME NEW l \in Links, NEW x \in setKnown'[l] \cup sent'[l], x \notin setKnown[l] \cup sent[l]
      PROVE  x = a /\ ok /\ l[1] = n
  <2>1. CASE ok /\ l \in to
    <3>1. x \in known[l] \cup out[l] \cup {a}
      BY <1>4, <1>9, <2>1
    <3> QED
      BY <1>9, <2>1, <3>1 DEF to
  <2>2. CASE ~(ok /\ l \in to)
    <3>1. x \in known[l] \cup out[l]
      BY <1>4, <1>9, <2>2 DEF Gets
    <3> QED
      BY <1>9, <3>1 DEF ok
  <2> QED
    BY <2>1, <2>2
<1>10. FormsOK'
  <2>1. \A m \in Nodes : mapAlerts'[m] \subseteq Used'
    BY <1>1, <1>3, <1>5, <1>6, <1>8 DEF FormsOK
  <2>2. \A l \in Links : setKnown'[l] \cup sent'[l] \subseteq Used'
    BY <1>1, <1>5, <1>6, <1>9 DEF FormsOK
  <2> QED
    BY <2>1, <2>2 DEF FormsOK, WellFormed
<1>11. /\ mapAlerts' \in [Nodes -> SUBSET AlertSet]
       /\ setKnown' \in [Links -> SUBSET AlertSet] /\ sent' \in [Links -> SUBSET AlertSet]
       /\ dropped' \in [Links -> SUBSET AlertSet]
  <2>1. Used' \subseteq AlertSet
    BY DEF Used, WellFormed
  <2>2. \A m \in Nodes : mapAlerts'[m] \subseteq AlertSet
    BY <1>10, <2>1 DEF FormsOK
  <2>3. \A l \in Links : setKnown'[l] \subseteq AlertSet /\ sent'[l] \subseteq AlertSet
    BY <1>10, <2>1 DEF FormsOK
  <2>4. ASSUME NEW l \in Links PROVE dropped'[l] \subseteq AlertSet
    <3>1. dropped'[l] = dropped[l] \cup {a} \/ dropped'[l] = dropped[l]
      BY <1>4
    <3>2. dropped[l] \subseteq AlertSet
      BY <1>1
    <3> QED
      BY <3>1, <3>2
  <2>5. mapAlerts' \in [Nodes -> SUBSET AlertSet]
    BY <1>1, <1>2, <2>2
  <2>6. setKnown' \in [Links -> SUBSET AlertSet]
    BY <1>2, <2>3
  <2>7. sent' \in [Links -> SUBSET AlertSet]
    BY <1>2, <2>3
  <2>8. dropped' \in [Links -> SUBSET AlertSet]
    BY <1>2, <2>4
  <2> QED
    BY <2>5, <2>6, <2>7, <2>8
<1>12. Clean'
  <2> SUFFICES ASSUME NEW m \in Nodes, NEW x \in mapAlerts'[m], NEW y \in mapAlerts'[m], x # y
               PROVE  ~Names(x, y)
    BY DEF Clean, Names
  <2>1. CASE x \in mapAlerts[m] /\ y \in mapAlerts[m]
    BY <1>1, <2>1 DEF Clean
  <2>2. CASE ~(x \in mapAlerts[m] /\ y \in mapAlerts[m])
    <3>1. m = n /\ ok /\ Acceptable(a)
      BY <1>3, <1>6, <1>8, <2>2
    <3>2. IsInEffect(a) /\ mapAlerts'[n] = Left(n, a) \cup {a}
      BY <1>3, <1>6, <3>1 DEF AfterAlert, ok
    <3>3. \A b \in Left(n, a) : ~Names(a, b) /\ ~Names(b, a)
      BY <3>1, <3>2 DEF Left, Cancels, ProcessAlert, ok
    <3> QED
      BY <2>2, <3>1, <3>2, <3>3 DEF Left
  <2> QED
    BY <2>1, <2>2
<1>13. Greeted'
  <2> SUFFICES ASSUME NEW l \in hasVersion, NEW x \in mapAlerts'[l[1]], IsInEffect(x)
               PROVE  x \in setKnown'[l]
    BY <1>7 DEF Greeted, connVars
  <2>1. l \in Links /\ l \in vNodes /\ l[1] \in Nodes
    BY <1>1, LinkEnds
  <2>2. setKnown[l] \subseteq setKnown'[l]
    BY <1>4, <2>1
  <2>3. CASE x \in mapAlerts[l[1]]
    BY <1>1, <2>2, <2>3 DEF Greeted
  <2>4. CASE x \notin mapAlerts[l[1]]
    <3>1. l[1] = n /\ x = a /\ ok
      BY <1>3, <1>8, <2>1, <2>4
    <3> QED
      BY <1>4, <2>1, <3>1 DEF to
  <2> QED
    BY <2>3, <2>4
<1>14. ASSUME Orderly(Used') PROVE Remembered' /\ Told'
  <2>1. Orderly(Used) /\ Remembered /\ Told
    BY <1>1, <1>5, <1>14, OrderlyPart
  <2>2. ASSUME NEW m \in Nodes, NEW x \in Used', IsInEffect(x), Covered(m, x) PROVE Covered(m, x)'
    <3> DEFINE S == Used'
    <3>1. S \in SUBSET WellFormed /\ Orderly(S) /\ mapAlerts[n] \subseteq S /\ (Acceptable(a) => a \in S) /\ x \in S
      BY <1>1, <1>5, <1>14, <2>2 DEF FormsOK
    <3> HIDE DEF S
    <3>2. CASE m = n
      BY <1>1, <1>3, <2>2, <3>1, <3>2, CoverKept
    <3>3. CASE m # n
      BY <1>3, <2>2, <3>3 DEF Covered, Names
    <3> QED
      BY <3>2, <3>3
  <2>3. ok => Covered(n, a)'
    BY <1>6 DEF Covered, Names
  <2>4. Remembered'
    <3> SUFFICES ASSUME NEW l \in Links, NEW x \in setKnown'[l] \cup sent'[l], IsInEffect(x)
                 PROVE  Covered(l[1], x)'
      BY <1>7 DEF Remembered, Covered
    <3>1. x \in Used' /\ l[1] \in Nodes
      BY <1>10, LinkEnds DEF FormsOK
    <3>2. CASE x \in setKnown[l] \cup sent[l]
      BY <2>1, <2>2, <3>1, <3>2 DEF Remembered
    <3>3. CASE x \notin setKnown[l] \cup sent[l]
      <4>1. x = a /\ ok /\ l[1] = n
        BY <1>9, <3>3
      <4> QED
        BY <2>3, <4>1
    <3> QED
      BY <3>2, <3>3
  <2>5. Told'
    <3> SUFFICES ASSUME NEW l \in Links, NEW x \in setKnown'[l], IsInEffect(x), Lasting(x)
                 PROVE  x \in sent'[l] \/ x \in dropped'[l] \/ Covered(l[2], x)'
      BY <1>7 DEF Told, Covered, Lasting
    <3>0. x \in Used' /\ x \in WellFormed /\ l[2] \in Nodes
      BY <1>5, <1>10, LinkEnds DEF FormsOK
    <3>1. CASE x \in setKnown[l]
      <4>1. x \in sent[l] \/ x \in dropped[l] \/ Covered(l[2], x)
        BY <2>1, <3>1 DEF Told
      <4>2. CASE Covered(l[2], x)
        BY <2>2, <3>0, <4>2
      <4>3. CASE x \in sent[l] /\ x \in out[l]
        BY <1>4, <4>3
      <4>4. CASE x \in dropped[l]
        BY <1>4, <4>4
      <4>5. CASE x \in sent[l] /\ x \notin out[l]
        <5>1. x = a /\ l[2] = n
          BY <4>5
        <5>2. Acceptable(a)
          BY <3>0, <5>1 DEF Acceptable, WellFormed
        <5> QED
          BY <1>3, <5>1, <5>2, AlertCovered DEF Covered, Names
      <4> QED
        BY <4>1, <4>2, <4>3, <4>4, <4>5
    <3>2. CASE x \notin setKnown[l]
      <4>1. CASE x \in known[l]
        <5>1. x = a /\ ok /\ Covered(l[2], a)
          BY <2>1, <3>2, <4>1 DEF ok
        <5> QED
          BY <2>2, <3>0, <5>1
      <4>2. CASE x \notin known[l]
        <5>1. x = a /\ ok /\ l \in to
          <6>1. \/ setKnown'[l] = known[l] \cup {a} /\ ok /\ l \in to
                \/ setKnown'[l] = known[l]
            BY <1>4
          <6> QED
            BY <4>2, <6>1
        <5>2. Relays(a)
          BY <1>1, <3>0, <5>1, LastingRelays
        <5>3. Gets(l)
          BY <5>1, <5>2 DEF Gets
        <5>4. CASE SaysVersion(l)
          BY <1>4, <5>1, <5>3, <5>4
        <5>5. CASE ~SaysVersion(l)
          BY <1>4, <5>1, <5>3, <5>5
        <5> QED
          BY <5>4, <5>5
      <4> QED
        BY <4>1, <4>2
    <3> QED
      BY <3>1, <3>2
  <2> QED
    BY <2>4, <2>5
<1> QED
  BY <1>10, <1>11, <1>12, <1>13, <1>14


LEMMA AInit == AlertsInit => AInv
<1> SUFFICES ASSUME AlertsInit PROVE AInv
  OBVIOUS
<1>1. AlertsTypeOK
  BY AlertAssumption DEF AlertsInit, AlertsTypeOK
<1>2. FormsOK /\ Clean /\ Greeted /\ Remembered /\ Told
  BY DEF AlertsInit, FormsOK, Clean, Greeted, Remembered, Told
<1> QED
  BY <1>1, <1>2 DEF AInv

LEMMA EnterStep == AInv /\ Enter => AInv'
<1> SUFFICES ASSUME AInv, Enter PROVE AInv'
  OBVIOUS
<1>1. PICK n \in Nodes, a \in AlertSet \ entered :
         /\ Receive(n, a, setKnown, sent)
         /\ entered' = IF Acceptable(a) THEN entered \cup {a} ELSE entered
         /\ UNCHANGED <<connVars, now, losses>>
  BY DEF Enter
<1>2. entered \subseteq entered' /\ (Acceptable(a) => a \in entered') /\ entered' \subseteq AlertSet
  BY <1>1, Types
<1>3. /\ mapAlerts' \in [Nodes -> SUBSET AlertSet]
      /\ setKnown' \in [Links -> SUBSET AlertSet] /\ sent' \in [Links -> SUBSET AlertSet]
      /\ dropped' \in [Links -> SUBSET AlertSet]
      /\ FormsOK' /\ Clean' /\ Greeted' /\ (Orderly(Used') => Remembered' /\ Told')
  BY <1>1, <1>2, ReceiveOK
<1>4. AlertsTypeOK'
  BY <1>1, <1>2, <1>3, Types DEF AlertsTypeOK, connVars
<1> QED
  BY <1>3, <1>4 DEF AInv, Orderly

LEMMA MessageStep == AInv /\ AlertMessage => AInv'
<1> SUFFICES ASSUME AInv, AlertMessage PROVE AInv'
  OBVIOUS
<1>1. PICK l \in Links, a \in AlertSet :
         /\ a \in sent[l]
         /\ Back(l) \in hasVersion
         /\ \/ /\ a \in setKnown[Back(l)]
               /\ sent' = [sent EXCEPT ![l] = @ \ {a}] /\ UNCHANGED <<mapAlerts, setKnown, dropped>>
            \/ /\ a \notin setKnown[Back(l)]
               /\ Receive(l[2], a,
                          [setKnown EXCEPT ![Back(l)] = IF ProcessAlert(l[2], a) THEN @ \cup {a} ELSE @],
                          [sent EXCEPT ![l] = @ \ {a}])
         /\ UNCHANGED <<connVars, now, losses, entered>>
  BY Types DEF AlertMessage
<1> DEFINE back == Back(l)
           out == [sent EXCEPT ![l] = @ \ {a}]
           known == [setKnown EXCEPT ![back] = IF ProcessAlert(l[2], a) THEN @ \cup {a} ELSE @]
<1>2. /\ setKnown \in [Links -> SUBSET AlertSet] /\ sent \in [Links -> SUBSET AlertSet]
      /\ FormsOK /\ Clean /\ Greeted /\ (Orderly(Used) => Remembered /\ Told)
  BY Types DEF AInv
<1>3. back \in Links /\ back[1] = l[2] /\ back[2] = l[1] /\ l[1] \in Nodes /\ l[2] \in Nodes
  BY LinkEnds
<1>4. a \in AlertSet /\ a \in entered
  BY <1>1, <1>2 DEF FormsOK, Used, WellFormed
<1>5. /\ out[l] = sent[l] \ {a} /\ \A k \in Links : k # l => out[k] = sent[k]
      /\ out \in [Links -> SUBSET AlertSet]
  BY <1>2
<1>6. \A k \in Links : k # back => known[k] = setKnown[k]
  BY <1>2
<1>7. known[back] = IF ProcessAlert(l[2], a) THEN setKnown[back] \cup {a} ELSE setKnown[back]
  BY <1>2, <1>3
<1>8. UNCHANGED <<now, losses, entered, connVars>>
  BY <1>1
<1> DEFINE Good == /\ mapAlerts' \in [Nodes -> SUBSET AlertSet]
                   /\ setKnown' \in [Links -> SUBSET AlertSet] /\ sent' \in [Links -> SUBSET AlertSet]
                   /\ dropped' \in [Links -> SUBSET AlertSet]
                   /\ FormsOK' /\ Clean' /\ Greeted' /\ (Orderly(Used') => Remembered' /\ Told')
<1>9. ASSUME a \in setKnown[back], sent' = out, UNCHANGED <<mapAlerts, setKnown, dropped>> PROVE Good
  <2> HIDE DEF out, known, back
  <2>1. Orderly(Used) /\ IsInEffect(a) => Covered(l[2], a)
    BY <1>2, <1>3, <1>9 DEF Remembered
  <2>2. \A k \in Links : sent'[k] \subseteq sent[k] /\ (k # l => sent'[k] = sent[k]) /\ sent[l] \subseteq sent'[l] \cup {a}
    BY <1>5, <1>9
  <2>3. \A x : IsInEffect(x)' <=> IsInEffect(x)
    BY <1>8 DEF IsInEffect
  <2>4. FormsOK' /\ Clean'
    BY <1>2, <1>8, <1>9, <2>2 DEF FormsOK, Clean, Used, WellFormed, Names
  <2>5. Greeted'
    BY <1>2, <1>8, <1>9, <2>3 DEF Greeted, connVars
  <2>6. ASSUME Orderly(Used') PROVE Remembered' /\ Told'
    <3>1. Orderly(Used)
      BY <1>8, <2>6 DEF Used, WellFormed
    <3>2. Remembered'
      BY <1>2, <1>9, <2>2, <2>3, <3>1 DEF Remembered, Covered, Names
    <3>3. Told'
      <4> SUFFICES ASSUME NEW k \in Links, NEW x \in setKnown[k], IsInEffect(x), Lasting(x)
                   PROVE  x \in sent'[k] \/ x \in dropped[k] \/ Covered(k[2], x)
        BY <1>9, <2>3 DEF Told, Covered, Lasting, Names
      <4>1. x \in sent[k] \/ x \in dropped[k] \/ Covered(k[2], x)
        BY <1>2, <3>1 DEF Told
      <4> QED
        BY <2>1, <2>2, <3>1, <4>1
    <3> QED
      BY <3>2, <3>3
  <2> QED
    BY <1>5, <1>9, <2>4, <2>5, <2>6, Types
<1>10. ASSUME a \notin setKnown[back], Receive(l[2], a, known, out) PROVE Good
  <2> HIDE DEF out, known, back
  <2>1. \A k \in Links : setKnown[k] \subseteq known[k] /\ known[k] \subseteq setKnown[k] \cup {a}
    BY <1>6, <1>7
  <2>2. \A k \in Links : out[k] \subseteq sent[k] /\ \A x \in sent[k] \ out[k] : x = a /\ k[2] = l[2]
    BY <1>5
  <2>3. ASSUME NEW k \in Links, a \in known[k], a \notin setKnown[k]
        PROVE  k[1] = l[2] /\ ProcessAlert(l[2], a) /\ (Orderly(Used) => Covered(k[2], a))
    <3>1. k = back /\ ProcessAlert(l[2], a)
      BY <1>6, <1>7, <2>3
    <3>2. IsInEffect(a)
      BY <3>1 DEF ProcessAlert, Acceptable
    <3>3. Orderly(Used) => Covered(l[1], a)
      BY <1>1, <1>2, <3>2 DEF Remembered
    <3> QED
      BY <1>3, <3>1, <3>3
  <2>4. now' = now /\ entered' = entered /\ UNCHANGED connVars
    BY <1>8
  <2> QED
    BY <1>3, <1>4, <1>10, <2>1, <2>2, <2>3, <2>4, ReceiveOK
<1>11. Good
  BY <1>1, <1>9, <1>10
<1>12. AlertsTypeOK'
  BY <1>8, <1>11, Types DEF AlertsTypeOK, connVars
<1> QED
  BY <1>11, <1>12 DEF AInv, Orderly

\* The connection is made: nothing has been passed on over it.
LEMMA ConnectStep == AInv /\ (Connect \/ Accept) => AInv'
<1> SUFFICES ASSUME AInv, Connect \/ Accept PROVE AInv'
  OBVIOUS
<1>1. /\ UNCHANGED <<mapAlerts, hasVersion, setKnown, sent, dropped, now, losses, entered>>
      /\ vNodes \subseteq vNodes' /\ vNodes' \subseteq Links /\ fInbound' \subseteq vNodes'
  BY Types, AlertAssumption DEF Connect, Accept
<1>2. AlertsTypeOK'
  BY <1>1, Types DEF AlertsTypeOK
<1>3. FormsOK' /\ Clean' /\ Greeted' /\ (Orderly(Used) => Remembered' /\ Told')
  BY <1>1 DEF AInv, FormsOK, Clean, Greeted, Remembered, Told, Used, WellFormed, Names, Covered, IsInEffect, Lasting
<1> QED
  BY <1>1, <1>2, <1>3 DEF AInv, Orderly, Used, WellFormed, Names, Lasting

\* What the peer is not known to have is sent with the answer to its version.
LEMMA VersionStep == AInv /\ VersionMessage => AInv'
<1> SUFFICES ASSUME AInv, VersionMessage PROVE AInv'
  OBVIOUS
<1>1. PICK l \in vNodes \ hasVersion :
         /\ hasVersion' = hasVersion \cup {l}
         /\ setKnown' = [setKnown EXCEPT ![l] = @ \cup {a \in mapAlerts[l[1]] : IsInEffect(a)}]
         /\ sent' = [sent EXCEPT ![l] = @ \cup {a \in mapAlerts[l[1]] \ setKnown[l] : Relays(a)}]
  BY DEF VersionMessage
<1>2. UNCHANGED <<mapAlerts, vNodes, fInbound, dropped, now, losses, entered>>
  BY DEF VersionMessage
<1>3. /\ mapAlerts \in [Nodes -> SUBSET AlertSet]
      /\ setKnown \in [Links -> SUBSET AlertSet] /\ sent \in [Links -> SUBSET AlertSet]
      /\ now \in Nat /\ l \in Links /\ l[1] \in Nodes
      /\ FormsOK /\ Clean /\ Greeted /\ (Orderly(Used) => Remembered /\ Told)
  BY Types, LinkEnds DEF AInv
<1>4. /\ setKnown'[l] = setKnown[l] \cup {a \in mapAlerts[l[1]] : IsInEffect(a)}
      /\ sent'[l] = sent[l] \cup {a \in mapAlerts[l[1]] \ setKnown[l] : Relays(a)}
      /\ \A k \in Links : k # l => setKnown'[k] = setKnown[k] /\ sent'[k] = sent[k]
  BY <1>1, <1>3
<1>5. \A x : IsInEffect(x)' <=> IsInEffect(x)
  BY <1>2 DEF IsInEffect
<1>6. \A k \in Links : \A x \in setKnown'[k] \cup sent'[k] :
         x \in setKnown[k] \cup sent[k] \/ (k = l /\ x \in mapAlerts[l[1]])
  BY <1>4
<1>7. Used' = Used
  BY <1>2 DEF Used, WellFormed
<1>8. FormsOK' /\ Clean'
  BY <1>2, <1>3, <1>6, <1>7 DEF FormsOK, Clean, Names
<1>9. Greeted'
  <2> SUFFICES ASSUME NEW k \in hasVersion \cup {l}, NEW x \in mapAlerts[k[1]], IsInEffect(x)
               PROVE  x \in setKnown'[k]
    BY <1>1, <1>2, <1>5 DEF Greeted
  <2>1. CASE k = l
    BY <1>4, <2>1
  <2>2. CASE k # l
    BY <1>3, <1>4, <2>2, Types DEF Greeted
  <2> QED
    BY <2>1, <2>2
<1>10. ASSUME Orderly(Used) PROVE Remembered' /\ Told'
  <2>1. Remembered'
    <3> SUFFICES ASSUME NEW k \in Links, NEW x \in setKnown'[k] \cup sent'[k], IsInEffect(x)
                 PROVE  Covered(k[1], x)
      BY <1>2, <1>5 DEF Remembered, Covered, Names
    <3> QED
      BY <1>3, <1>6, <1>10 DEF Remembered, Covered
  <2>2. Told'
    <3> SUFFICES ASSUME NEW k \in Links, NEW x \in setKnown'[k], IsInEffect(x), Lasting(x)
                 PROVE  x \in sent'[k] \/ x \in dropped[k] \/ Covered(k[2], x)
      BY <1>2, <1>5 DEF Told, Covered, Lasting, Names
    <3>1. CASE x \in setKnown[k]
      <4>1. sent[k] \subseteq sent'[k]
        BY <1>4
      <4> QED
        BY <1>3, <1>10, <3>1, <4>1 DEF Told
    <3>2. CASE x \notin setKnown[k]
      <4>1. k = l /\ x \in mapAlerts[l[1]]
        BY <1>4, <3>2
      <4>2. x \in WellFormed
        BY <1>3, <4>1 DEF FormsOK, Used
      <4>3. Relays(x)
        BY <1>3, <4>2, LastingRelays
      <4> QED
        BY <1>4, <3>2, <4>1, <4>3
    <3> QED
      BY <3>1, <3>2
  <2> QED
    BY <2>1, <2>2
<1>11. AlertsTypeOK'
  <2>1. Used \subseteq AlertSet
    BY DEF Used, WellFormed
  <2>2. \A k \in Links : setKnown'[k] \subseteq AlertSet /\ sent'[k] \subseteq AlertSet
    BY <1>7, <1>8, <2>1 DEF FormsOK
  <2>3. setKnown' \in [Links -> SUBSET AlertSet]
    BY <1>1, <1>3, <2>2
  <2>4. sent' \in [Links -> SUBSET AlertSet]
    BY <1>1, <1>3, <2>2
  <2> QED
    BY <1>1, <1>2, <2>3, <2>4, Types DEF AlertsTypeOK
<1> QED
  BY <1>7, <1>8, <1>9, <1>10, <1>11 DEF AInv

\* Connections end, after the maps of some nodes are lost: every link of such a node
\* is among them.
LEMMA CloseStep ==
    ASSUME AInv, NEW lost \in SUBSET Links, Closed(lost),
           \A m \in Nodes : mapAlerts'[m] = mapAlerts[m] \/ mapAlerts'[m] = {},
           \A l \in Links \ lost : mapAlerts'[l[1]] = mapAlerts[l[1]] /\ mapAlerts'[l[2]] = mapAlerts[l[2]],
           mapAlerts' \in [Nodes -> SUBSET AlertSet]
    PROVE  AInv'
<1>1. /\ losses' \in 0 .. MaxLosses /\ now' = now /\ entered' = entered
      /\ vNodes' = vNodes \ lost /\ fInbound' = fInbound \ lost /\ hasVersion' = hasVersion \ lost
  BY Types, AlertAssumption DEF Closed
<1>2. /\ setKnown' = [l \in Links |-> IF l \in lost THEN {} ELSE setKnown[l]]
      /\ sent' = [l \in Links |-> IF l \in lost THEN {} ELSE sent[l]]
      /\ dropped' = [l \in Links |-> IF l \in lost THEN {} ELSE dropped[l]]
  BY DEF Closed
<1>3. /\ FormsOK /\ Clean /\ Greeted /\ (Orderly(Used) => Remembered /\ Told)
      /\ hasVersion \subseteq Links
  BY Types DEF AInv
<1>4. \A l \in lost : setKnown'[l] = {} /\ sent'[l] = {}
  BY <1>2
<1>5. \A l \in Links \ lost : setKnown'[l] = setKnown[l] /\ sent'[l] = sent[l] /\ dropped'[l] = dropped[l]
  BY <1>2
<1>6. \A x : IsInEffect(x)' <=> IsInEffect(x)
  BY <1>1 DEF IsInEffect
<1>7. Used' = Used
  BY <1>1 DEF Used, WellFormed
<1>8. \A m \in Nodes : mapAlerts'[m] \subseteq mapAlerts[m]
  OBVIOUS
<1>9. FormsOK'
  BY <1>3, <1>4, <1>5, <1>7, <1>8 DEF FormsOK
<1>10. Clean'
  BY <1>3, <1>8 DEF Clean, Names
<1>11. Greeted'
  BY <1>1, <1>3, <1>5, <1>6 DEF Greeted
<1>12. ASSUME Orderly(Used) PROVE Remembered' /\ Told'
  <2>1. Remembered'
    <3> SUFFICES ASSUME NEW l \in Links \ lost, NEW x \in setKnown[l] \cup sent[l], IsInEffect(x)
                 PROVE  Covered(l[1], x)
      BY <1>4, <1>5, <1>6 DEF Remembered, Covered, Names
    <3> QED
      BY <1>3, <1>12 DEF Remembered
  <2>2. Told'
    <3> SUFFICES ASSUME NEW l \in Links \ lost, NEW x \in setKnown[l], IsInEffect(x), Lasting(x)
                 PROVE  x \in sent[l] \/ x \in dropped[l] \/ Covered(l[2], x)
      BY <1>4, <1>5, <1>6 DEF Told, Covered, Lasting, Names
    <3> QED
      BY <1>3, <1>12 DEF Told
  <2> QED
    BY <2>1, <2>2
<1>13. AlertsTypeOK'
  <2>1. setKnown' \in [Links -> SUBSET AlertSet]
    BY <1>2, Types
  <2>2. sent' \in [Links -> SUBSET AlertSet]
    BY <1>2, Types
  <2>3. dropped' \in [Links -> SUBSET AlertSet]
    BY <1>2, Types
  <2> QED
    BY <1>1, <2>1, <2>2, <2>3, Types DEF AlertsTypeOK
<1> QED
  BY <1>7, <1>9, <1>10, <1>11, <1>12, <1>13 DEF AInv


LEMMA LoseStep == AInv /\ (Lose \/ RestartNode) => AInv'
<1> SUFFICES ASSUME AInv, Lose \/ RestartNode PROVE AInv'
  OBVIOUS
<1>1. mapAlerts \in [Nodes -> SUBSET AlertSet] /\ vNodes \subseteq Links
  BY Types
<1>2. CASE Lose
  <2>1. PICK l \in Links : Closed({l, Back(l)}) /\ mapAlerts' = mapAlerts
    BY <1>1, <1>2 DEF Lose
  <2>2. {l, Back(l)} \in SUBSET Links
    BY LinkEnds
  <2> QED
    BY <1>1, <2>1, <2>2, CloseStep
<1>3. CASE RestartNode
  <2>1. PICK n \in Nodes : /\ Closed({l \in Links : n \in {l[1], l[2]}})
                           /\ mapAlerts' = [mapAlerts EXCEPT ![n] = {}]
    BY <1>3 DEF RestartNode
  <2> DEFINE lost == {l \in Links : n \in {l[1], l[2]}}
  <2>2. /\ mapAlerts' \in [Nodes -> SUBSET AlertSet] /\ mapAlerts'[n] = {}
        /\ \A m \in Nodes : m # n => mapAlerts'[m] = mapAlerts[m]
    BY <1>1, <2>1
  <2>3. lost \in SUBSET Links /\ Closed(lost) /\ \A l \in Links \ lost : l[1] # n /\ l[2] # n
    BY <2>1
  <2> HIDE DEF lost
  <2>4. \A l \in Links \ lost : mapAlerts'[l[1]] = mapAlerts[l[1]] /\ mapAlerts'[l[2]] = mapAlerts[l[2]]
    BY <2>2, <2>3, LinkEnds
  <2>5. \A m \in Nodes : mapAlerts'[m] = mapAlerts[m] \/ mapAlerts'[m] = {}
    BY <2>2
  <2> QED
    BY <2>2, <2>3, <2>4, <2>5, CloseStep
<1> QED
  BY <1>2, <1>3

\* Time passes: fewer alerts are in effect.
LEMMA TickStep == AInv /\ (Tick \/ UNCHANGED alertVars) => AInv'
<1> SUFFICES ASSUME AInv, Tick \/ UNCHANGED alertVars PROVE AInv'
  OBVIOUS
<1>1. /\ UNCHANGED <<mapAlerts, vNodes, fInbound, hasVersion, setKnown, sent, dropped, losses, entered>>
      /\ now' \in 0 .. MaxTime /\ now' >= now
  BY Types, AlertAssumption DEF Tick, alertVars, connVars
<1>2. \A x \in WellFormed : IsInEffect(x)' => IsInEffect(x)
  <2>1. \A x \in WellFormed : nExpiration[x] \in Int
    BY AlertAssumption DEF WellFormed
  <2> QED
    BY <1>1, <2>1, Types, AlertAssumption DEF IsInEffect
<1>3. AlertsTypeOK' /\ FormsOK' /\ Clean' /\ Used' = Used
  BY <1>1 DEF AInv, AlertsTypeOK, FormsOK, Clean, Used, WellFormed, Names
<1>4. Used \subseteq WellFormed /\ FormsOK /\ Greeted /\ hasVersion \subseteq Links
  BY Types DEF AInv, Used
<1>5. Greeted'
  <2> SUFFICES ASSUME NEW l \in hasVersion, NEW x \in mapAlerts[l[1]], IsInEffect(x)'
               PROVE  x \in setKnown[l]
    BY <1>1 DEF Greeted
  <2>1. x \in WellFormed
    BY <1>4, LinkEnds DEF FormsOK
  <2> QED
    BY <1>2, <1>4, <2>1 DEF Greeted
<1>6. ASSUME Orderly(Used) PROVE Remembered' /\ Told'
  <2>1. Remembered /\ Told
    BY <1>6 DEF AInv
  <2>2. Remembered'
    <3> SUFFICES ASSUME NEW l \in Links, NEW x \in setKnown[l] \cup sent[l], IsInEffect(x)'
                 PROVE  Covered(l[1], x)
      BY <1>1 DEF Remembered, Covered, Names
    <3> QED
      BY <1>2, <1>4, <2>1 DEF Remembered, FormsOK
  <2>3. Told'
    <3> SUFFICES ASSUME NEW l \in Links, NEW x \in setKnown[l], IsInEffect(x)', Lasting(x)
                 PROVE  x \in sent[l] \/ x \in dropped[l] \/ Covered(l[2], x)
      BY <1>1 DEF Told, Covered, Lasting, Names
    <3> QED
      BY <1>2, <1>4, <2>1 DEF Told, FormsOK
  <2> QED
    BY <2>2, <2>3
<1> QED
  BY <1>3, <1>5, <1>6 DEF AInv

LEMMA AStep == AInv /\ [AlertsNext]_alertVars => AInv'
BY EnterStep, MessageStep, ConnectStep, VersionStep, LoseStep, TickStep DEF AlertsNext

\* Nodes that have met, with nothing on the way between them: what the other does not
\* have, it has cancelled, and has said so, unless one of them spoke too early.
LEMMA Agreed == AInv /\ Orderly(Used) => NodesAgree
<1> SUFFICES ASSUME AInv, Orderly(Used),
                    NEW l \in hasVersion, Back(l) \in hasVersion, sent[l] \cup sent[Back(l)] = {},
                    NEW a \in (mapAlerts[l[1]] \ mapAlerts[l[2]]) \cap Applying, IsInEffect(a),
                    a \notin dropped[l]
             PROVE  \E b \in dropped[Back(l)] \cap mapAlerts[l[2]] : Names(b, a)
  BY DEF NodesAgree
<1>1. /\ FormsOK /\ Clean /\ Greeted /\ Told /\ now \in Nat
      /\ l \in Links /\ l[1] \in Nodes /\ l[2] \in Nodes
      /\ Back(l) \in Links /\ Back(l)[1] = l[2] /\ Back(l)[2] = l[1]
  BY Types, LinkEnds DEF AInv
<1> DEFINE S == Used
<1>2. /\ S \in SUBSET WellFormed /\ Orderly(S) /\ a \in S
      /\ mapAlerts[l[1]] \subseteq S /\ mapAlerts[l[2]] \subseteq S
  BY <1>1 DEF FormsOK, Used
<1>3. S \subseteq entered \cap WellFormed
  BY DEF Used
<1> HIDE DEF S
<1>4. a \in setKnown[l] /\ Lasting(a)
  BY <1>1 DEF Greeted, Lasting
<1>5. Covered(l[2], a)
  BY <1>1, <1>4 DEF Told
<1>6. PICK c \in mapAlerts[l[2]] : Names(c, a) /\ c # a
  BY <1>5 DEF Covered
<1>7. c \in S /\ IsInEffect(c)
  BY <1>1, <1>2, <1>6, Outlives
<1>8. Lasting(c)
  BY <1>2, <1>6, <1>7 DEF Orderly
<1>9. c \in setKnown[Back(l)]
  BY <1>1, <1>6, <1>7 DEF Greeted
<1>10. c \in dropped[Back(l)] \/ Covered(l[1], c)
  BY <1>1, <1>7, <1>8, <1>9 DEF Told
<1>11. ~Covered(l[1], c)
  <2> SUFFICES ASSUME NEW d \in mapAlerts[l[1]], d = c \/ Names(d, c) PROVE FALSE
    BY DEF Covered
  <2>1. d \in S /\ Names(d, a)
    BY <1>2, <1>6, <1>7, NamesOrder
  <2>2. d # a
    BY <1>2, <1>6, <1>7, NamesOrder
  <2> QED
    BY <1>1, <2>1, <2>2 DEF Clean
<1> QED
  BY <1>6, <1>10, <1>11

\* On every network, in whatever order alerts and their cancellations arrive and
\* whatever connections are lost: nodes that have met and have nothing on the way
\* have the same alerts in effect, but for what was relayed before the version
\* (ProcessAlert, RelayTo, setKnown).
THEOREM AlertsAgree == AlertsSpec => []AlertsOK
<1>1. AInv => AlertsOK
  BY Agreed DEF AInv, AlertsOK, Used
<1> QED
  BY AInit, AStep, <1>1, PTL DEF AlertsSpec

\* A final alert names every other that ProcessAlert may take.
LEMMA FinalNames ==
    ASSUME NEW f \in Finals, NEW a \in WellFormed \ Finals
    PROVE  f \in WellFormed /\ Names(f, a)
<1>1. nID[a] \in Int /\ nID[a] <= MaxID /\ nID[a] # MaxID /\ nCancel[f] = MaxID - 1 /\ MaxID \in Int
  BY AlertAssumption DEF WellFormed, Finals
<1>2. nID[a] <= nCancel[f]
  BY <1>1
<1> QED
  BY <1>2 DEF WellFormed, Finals, Names

\* A node with a final alert has no other.
FinalAlone == \A n \in Nodes : mapAlerts[n] \cap Finals # {} => mapAlerts[n] \subseteq Finals

LEMMA FinalAloneInv == AInv => FinalAlone
<1> SUFFICES ASSUME AInv, NEW n \in Nodes, NEW f \in mapAlerts[n] \cap Finals,
                    NEW a \in mapAlerts[n], a \notin Finals
             PROVE  FALSE
  BY DEF FinalAlone
<1>1. a \in WellFormed \ Finals
  BY DEF AInv, FormsOK, Used
<1>2. Names(f, a)
  BY <1>1, FinalNames
<1> QED
  BY <1>2 DEF AInv, Clean

\* A final alert is cancelled only by one that names its number, and that one is
\* taken: there was none but final alerts in the map, and it has cancelled them all.
LEMMA FinalReceive ==
    ASSUME AInv, NEW n \in Nodes, NEW a \in AlertSet, NEW f \in mapAlerts[n] \cap Finals
    PROVE  AfterAlert(n, a) \cap Finals # {} \/ \E b \in AfterAlert(n, a) : Overrides(b)
<1>1. CASE ~Acceptable(a)
  BY <1>1 DEF AfterAlert
<1>2. CASE Acceptable(a) /\ f \in Left(n, a)
  BY <1>2 DEF AfterAlert
<1>3. CASE Acceptable(a) /\ f \notin Left(n, a)
  <2>1. IsInEffect(f)
    <3>1. nExpiration[f] > MaxTime /\ nExpiration[f] \in Int /\ MaxTime \in Nat
      BY AlertAssumption DEF Finals
    <3>2. now \in 0 .. MaxTime
      BY Types
    <3> QED
      BY <3>1, <3>2 DEF IsInEffect
  <2>2. IsInEffect(a) /\ Names(a, f)
    BY <1>3, <2>1 DEF Left, Cancels
  <2>3. Overrides(a)
    BY <2>2 DEF Overrides, Names, Finals
  <2>4. \A b \in mapAlerts[n] : Cancels(a, b)
    <3>1. mapAlerts[n] \subseteq Finals
      BY FinalAloneInv DEF FinalAlone
    <3> QED
      BY <2>2, <3>1 DEF Cancels, Names, Finals
  <2>5. Left(n, a) = {}
    BY <2>4 DEF Left
  <2>6. a \in AfterAlert(n, a)
    BY <1>3, <2>5 DEF AfterAlert, ProcessAlert
  <2> QED
    BY <2>3, <2>6
<1> QED
  BY <1>1, <1>2, <1>3

\* Whatever the holder of a stolen key sends: a node that has the final alert has no
\* other, and keeps it until it is started again or takes an alert that names the
\* highest ID (ProcessAlert).
THEOREM FinalStays == AlertsSpec => FinalPrevails
<1> DEFINE Kept(n) == \/ mapAlerts'[n] \cap Finals # {}
                      \/ \E a \in mapAlerts'[n] : Overrides(a)
                      \/ losses' # losses /\ mapAlerts'[n] = {}
<1>1. ASSUME AInv, [AlertsNext]_alertVars, NEW n \in Nodes, NEW f \in mapAlerts[n] \cap Finals
      PROVE  Kept(n)
  <2>1. /\ mapAlerts \in [Nodes -> SUBSET AlertSet] /\ sent \in [Links -> SUBSET AlertSet]
        /\ losses \in Int
    BY <1>1, Types
  <2>2. CASE mapAlerts'[n] = mapAlerts[n]
    BY <1>1, <2>2
  <2>3. CASE \E a \in AlertSet : mapAlerts' = [mapAlerts EXCEPT ![n] = AfterAlert(n, a)]
    <3>1. PICK a \in AlertSet : mapAlerts'[n] = AfterAlert(n, a)
      BY <2>1, <2>3
    <3> QED
      BY <1>1, <3>1, FinalReceive
  <2>4. CASE Enter
    <3>1. PICK m \in Nodes, a \in AlertSet : mapAlerts' = [mapAlerts EXCEPT ![m] = AfterAlert(m, a)]
      BY <2>1, <2>4 DEF Enter, Receive, AfterAlert
    <3>2. CASE m = n
      BY <2>3, <3>1, <3>2
    <3>3. CASE m # n
      BY <2>1, <2>2, <3>1, <3>3
    <3> QED
      BY <3>2, <3>3
  <2>5. CASE AlertMessage
    <3>1. PICK l \in Links, a \in AlertSet :
             \/ mapAlerts' = mapAlerts
             \/ mapAlerts' = [mapAlerts EXCEPT ![l[2]] = AfterAlert(l[2], a)]
      BY <2>1, <2>5 DEF AlertMessage, Receive, AfterAlert
    <3>2. CASE l[2] = n /\ mapAlerts' # mapAlerts
      BY <2>3, <3>1, <3>2
    <3>3. CASE l[2] # n \/ mapAlerts' = mapAlerts
      BY <2>1, <2>2, <3>1, <3>3
    <3> QED
      BY <3>2, <3>3
  <2>6. CASE Connect \/ Accept \/ VersionMessage \/ Lose \/ Tick \/ UNCHANGED alertVars
    BY <2>2, <2>6 DEF Connect, Accept, VersionMessage, Lose, Tick, alertVars
  <2>7. CASE RestartNode
    <3>1. PICK m \in Nodes : mapAlerts' = [mapAlerts EXCEPT ![m] = {}] /\ losses' = losses + 1
      BY <2>7 DEF RestartNode, Closed
    <3>2. losses' # losses
      BY <2>1, <3>1
    <3>3. mapAlerts'[n] = {} \/ mapAlerts'[n] = mapAlerts[n]
      BY <2>1, <3>1
    <3> QED
      BY <2>2, <3>2, <3>3
  <2> QED
    BY <1>1, <2>4, <2>5, <2>6, <2>7 DEF AlertsNext
<1>2. AInv => FinalAlone
  BY FinalAloneInv
<1>3. AInv /\ FinalAlone' /\ [AlertsNext]_alertVars
         => [\A n \in Nodes :
               /\ mapAlerts'[n] \cap Finals # {} => mapAlerts'[n] \subseteq Finals
               /\ mapAlerts[n] \cap Finals # {} => Kept(n)]_alertVars
  <2> SUFFICES ASSUME AInv, FinalAlone', [AlertsNext]_alertVars, NEW n \in Nodes
               PROVE  /\ mapAlerts'[n] \cap Finals # {} => mapAlerts'[n] \subseteq Finals
                      /\ mapAlerts[n] \cap Finals # {} => Kept(n)
    OBVIOUS
  <2> HIDE DEF Kept
  <2>1. mapAlerts'[n] \cap Finals # {} => mapAlerts'[n] \subseteq Finals
    BY DEF FinalAlone, Finals
  <2>2. mapAlerts[n] \cap Finals # {} => Kept(n)
    BY <1>1
  <2> QED
    BY <2>1, <2>2
<1> QED
  BY AInit, AStep, <1>2, <1>3, PTL DEF AlertsSpec, FinalPrevails
=============================================================================

SPECIFICATION AlertsSpec
CONSTANTS
    Nodes <- MCNodes
    Links <- MCLinks
    Opens <- MCOpens
    AlertSet <- MCAlertSet
    nID <- MCnID
    nCancel <- MCnCancel
    setCancel <- MCsetCancel
    nExpiration <- MCnExpiration
    nRelayUntil <- MCnRelayUntil
    Canonical <- MCCanonical
    Applying <- MCApplying
    MaxID <- MCMaxID
    MaxTime = 2
    MaxLosses = 1
INVARIANT AlertsOK
PROPERTY FinalPrevails
CHECK_DEADLOCK FALSE

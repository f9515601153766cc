SPECIFICATION NetworkSpec
CONSTANTS
    o1 = o1 o2 = o2 home = home
    Nodes = {n1, n2}
    Openers = {o1, o2}
    Target <- MCTarget
    Named = {o2}
    None = None
    MAX_OUTBOUND_CONNECTIONS = 2
    MaxInbound = 1
    Peers = {honest, p2, p3}
    Honest = {honest}
    Items = {item}
    RETRY = 1
    MaxDelay = 2
INVARIANT CountsOK
PROPERTIES NoDeleteInUse InboundDeleted Obtained

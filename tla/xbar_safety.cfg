SPECIFICATION Spec
CONSTANTS
    NI = 2
    Rams = {}
    Bridges = {axi}
    Dummy = dummy
    None = none
    Aids = {a, b}
    Depth = 2
    BridgeDepth = 2
    MaxOut = 2
INVARIANTS Conservation DemuxAsserts RspQueuesHaveRoom
PROPERTIES PortSafety

SPECIFICATION LiveSpec
CONSTANTS
    NI = 2
    Rams = {ram}
    Bridges = {axi}
    Dummy = dummy
    None = none
    Aids = {a}
    Depth = 2
    BridgeDepth = 1
    MaxOut = 2
PROPERTIES BlockedOnlyByHigher PortSpec

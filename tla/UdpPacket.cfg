SPECIFICATION PSpec
CONSTANTS
    Pads = {256, 511}
    Sizes = {1, 1421, 20000}
    HostLens = {0, 1, 255}
    PortHighs = {0, 4, 6}
    Datagrams = {0, 5, 16124, 16125, 16363, 16364, 16365, 16374, 16376, 16379, 40000}
INVARIANTS
    OpeningFrameFitsMTU
    PacketArrives
PROPERTIES
    DataNeverAsZeroChunk
CHECK_DEADLOCK FALSE

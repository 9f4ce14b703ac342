\* Start-up acknowledgment: a sends one Reliable message; one datagram may
\* be lost.  Before it has received anything an endpoint's header carries
\* ack 0, which credits the peer's packet of sequence 0.
CONSTANTS
    a = a
    b = b
    Peers = {a, b}
    Script <- MCReliableScript
    Closers = {}
    Recreated = {}
    Gated = {}
    MaxSkips = 0
    SeqSize = 8
    AckWindow = 2
    OrderSize = 4
    PacketCapacity = 2
    PacketDropThreshold = 0
    ConnDropThreshold = 1
    ClosingThreshold = 1
    MaxDuplicates = 0
    MaxLosses = 1
    MaxNetDelay = 1
SPECIFICATION Spec
INVARIANTS
    ReliableNeverDroppedAtAll

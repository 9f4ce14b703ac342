\* Re-creation: b is a server-side connection; a sends Instant, Ordered,
\* Ordered and one datagram may be lost.  If b times out and is removed, a's
\* next datagram re-creates it with a fresh order cursor (server.rs 79-104).
CONSTANTS
    a = a
    b = b
    Peers = {a, b}
    Script <- MCMixedPairScript
    Closers = {}
    Recreated = {b}
    Gated = {}
    MaxSkips = 0
    SeqSize = 8
    AckWindow = 2
    OrderSize = 4
    PacketCapacity = 1
    PacketDropThreshold = 0
    ConnDropThreshold = 1
    ClosingThreshold = 1
    MaxDuplicates = 0
    MaxLosses = 1
    MaxNetDelay = 0
SPECIFICATION FairSpec
PROPERTIES
    ReliableEventuallyDelivered


\* close(): the client endpoint a calls close(), no application traffic, one
\* datagram (possibly a close marker) may be lost, and b is a server-side
\* connection that a late datagram re-creates after it was removed
\* (server.rs 79), under the fairness of the owner's loop (FairSpec).
CONSTANTS
    a = a
    b = b
    Peers = {a, b}
    Script <- MCSilentScript
    Closers = {a}
    Recreated = {b}
    Gated = {}
    MaxSkips = 0
    SeqSize = 8
    AckWindow = 2
    OrderSize = 4
    PacketCapacity = 2
    PacketDropThreshold = 0
    ConnDropThreshold = 1
    ClosingThreshold = 1
    MaxDuplicates = 0
    MaxLosses = 1
    MaxNetDelay = 0
SPECIFICATION FairSpec
PROPERTIES
    CloseCompletes

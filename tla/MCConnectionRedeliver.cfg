\* Re-delivery: a sends one Reliable message; the network may lose one
\* datagram and delay any by a tick.  A packet overtaken by its successor
\* is not covered by the peer's first ack, and loss detection by age (drop
\* threshold 1 tick) may run on that ack before the next header arrives.
CONSTANTS
    a = a
    b = b
    Peers = {a, b}
    Script <- MCReliableScript
    Closers = {}
    Recreated = {}
    Gated = {}
    MaxSkips = 0
    SeqSize = 8
    AckWindow = 2
    OrderSize = 4
    PacketCapacity = 2
    PacketDropThreshold = 1
    ConnDropThreshold = 1
    ClosingThreshold = 1
    MaxDuplicates = 0
    MaxLosses = 1
    MaxNetDelay = 1
SPECIFICATION Spec
INVARIANTS
    ReliableDeliveredOnce

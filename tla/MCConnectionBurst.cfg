\* a sends four Ordered messages, as many as the order_seq space of 4 holds,
\* three to a packet; one datagram is lost.  With the first packet lost the
\* receiver meets order_seq 3 while its cursor is at 0.
CONSTANTS
    a = a
    b = b
    Peers = {a, b}
    Script <- MCBurstScript
    Closers = {}
    Recreated = {}
    Gated = {}
    MaxSkips = 0
    SeqSize = 8
    AckWindow = 2
    OrderSize = 4
    PacketCapacity = 3
    PacketDropThreshold = 0
    ConnDropThreshold = 1
    ClosingThreshold = 1
    MaxDuplicates = 0
    MaxLosses = 1
    MaxNetDelay = 1
SPECIFICATION Spec
INVARIANTS
    ReliableNeverDropped

\* Duplication: as MCConnection.cfg, but the network duplicates one
\* datagram instead of losing one, so a stale copy of a packet (its
\* header and its messages) arrives after newer packets; b's owner is a
\* server that skips one tick (congestion gating), shifting the two
\* endpoints' sequences.
CONSTANTS
    a = a
    b = b
    Peers = {a, b}
    Script <- MCScript
    Closers = {}
    Recreated = {}
    Gated = {b}
    MaxSkips = 1
    SeqSize = 8
    AckWindow = 2
    OrderSize = 4
    PacketCapacity = 2
    PacketDropThreshold = 0
    ConnDropThreshold = 1
    ClosingThreshold = 1
    MaxDuplicates = 1
    MaxLosses = 0
    MaxNetDelay = 1
SPECIFICATION Spec
INVARIANTS
    ReliableNeverDropped
    OrderedInOrder

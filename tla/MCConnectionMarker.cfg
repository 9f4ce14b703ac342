\* Close-marker collision: no application sends or closes; the server
\* owner of b skips ticks (congestion) so that the two local sequences
\* drift apart, and one datagram may be lost.  A heartbeat of b with
\* sequence 0, ack SeqSize/2 and the alternating bit pattern is exactly
\* the close marker.
CONSTANTS
    a = a
    b = b
    Peers = {a, b}
    Script <- MCSilentScript
    Closers = {}
    Recreated = {}
    Gated = {b}
    MaxSkips = 4
    SeqSize = 8
    AckWindow = 2
    OrderSize = 4
    PacketCapacity = 2
    PacketDropThreshold = 0
    ConnDropThreshold = 1
    ClosingThreshold = 1
    MaxDuplicates = 0
    MaxLosses = 1
    MaxNetDelay = 1
SPECIFICATION Spec
INVARIANTS
    CloseOnlyOnRequest

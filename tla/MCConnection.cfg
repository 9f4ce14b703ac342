\* Two endpoints; a sends an Instant and then an Ordered message, one per
\* packet, so a start-up ack can only credit the packet with the Instant
\* one; b only heartbeats and acks.  The network loses one datagram and
\* delays any by up to one tick, which reorders datagrams across tick
\* boundaries.  Sequence space 8 with a 2-bit ack window keeps the ratio
\* of the code's 256 / 32.  Packet and connection drop thresholds of 0 and
\* 1 tick make spurious loss, retransmission and time-outs happen within a
\* few ticks.
CONSTANTS
    a = a
    b = b
    Peers = {a, b}
    Script <- MCMixedScript
    Closers = {}
    Recreated = {}
    Gated = {}
    MaxSkips = 0
    SeqSize = 8
    AckWindow = 2
    OrderSize = 4
    PacketCapacity = 1
    PacketDropThreshold = 0
    ConnDropThreshold = 1
    ClosingThreshold = 1
    MaxDuplicates = 0
    MaxLosses = 1
    MaxNetDelay = 1
SPECIFICATION Spec
INVARIANTS
    TypeOK
PROPERTIES
    ImplementsReliableChannel

\* Eventual delivery under the fairness of the owners' loops (FairSpec): a
\* sends an Instant message and then two Ordered ones, one message to a
\* packet, so the start-up ack (see MCConnectionStartup.cfg) can only
\* credit the packet with the Instant one.  The network loses one datagram
\* and duplicates one; a datagram is delivered within the tick it is sent
\* (reordering happens among the datagrams in flight in that tick), which
\* keeps the liveness graph small.  A lost packet makes the second
\* Ordered message arrive ahead of the first and wait in the reassembly
\* buffer.  Sequence space 8 with a 2-bit ack window.
CONSTANTS
    a = a
    b = b
    Peers = {a, b}
    Script <- MCMixedPairScript
    Closers = {}
    Recreated = {}
    Gated = {}
    MaxSkips = 0
    SeqSize = 8
    AckWindow = 2
    OrderSize = 4
    PacketCapacity = 1
    PacketDropThreshold = 0
    ConnDropThreshold = 1
    ClosingThreshold = 1
    MaxDuplicates = 1
    MaxLosses = 1
    MaxNetDelay = 0
SPECIFICATION FairSpec
PROPERTIES
    ReliableEventuallyDelivered
    

\* Two ids and two addresses: an id can arrive from a new address, and two
\* ids can share one.  Four datagrams in total cover a connection created,
\* moved, dropped and created again.  send_rate 4 with divider 2 (the
\* divider divides send_rate); the handler may remove map entries.  The
\* server stops only when shutdown() is called or on a panic, after which
\* bind() has returned (or is called again): deadlock is not checked.
\* FairSpec: the loop thread is weakly fair, the clients and the caller of
\* bind() are not.
CONSTANTS
    i1 = i1
    i2 = i2
    x1 = x1
    x2 = x2
    noid = noid
    Ids = {i1, i2}
    Addrs = {x1, x2}
    NoId = noid
    SendRate = 4
    CongestionDivider = 2
    HandlerRemoves = TRUE
    HandlerInserts = FALSE
    MaxArrivals = 4
SPECIFICATION FairSpec
INVARIANTS
    TypeOK
    NoPanic
    AddressFollowsPeer
    ClosedConnectionsRemoved
PROPERTIES
    CongestedSendSpacing
    ShutdownCompletes
CHECK_DEADLOCK FALSE

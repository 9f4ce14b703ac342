\* Congestion gating across the ticker wrap: send_rate 3 is not a multiple
\* of congestion_divider 2, so the congested ticks 0, 2, 0, 2 ... put two
\* sends one tick apart where the ticker wraps from 2 to 0.  One client and
\* two datagrams are enough; bind() returns after shutdown(), so deadlock
\* is not checked.
CONSTANTS
    i1 = i1
    i2 = i2
    x1 = x1
    x2 = x2
    noid = noid
    Ids = {i1}
    Addrs = {x1}
    NoId = noid
    SendRate = 3
    CongestionDivider = 2
    HandlerRemoves = FALSE
    HandlerInserts = FALSE
    MaxArrivals = 2
SPECIFICATION Spec
PROPERTIES
    CongestedSendSpacing
CHECK_DEADLOCK FALSE

------------------------------- MODULE Server -------------------------------
(***************************************************************************)
(* The server multiplexer (src/src/server/server.rs): Server::new, its    *)
(* local_addr, and Server::bind, which sets up a socket and then runs one *)
(* loop that drains the socket reader, creates a Connection for an      *)
(* unknown connection id, follows a peer's address when it changes (NAT    *)
(* rebinding), lets the handler see the connections, sends one packet per  *)
(* connection per tick (every congestion_divider-th tick when congested),  *)
(* removes connections that are no longer open, sleeps, and counts ticks   *)
(* modulo send_rate; shutdown() sets a flag the loop reads at the top of   *)
(* each iteration.                                                         *)
(*                                                                         *)
(* The loop is modelled statement by statement: pc says which part of one *)
(* iteration runs next.  A Connection is abstracted to the two facts the  *)
(* loop reads from it, open() and congested(), and to the peer address it *)
(* stores; whatever receive and send_packet do to them is a choice (the   *)
(* Connection module models those operations in detail).  HashMap and Vec *)
(* iteration is in any order.  An unwrap() on a missing key is a panic.   *)
(***************************************************************************)
EXTENDS Naturals, Sequences, FiniteSets, TLC

CONSTANTS
    Ids,               \* connection ids clients put into their packets
    Addrs,             \* peer socket addresses
    NoId,              \* a datagram id_from_packet rejects (short, bad tag)
    SendRate,          \* config.send_rate: ticks per second
    CongestionDivider, \* config.congestion_divider
    HandlerRemoves,    \* TRUE: tick_connections may remove map entries
    HandlerInserts,    \* TRUE: tick_connections may insert connections
    MaxArrivals        \* bound on datagrams clients send

ASSUME /\ SendRate \in Nat
       /\ CongestionDivider \in Nat
       /\ HandlerRemoves \in BOOLEAN
       /\ HandlerInserts \in BOOLEAN
       /\ NoId \notin Ids

Phases == {"idle", "recv", "tick", "send", "remove", "sleep", "done", "panic"}

VARIABLES
    closed,      \* Server.closed
    address,     \* Server.address: "none" or "bound" (Some(local address))
    pc,          \* the part of the loop body that runs next
    tick,        \* the internal ticker
    reader,      \* datagrams queued by the socket thread: [addr, id]
    arrivals,    \* datagrams the clients have sent so far
    conns,       \* connections: id -> [addr, open, congested]
    addresses,   \* addresses: id -> last peer address
    toVisit,     \* ids the send loop has not visited in this iteration
    dropped,     \* dropped: ids collected for removal
    lastSrc,     \* history: source address of the newest datagram per id
    sinceSend,   \* history: ticks since each connection last sent (capped)
    congSent     \* history: the connection was congested at its last send

vars == <<closed, address, pc, tick, reader, arrivals, conns, addresses, toVisit,
          dropped, lastSrc, sinceSend, congSent>>

Datagram == [addr : Addrs, id : Ids \cup {NoId}]

\* Connection::new(config, addr): open, not congested.
NewConn(addr) == [addr |-> addr, open |-> TRUE, congested |-> FALSE]

\* connection.receive / send: the connection may end (close marker,
\* closing threshold or drop threshold) and its RTT estimate may cross
\* the congestion threshold.
Effects(c) ==
    {[c EXCEPT !.open = o, !.congested = g] :
        o \in {c.open, FALSE}, g \in BOOLEAN}

\* Faulty variant of AddEntry: the new connection gets no address entry.
AddEntryMissing(a, i, addr) == a

\* addresses.insert(id, addr) for a new connection (line 89).
AddEntry(a, i, addr) == (i :> addr) @@ a

\* Faulty variant of Rebind: the connection keeps its old peer address.
RebindNot(c, addr) == c

\* connection.set_peer_addr(addr) (line 97).
Rebind(c, addr) == [c EXCEPT !.addr = addr]

\* tick % congestion_divider is only evaluated for a congested connection
\* (|| short-circuits); with a divider of 0 the remainder panics.
DividesByZero(c) == c.congested /\ CongestionDivider = 0

\* shutdown() (lines 173-176), which a handler callback may call with the
\* server it is handed: the closed flag is set.
MayShutdown == closed' \in {closed, TRUE}

\* Faulty variant of Gate: the congestion condition is left out.
GateAlways(c, t) == TRUE

\* The send condition of line 120: not congested, or a divider tick.
Gate(c, t) == ~c.congested \/ t % CongestionDivider = 0

\* Faulty variant of Collect: open() read before the packet was sent.
CollectStale(d, i, old, new) == IF old.open THEN d ELSE d \cup {i}

\* dropped.push(id) when conn.open() is false after sending (lines 133-135).
Collect(d, i, old, new) == IF new.open THEN d ELSE d \cup {i}

\* Faulty variant of LoopExits: the flag was copied into a local before the
\* loop, so a later shutdown() is never seen.
LoopExitsStale == FALSE

\* The loop condition while !self.closed (line 68), read at the end of an
\* iteration.
LoopExits == closed

\* Faulty variant of NextTick: the ticker does not wrap.
NextTickNoWrap(t) == t + 1

\* tick += 1, reset to 0 when it reaches send_rate (lines 149-153).
NextTick(t) == IF t + 1 = SendRate THEN 0 ELSE t + 1

\* local_addr() (lines 28-30).
LocalAddr == address

\* Server::new(config) (lines 19-25): not closed, not bound; bind has not
\* been called, so the loop's locals hold nothing yet.
Init ==
    /\ closed = FALSE
    /\ address = "none"
    /\ pc = "idle"
    /\ tick = 0
    /\ reader = <<>>
    /\ arrivals = 0
    /\ conns = [i \in {} |-> NewConn(CHOOSE x \in Addrs : TRUE)]
    /\ addresses = [i \in {} |-> CHOOSE x \in Addrs : TRUE]
    /\ toVisit = {}
    /\ dropped = {}
    /\ lastSrc = [i \in {} |-> CHOOSE x \in Addrs : TRUE]
    /\ sinceSend = [i \in Ids |-> CongestionDivider]
    /\ congSent = [i \in Ids |-> FALSE]

\* tick_delay = 1000 / send_rate (line 46) divides by zero.
SendRateZero == SendRate = 0

\* bind() (lines 40-68), on a new server or one whose earlier bind
\* returned: tick_delay (a send_rate of 0 panics), then either try! on
\* UdpSocket::new or socket.local_addr() returns the error (lines 49-54:
\* nothing else has changed and the handler is not called), or tick 0, a
\* new socket with an empty reader (reader() of a fresh socket is Some, so
\* the unwrap of line 57 holds), local_addr() set, fresh maps,
\* handler.bind (which may call shutdown()), then the loop condition.
\* closed is never reset, so after a shutdown the loop is not entered: the
\* handler is told, local_addr() is None again (lines 158-159) and bind
\* returns at once.
Bind ==
    /\ pc \in {"idle", "done"}
    /\ IF SendRateZero
       THEN /\ pc' = "panic"
            /\ UNCHANGED <<closed, address, tick, reader, conns, addresses,
                           dropped>>
       ELSE \/ /\ pc' = "done"
               /\ UNCHANGED <<closed, address, tick, reader, conns, addresses,
                              dropped>>
            \/ /\ tick' = 0
               /\ reader' = <<>>
               /\ conns' = [i \in {} |-> NewConn(CHOOSE x \in Addrs : TRUE)]
               /\ addresses' = [i \in {} |-> CHOOSE x \in Addrs : TRUE]
               /\ dropped' = {}
               /\ MayShutdown
               /\ IF closed'
                  THEN pc' = "done" /\ address' = "none"
                  ELSE pc' = "recv" /\ address' = "bound"
    /\ UNCHANGED <<arrivals, toVisit, lastSrc, sinceSend, congSent>>

\* The socket thread queues a datagram from some client address.
Arrive ==
    /\ pc \notin {"idle", "done", "panic"}
    /\ arrivals < MaxArrivals
    /\ \E d \in Datagram : reader' = Append(reader, d)
    /\ arrivals' = arrivals + 1
    /\ UNCHANGED <<closed, address, pc, tick, conns, addresses, toVisit, dropped,
                   lastSrc, sinceSend, congSent>>

\* A datagram without a valid header is ignored.
ReceiveInvalid ==
    /\ pc = "recv"
    /\ reader # <<>>
    /\ Head(reader).id = NoId
    /\ reader' = Tail(reader)
    /\ UNCHANGED <<closed, address, pc, tick, arrivals, conns, addresses, toVisit,
                   dropped, lastSrc, sinceSend, congSent>>

\* A datagram with connection id i from address d.addr (lines 74-104): an
\* unknown id gets a new Connection and an address entry, a changed source
\* address replaces the connection's peer address and the address entry
\* (the remove().unwrap() panics if there is none), then the connection
\* receives the packet.  A handler callback may call shutdown().
ReceiveValid ==
    /\ pc = "recv"
    /\ reader # <<>>
    /\ Head(reader).id \in Ids
    /\ LET d     == Head(reader)
           i     == d.id
           known == i \in DOMAIN conns
           c0    == IF known THEN conns ELSE (i :> NewConn(d.addr)) @@ conns
           a0    == IF known THEN addresses ELSE AddEntry(addresses, i, d.addr)
           moved == d.addr # c0[i].addr
       IN  IF moved /\ i \notin DOMAIN a0
           THEN /\ pc' = "panic"
                /\ UNCHANGED <<closed, address, conns, addresses, lastSrc, sinceSend,
                               congSent>>
           ELSE /\ \E c \in Effects(IF moved THEN Rebind(c0[i], d.addr) ELSE c0[i]) :
                       conns' = [c0 EXCEPT ![i] = c]
                /\ addresses' = IF moved THEN [a0 EXCEPT ![i] = d.addr] ELSE a0
                /\ lastSrc' = (i :> d.addr) @@ lastSrc
                /\ sinceSend' = IF known THEN sinceSend
                                ELSE [sinceSend EXCEPT ![i] = CongestionDivider]
                /\ congSent' = IF known THEN congSent
                               ELSE [congSent EXCEPT ![i] = FALSE]
                /\ MayShutdown
                /\ UNCHANGED pc
    /\ reader' = Tail(reader)
    /\ UNCHANGED <<address, tick, arrivals, toVisit, dropped>>

\* try_recv() finds the reader empty: the receive loop ends.
ReceiveDone ==
    /\ pc = "recv"
    /\ reader = <<>>
    /\ pc' = "tick"
    /\ UNCHANGED <<closed, address, tick, reader, arrivals, conns, addresses, toVisit,
                   dropped, lastSrc, sinceSend, congSent>>

\* handler.tick_connections(self, &mut connections) (line 113): the
\* handler may call shutdown(), and with the map borrowed mutably it may
\* remove entries and insert a Connection::new under any id; addresses is
\* not handed to it.
TickConnections ==
    /\ pc = "tick"
    /\ \E gone  \in (IF HandlerRemoves THEN SUBSET DOMAIN conns ELSE {{}}),
          added \in (IF HandlerInserts THEN SUBSET Ids ELSE {{}}),
          addr  \in Addrs :
          conns' = [i \in (DOMAIN conns \ gone) \cup added |->
                       IF i \in added THEN NewConn(addr) ELSE conns[i]]
    /\ MayShutdown
    /\ toVisit' = DOMAIN conns'
    /\ pc' = "send"
    /\ UNCHANGED <<address, tick, reader, arrivals, addresses, dropped, lastSrc,
                   sinceSend, congSent>>

\* One connection of the send loop (lines 116-137): unless it is congested
\* and the tick is not a multiple of the divider (a remainder by a divider
\* of 0 panics), look up its address (the unwrap panics if there is none)
\* and send a packet; then collect it for removal if it is no longer open.
SendOne ==
    /\ pc = "send"
    /\ \E i \in toVisit :
        LET c    == conns[i]
            gate == Gate(c, tick)
        IN  IF DividesByZero(c) \/ (gate /\ i \notin DOMAIN addresses)
            THEN /\ pc' = "panic"
                 /\ UNCHANGED <<closed, address, conns, toVisit, dropped, sinceSend,
                                congSent>>
            ELSE /\ IF gate
                    THEN /\ \E o \in {c.open, FALSE} :
                               conns' = [conns EXCEPT ![i].open = o]
                         /\ sinceSend' = [sinceSend EXCEPT ![i] = 0]
                         /\ congSent' = [congSent EXCEPT ![i] = c.congested]
                         /\ MayShutdown
                    ELSE UNCHANGED <<conns, sinceSend, congSent, closed>>
                 /\ dropped' = Collect(dropped, i, c, conns'[i])
                 /\ toVisit' = toVisit \ {i}
                 /\ UNCHANGED pc
    /\ UNCHANGED <<address, tick, reader, arrivals, addresses, lastSrc>>

\* The send loop has visited every connection.
SendDone ==
    /\ pc = "send"
    /\ toVisit = {}
    /\ pc' = "remove"
    /\ UNCHANGED <<closed, address, tick, reader, arrivals, conns, addresses, toVisit,
                   dropped, lastSrc, sinceSend, congSent>>

\* Lines 140-145: remove every dropped connection (reset() on an object
\* that is then discarded) and its address entry; both unwraps panic on a
\* missing key.
RemoveDropped ==
    /\ pc = "remove"
    /\ IF dropped \subseteq DOMAIN conns /\ dropped \subseteq DOMAIN addresses
       THEN /\ conns' = [i \in DOMAIN conns \ dropped |-> conns[i]]
            /\ addresses' = [i \in DOMAIN addresses \ dropped |-> addresses[i]]
            /\ dropped' = {}
            /\ pc' = "sleep"
       ELSE /\ pc' = "panic"
            /\ UNCHANGED <<conns, addresses, dropped>>
    /\ UNCHANGED <<closed, address, tick, reader, arrivals, toVisit, lastSrc,
                   sinceSend, congSent>>

\* Lines 148-155: sleep, advance the ticker modulo send_rate, and run the
\* next iteration unless shutdown() was called; then (lines 158-167) the
\* handler is told, every remaining connection is reset and bind returns.
Sleep ==
    /\ pc = "sleep"
    /\ tick' = NextTick(tick)
    /\ sinceSend' = [i \in Ids |-> IF sinceSend[i] < CongestionDivider
                                   THEN sinceSend[i] + 1 ELSE sinceSend[i]]
    /\ IF LoopExits
       THEN /\ pc' = "done"
            /\ address' = "none"
            /\ conns' = [i \in DOMAIN conns |->
                            [conns[i] EXCEPT !.open = TRUE, !.congested = FALSE]]
       ELSE /\ pc' = "recv"
            /\ UNCHANGED <<address, conns>>
    /\ UNCHANGED <<closed, reader, arrivals, addresses, toVisit, dropped,
                   lastSrc, congSent>>

Next ==
    \/ Bind \/ Arrive \/ ReceiveInvalid \/ ReceiveValid \/ ReceiveDone
    \/ TickConnections \/ SendOne \/ SendDone \/ RemoveDropped \/ Sleep

Spec == Init /\ [][Next]_vars

\* The loop thread: one step of the body of the while loop.  bind() itself
\* is the caller's choice and Arrive is the clients', so neither is fair.
LoopStep ==
    \/ ReceiveInvalid \/ ReceiveValid \/ ReceiveDone \/ TickConnections
    \/ SendOne \/ SendDone \/ RemoveDropped \/ Sleep

\* The loop thread keeps running while it can: every statement of the body
\* is synchronous and the only wait is a timed sleep (spec 5, suspension
\* points), so weak fairness of its steps is what the code guarantees.
FairSpec == Spec /\ WF_vars(LoopStep)

-----------------------------------------------------------------------------
(* Properties.                                                             *)

TypeOK ==
    /\ closed \in BOOLEAN
    /\ pc \in Phases
    /\ tick \in {0} \cup 0..(SendRate - 1)
    /\ reader \in Seq(Datagram)
    /\ DOMAIN conns \subseteq Ids
    /\ \A i \in DOMAIN conns : conns[i] \in [addr : Addrs, open : BOOLEAN,
                                             congested : BOOLEAN]
    /\ DOMAIN addresses \subseteq Ids
    /\ toVisit \subseteq DOMAIN conns
    /\ dropped \subseteq Ids

\* Spec 7: "the hot path never raises".  None of the unwrap() calls on the
\* two maps (lines 95, 98, 125, 141, 142) ever meets a missing key,
\* whatever ids and addresses arrive, in whatever order, and whatever the
\* handler removes, and neither tick_delay (line 46) nor the congestion
\* gate's remainder (line 121) divides by zero.
NoPanic == pc # "panic"

\* NAT rebinding: every connection and the address map agree on its peer
\* address, and it is the source of the newest datagram with its id, so
\* send_packet answers where the client now is (lines 93-100, 125).
AddressFollowsPeer ==
    \A i \in DOMAIN conns :
        /\ i \in DOMAIN addresses
        /\ addresses[i] = conns[i].addr
        /\ conns[i].addr = lastSrc[i]

\* After the remove loop no connection that is no longer open stays in the
\* map, congested or not (lines 132-145).
ClosedConnectionsRemoved ==
    pc = "sleep" => \A i \in DOMAIN conns : conns[i].open

\* Spec: when congested "only 1 of every N ticks sends": two consecutive
\* packets of a connection congested at both are at least
\* congestion_divider ticks apart (lines 120-121 with the wrap at 151).
CongestedSendSpacing ==
    [][\A i \in Ids :
          (/\ pc = "send" /\ i \in toVisit \ toVisit'
           /\ sinceSend'[i] = 0 /\ conns[i].congested /\ congSent[i])
              => sinceSend[i] >= CongestionDivider]_vars

\* Spec 5, cancellation: shutdown() "sets a flag examined once per tick; the
\* loop then drains, invokes the shutdown hook, resets all connections,
\* and closes the socket.  There are no unbounded waits."  Once a handler
\* callback has called shutdown(), bind() eventually returns with
\* local_addr() None again (lines 68, 155-169), unless the loop panicked.
ShutdownCompletes ==
    closed ~> (pc = "panic" \/ (pc = "done" /\ LocalAddr = "none"))

=============================================================================

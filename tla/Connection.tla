----------------------------- MODULE Connection -----------------------------
(***************************************************************************)
(* The per-peer connection engine of cobalt (shared::Connection): two      *)
(* endpoints, each a Connection, exchange datagrams over a network that    *)
(* loses, duplicates and reorders them.  Each endpoint keeps a local       *)
(* sequence, the newest remote sequence and the set of remote sequences    *)
(* received in the ack window, three outbound queues, the ledger of sent   *)
(* packets, and the ordered-channel reassembly state.  Time advances in    *)
(* ticks of the owner's loop; every open endpoint calls send_packet once   *)
(* per tick and receives any number of datagrams in between.  The code     *)
(* compares elapsed milliseconds with thresholds; the model keeps each     *)
(* elapsed time as an age in ticks that saturates one above its threshold, *)
(* which decides every comparison the same way and leaves time unbounded.  *)
(*                                                                         *)
(* The Connection source is not part of src/ (only its tests are): the     *)
(* behaviour is taken from the specification and from what the tests in   *)
(* src/src/tests/connection.rs assert byte by byte.                        *)
(***************************************************************************)
EXTENDS Integers, Sequences, SequencesExt, FiniteSets, TLC

CONSTANTS
    Peers,               \* the two endpoints of the connection
    Script,              \* Script[p]: kinds of the messages p's application sends
    Closers,             \* endpoints whose application may call close()
    Recreated,           \* endpoints owned by a server, which removes them
                         \* once ended and re-creates them on a datagram
    Gated,               \* endpoints whose owner skips ticks when congested
    MaxSkips,            \* bound on skipped ticks
    SeqSize,             \* 256: the local sequence is a u8
    AckWindow,           \* 32: bits in the acknowledgment bitfield
    OrderSize,           \* 256: order_seq is a u8
    PacketCapacity,      \* messages that fit in one packet (packet_max_size)
    PacketDropThreshold, \* ticks after which an unacked packet counts as lost
    ConnDropThreshold,   \* ticks of silence after which a connection is lost
    ClosingThreshold,    \* ticks a closing connection keeps sending markers
    MaxDuplicates,       \* bound on duplicated datagrams
    MaxLosses,           \* bound on lost datagrams
    MaxNetDelay          \* ticks within which the network delivers a datagram

Kinds  == {"Instant", "Reliable", "Ordered"}
States == {"Connecting", "Connected", "Closing", "Closed", "Lost"}

ASSUME /\ Cardinality(Peers) = 2
       /\ \A p \in Peers : Script[p] \in Seq(Kinds)
       /\ AckWindow \in 1..(SeqSize \div 2)
       /\ PacketCapacity \in Nat \ {0}

LSeq == INSTANCE SeqArith WITH Size <- SeqSize
OSeq == INSTANCE SeqArith WITH Size <- OrderSize
Ack  == INSTANCE AckField WITH Size <- SeqSize, Window <- AckWindow

Other(p) == CHOOSE q \in Peers : q # p

VARIABLES
    ticked,       \* endpoints that already ran send_packet in this tick
    state,        \* ConnectionState
    localSeq,     \* sequence number of the next outbound packet
    remoteSeq,    \* newest remote sequence received (acknowledged in headers)
    recvSeqs,     \* remote sequences received inside the ack window
    silence,      \* ticks since the last inbound packet (saturating)
    closing,      \* ticks since close() was called (saturating)
    queue,        \* queue[p][k]: outbound messages of kind k
    orderSeq,     \* next order_seq assigned by send() on the ordered channel
    ledger,       \* ledger[p]: local seq -> [age, msgs] of unacked packets
    cursor,       \* next order_seq the receiver delivers
    orderBuf,     \* ordered messages received ahead of the cursor
    inbox,        \* messages delivered and not yet drained by received()
    net,          \* datagrams in flight
    dups,         \* datagrams duplicated so far
    losses,       \* datagrams lost so far
    sentMsgs,     \* history: number of messages p's application has sent
    delivered,    \* history: every message that entered p's inbox, in order
                  \* of its first arrival
    redelivered,  \* history: messages that entered p's inbox a second time
    skips,        \* ticks skipped so far
    blindAcked    \* history: messages whose packet an ack credited that did
                  \* not name a sequence its sender had received

connVars  == <<state, localSeq, remoteSeq, recvSeqs, silence, closing,
               queue, orderSeq, ledger, cursor, orderBuf, inbox>>
netVars   == <<net, dups, losses>>
vars      == <<ticked, connVars, netVars, sentMsgs, delivered, redelivered,
               blindAcked, skips>>

Msg == [src : Peers, idx : Nat, kind : Kinds, oseq : 0..(OrderSize - 1)]

Open(p) == state[p] \notin {"Closed", "Lost"}

-----------------------------------------------------------------------------
(* Outbound packet assembly (send_packet).                                 *)

\* Bit i of the header bitfield: remote sequence ack-1-i was received.
AckBits(p) == Ack!Encode(remoteSeq[p], recvSeqs[p])

\* The messages drained into one packet: Instant, then Reliable, then
\* Ordered, FIFO within each, as many as fit.
Drained(p) ==
    LET all == queue[p]["Instant"] \o queue[p]["Reliable"] \o queue[p]["Ordered"]
    IN  SubSeq(all, 1, IF Len(all) < PacketCapacity THEN Len(all) ELSE PacketCapacity)

\* The queues after the drained messages are removed from their heads.
AfterDrain(p) ==
    LET taken(k) == Len(SelectSeq(Drained(p), LAMBDA m : m.kind = k))
    IN  [k \in Kinds |-> SubSeq(queue[p][k], taken(k) + 1, Len(queue[p][k]))]

\* Faulty variant of Kept: Ordered messages are not copied into the ledger.
KeptReliableOnly(p) == SelectSeq(Drained(p), LAMBDA m : m.kind = "Reliable")

\* The Reliable and Ordered messages of a packet, copied into its ledger
\* entry (Instant ones are not kept).
Kept(p) == SelectSeq(Drained(p), LAMBDA m : m.kind # "Instant")

\* The ledger after recording a packet of sequence s carrying msgs: the
\* entry replaces any entry with the same sequence.  Entries that carry
\* no message only feed the RTT and loss estimators, which this module
\* leaves out; recording one is modelled by the removal of the entry it
\* overwrites.
Record(L, s, msgs) ==
    IF msgs = <<>> THEN Restrict(L, DOMAIN L \ {s})
    ELSE (s :> [age |-> 0, msgs |-> msgs]) @@ L

\* Ghost: the ack field names a sequence this endpoint really received.
AckGenuine(p) == remoteSeq[p] \in recvSeqs[p]

DataPacket(p) ==
    [src |-> p, dst |-> Other(p), seq |-> localSeq[p], ack |-> remoteSeq[p], bits |-> AckBits(p),
     msgs |-> Drained(p), genuine |-> AckGenuine(p), delay |-> 0]

\* The close marker: sequence 0, ack 128 and bitfield bytes 0x55555555
\* (bits 0, 2, 4, ... set), no messages.
MarkerBits == {i \in 0..(AckWindow - 1) : i % 2 = 0}

CloseMarker(p) ==
    [src |-> p, dst |-> Other(p), seq |-> 0, ack |-> SeqSize \div 2,
     bits |-> MarkerBits, msgs |-> <<>>, genuine |-> FALSE, delay |-> 0]

\* receive_packet recognises the marker by its header bytes alone.
IsCloseMarker(pkt) ==
    pkt.seq = 0 /\ pkt.ack = SeqSize \div 2 /\ pkt.bits = MarkerBits /\ pkt.msgs = <<>>

\* Faulty variant of AgeUp: the elapsed time stops at the threshold, so a
\* comparison "elapsed > threshold" never succeeds.
AgeUpStuck(x, th) == IF x >= th THEN x ELSE x + 1

\* An elapsed time one tick later, saturating once it exceeds threshold th.
AgeUp(x, th) == IF x > th THEN x ELSE x + 1

-----------------------------------------------------------------------------
(* Inbound processing (receive_packet).                                    *)

\* Does a header with this ack and bitfield acknowledge local sequence s?
Acks(pkt, s) == Ack!Acks(pkt.ack, pkt.bits, s)

\* Newest remote sequence and received window after receiving sequence r.
NewRemote(p, r)   == Ack!NewRemote(remoteSeq[p], r)
NewRecvSeqs(p, r) == Ack!NewReceived(remoteSeq[p], recvSeqs[p], r)

\* Deliver buffered ordered messages that have become consecutive.
RECURSIVE FlushOrdered(_)
FlushOrdered(acc) ==
    IF \E m \in acc.buf : m.oseq = acc.cur
    THEN LET m == CHOOSE x \in acc.buf : x.oseq = acc.cur
         IN  FlushOrdered([in  |-> Append(acc.in, m),
                           cur |-> OSeq!Succ(acc.cur),
                           buf |-> acc.buf \ {m}])
    ELSE acc

\* Faulty variant of Dispatch: every message goes to the inbox on arrival,
\* with no reassembly of the ordered channel.
DispatchUnordered(acc, m) == [acc EXCEPT !.in = Append(@, m)]

\* Faulty variant of Dispatch: an Ordered message behind the cursor is
\* delivered again instead of being dropped as a duplicate.
DispatchNoDedup(acc, m) ==
    CASE m.kind # "Ordered" -> [acc EXCEPT !.in = Append(@, m)]
      [] m.oseq = acc.cur  -> FlushOrdered([acc EXCEPT !.in = Append(@, m),
                                                       !.cur = OSeq!Succ(@)])
      [] OSeq!MoreRecent(m.oseq, acc.cur) -> [acc EXCEPT !.buf = @ \cup {m}]
      [] OTHER -> [acc EXCEPT !.in = Append(@, m)]

\* Dispatch one message: Instant and Reliable go to the inbox; an Ordered
\* one at the cursor is delivered with what follows it, one ahead of the
\* cursor is buffered, one behind it is a duplicate and dropped.
Dispatch(acc, m) ==
    CASE m.kind # "Ordered" -> [acc EXCEPT !.in = Append(@, m)]
      [] m.oseq = acc.cur  -> FlushOrdered([acc EXCEPT !.in = Append(@, m),
                                                       !.cur = OSeq!Succ(@)])
      [] OSeq!MoreRecent(m.oseq, acc.cur) -> [acc EXCEPT !.buf = @ \cup {m}]
      [] OTHER -> acc

\* Faulty variant of Requeue: the messages of lost packets are dropped.
RequeueNone(q, lost) == q

\* Messages of the lost entries go back to the head of their queues.
Requeue(q, lost) ==
    [k \in Kinds |-> SetToSortSeq({m \in lost : m.kind = k},
                                  LAMBDA x, y : x.idx < y.idx) \o q[k]]

\* The socket sends a datagram; the network may lose it.
Transmit(pkt) ==
    \/ net' = net \cup {pkt} /\ UNCHANGED losses
    \/ losses < MaxLosses /\ losses' = losses + 1 /\ UNCHANGED net

\* Take a datagram off the network, or leave a copy behind (duplication).
Take(pkt) ==
    \/ net' = net \ {pkt} /\ UNCHANGED <<dups, losses>>
    \/ dups < MaxDuplicates /\ dups' = dups + 1 /\ UNCHANGED <<net, losses>>

-----------------------------------------------------------------------------
(* Operations.                                                             *)

Init ==
    /\ ticked = {}
    /\ state = [p \in Peers |-> "Connecting"]
    /\ localSeq = [p \in Peers |-> 0]
    /\ remoteSeq = [p \in Peers |-> 0]
    /\ recvSeqs = [p \in Peers |-> {}]
    /\ silence = [p \in Peers |-> 0]
    /\ closing = [p \in Peers |-> 0]
    /\ queue = [p \in Peers |-> [k \in Kinds |-> <<>>]]
    /\ orderSeq = [p \in Peers |-> 0]
    /\ ledger = [p \in Peers |-> <<>>]
    /\ cursor = [p \in Peers |-> 0]
    /\ orderBuf = [p \in Peers |-> {}]
    /\ inbox = [p \in Peers |-> <<>>]
    /\ net = {}
    /\ dups = 0
    /\ losses = 0
    /\ skips = 0
    /\ sentMsgs = [p \in Peers |-> 0]
    /\ delivered = [p \in Peers |-> <<>>]
    /\ redelivered = [p \in Peers |-> {}]
    /\ blindAcked = [p \in Peers |-> {}]

\* send(kind, payload): queue the next message of p's application; an
\* Ordered one takes the channel's next order_seq.
Send(p) ==
    /\ sentMsgs[p] < Len(Script[p])
    /\ LET kind == Script[p][sentMsgs[p] + 1]
           m    == [src |-> p, idx |-> sentMsgs[p] + 1, kind |-> kind,
                    oseq |-> IF kind = "Ordered" THEN orderSeq[p] ELSE 0]
       IN  /\ queue' = [queue EXCEPT ![p][kind] = Append(@, m)]
           /\ orderSeq' = [orderSeq EXCEPT ![p] =
                              IF kind = "Ordered" THEN OSeq!Succ(@) ELSE @]
    /\ sentMsgs' = [sentMsgs EXCEPT ![p] = @ + 1]
    /\ UNCHANGED <<ticked, state, localSeq, remoteSeq, recvSeqs,
                   silence, closing, ledger, cursor, orderBuf, inbox,
                   netVars, delivered, redelivered, blindAcked, skips>>

\* close(): a connecting or connected endpoint starts closing.
Close(p) ==
    /\ p \in Closers
    /\ state[p] \in {"Connecting", "Connected"}
    /\ state' = [state EXCEPT ![p] = "Closing"]
    /\ closing' = [closing EXCEPT ![p] = 0]
    /\ UNCHANGED <<ticked, localSeq, remoteSeq, recvSeqs, silence,
                   queue, orderSeq, ledger, cursor, orderBuf, inbox, netVars,
                   sentMsgs, delivered, redelivered, blindAcked, skips>>

\* send_packet, common part: once per tick, and undrained inbox discarded.
SendPacketStep(p) ==
    /\ p \notin ticked
    /\ Open(p)
    /\ ticked' = ticked \cup {p}
    /\ inbox' = [inbox EXCEPT ![p] = <<>>]

\* A server owner skips send_packet of a congested connection on ticks
\* that are not a multiple of congestion_divider (server.rs 120-130); the
\* congestion estimate is not modelled here, so any tick may be skipped.
SkipTick(p) ==
    /\ p \in Gated
    /\ skips < MaxSkips
    /\ p \notin ticked
    /\ Open(p)
    /\ ticked' = ticked \cup {p}
    /\ skips' = skips + 1
    /\ UNCHANGED <<connVars, netVars, sentMsgs, delivered, redelivered,
                   blindAcked>>

\* send_packet on a connection silent for longer than the drop threshold.
SendPacketTimeout(p) ==
    /\ SendPacketStep(p)
    /\ state[p] \in {"Connecting", "Connected"}
    /\ silence[p] > ConnDropThreshold
    /\ state' = [state EXCEPT ![p] = "Lost"]
    /\ UNCHANGED <<localSeq, remoteSeq, recvSeqs, silence, closing,
                   queue, orderSeq, ledger, cursor, orderBuf, netVars,
                   sentMsgs, delivered, redelivered, blindAcked, skips>>

\* send_packet while closing: the close marker until the closing threshold
\* has passed, then the connection is Closed and nothing is sent.
SendPacketClosing(p) ==
    /\ SendPacketStep(p)
    /\ state[p] = "Closing"
    /\ IF closing[p] > ClosingThreshold
       THEN /\ state' = [state EXCEPT ![p] = "Closed"]
            /\ UNCHANGED <<net, losses>>
       ELSE /\ Transmit(CloseMarker(p))
            /\ UNCHANGED state
    /\ UNCHANGED <<localSeq, remoteSeq, recvSeqs, silence, closing,
                   queue, orderSeq, ledger, cursor, orderBuf, dups, sentMsgs,
                   delivered, redelivered, blindAcked, skips>>

\* send_packet on a live connection: header, drained messages, a ledger
\* entry keyed by the local sequence (overwriting one with the same
\* sequence), and the local sequence incremented modulo 256.
SendPacketData(p) ==
    /\ SendPacketStep(p)
    /\ state[p] \in {"Connecting", "Connected"}
    /\ silence[p] <= ConnDropThreshold
    /\ Transmit(DataPacket(p))
    /\ ledger' = [ledger EXCEPT ![p] = Record(@, localSeq[p], Kept(p))]
    /\ queue' = [queue EXCEPT ![p] = AfterDrain(p)]
    /\ localSeq' = [localSeq EXCEPT ![p] = LSeq!Succ(@)]
    /\ UNCHANGED <<state, remoteSeq, recvSeqs, silence, closing,
                   orderSeq, cursor, orderBuf, dups, sentMsgs, delivered, redelivered,
                   blindAcked, skips>>

\* receive_packet on a Closed or Lost connection: the datagram is dropped.
\* A server removes such a connection after its send (line 141); a
\* datagram for it then finds no connection (see Recreate), except a
\* close marker, whose new connection is Closed and removed again.  A
\* connection Closed by a close marker stays in the map for the rest of
\* the drain loop, so datagrams drained after the marker are dropped.
ReceiveIgnored(p) ==
    \E pkt \in net :
        /\ pkt.dst = p
        /\ ~Open(p)
        /\ p \notin Recreated \/ IsCloseMarker(pkt) \/ state[p] = "Closed"
        /\ Take(pkt)
        /\ UNCHANGED <<ticked, connVars, sentMsgs, delivered, redelivered,
                       blindAcked, skips>>

\* receive_packet of the close marker: the connection is Closed.
ReceiveClose(p) ==
    \E pkt \in net :
        /\ pkt.dst = p
        /\ Open(p)
        /\ IsCloseMarker(pkt)
        /\ Take(pkt)
        /\ state' = [state EXCEPT ![p] = "Closed"]
        /\ UNCHANGED <<ticked, localSeq, remoteSeq, recvSeqs, silence,
                       closing, queue, orderSeq, ledger, cursor, orderBuf,
                       inbox, sentMsgs, delivered, redelivered, blindAcked, skips>>

\* receive_packet of a data packet: Connecting becomes Connected, the
\* remote sequence and window advance, ledger entries the header acks are
\* removed, entries older than the drop threshold are declared lost and
\* their messages re-queued, and the messages are dispatched.
ReceiveData(p) ==
    \E pkt \in net :
        /\ pkt.dst = p
        /\ Open(p)
        /\ ~IsCloseMarker(pkt)
        /\ Take(pkt)
        /\ LET L      == ledger[p]
               ackedS == {s \in DOMAIN L : Acks(pkt, s)}
               lostS  == {s \in DOMAIN L \ ackedS :
                             L[s].age > PacketDropThreshold}
               lostM  == UNION {ToSet(L[s].msgs) : s \in lostS}
               ackedM == UNION {ToSet(L[s].msgs) : s \in ackedS}
               acc    == FoldLeft(Dispatch, [in |-> inbox[p], cur |-> cursor[p],
                                             buf |-> orderBuf[p]], pkt.msgs)
               new    == SubSeq(acc.in, Len(inbox[p]) + 1, Len(acc.in))
               seen   == ToSet(delivered[p])
           IN  /\ ledger' = [ledger EXCEPT ![p] =
                                Restrict(L, DOMAIN L \ (ackedS \cup lostS))]
               /\ queue' = [queue EXCEPT ![p] = Requeue(@, lostM)]
               /\ inbox' = [inbox EXCEPT ![p] = acc.in]
               /\ cursor' = [cursor EXCEPT ![p] = acc.cur]
               /\ orderBuf' = [orderBuf EXCEPT ![p] = acc.buf]
               /\ delivered' = [delivered EXCEPT ![p] =
                                   @ \o SelectSeq(new, LAMBDA m : m \notin seen)]
               /\ redelivered' = [redelivered EXCEPT ![p] = @ \cup (ToSet(new) \cap seen)]
               /\ blindAcked' = [blindAcked EXCEPT ![p] =
                                    IF pkt.genuine THEN @ ELSE @ \cup ackedM]
        /\ state' = [state EXCEPT ![p] = IF @ = "Connecting" THEN "Connected" ELSE @]
        /\ silence' = [silence EXCEPT ![p] = 0]
        /\ remoteSeq' = [remoteSeq EXCEPT ![p] = NewRemote(p, pkt.seq)]
        /\ recvSeqs' = [recvSeqs EXCEPT ![p] = NewRecvSeqs(p, pkt.seq)]
        /\ UNCHANGED <<ticked, localSeq, closing, orderSeq, sentMsgs, skips>>

\* server.rs 79-104: a datagram carrying the id of a connection the server
\* removed (it was Lost or Closed, lines 133-143) finds no connection, so
\* Connection::new creates one in its initial state and receive_packet
\* takes the datagram: Connected, remote sequence and window from a
\* start of 0, empty ledger and queues, and the messages dispatched from
\* an ordered cursor of 0.  The peer's connection keeps its state.
Recreate(p) ==
    \E pkt \in net :
        /\ pkt.dst = p
        /\ p \in Recreated
        /\ ~Open(p)
        /\ ~IsCloseMarker(pkt)
        /\ Take(pkt)
        /\ LET acc  == FoldLeft(Dispatch, [in |-> <<>>, cur |-> 0, buf |-> {}],
                                pkt.msgs)
               seen == ToSet(delivered[p])
           IN  /\ inbox' = [inbox EXCEPT ![p] = acc.in]
               /\ cursor' = [cursor EXCEPT ![p] = acc.cur]
               /\ orderBuf' = [orderBuf EXCEPT ![p] = acc.buf]
               /\ delivered' = [delivered EXCEPT ![p] =
                                   @ \o SelectSeq(acc.in, LAMBDA m : m \notin seen)]
               /\ redelivered' = [redelivered EXCEPT ![p] =
                                     @ \cup (ToSet(acc.in) \cap seen)]
        /\ state' = [state EXCEPT ![p] = "Connected"]
        /\ localSeq' = [localSeq EXCEPT ![p] = 0]
        /\ remoteSeq' = [remoteSeq EXCEPT ![p] = Ack!NewRemote(0, pkt.seq)]
        /\ recvSeqs' = [recvSeqs EXCEPT ![p] = Ack!NewReceived(0, {}, pkt.seq)]
        /\ silence' = [silence EXCEPT ![p] = 0]
        /\ closing' = [closing EXCEPT ![p] = 0]
        /\ queue' = [queue EXCEPT ![p] = [k \in Kinds |-> <<>>]]
        /\ orderSeq' = [orderSeq EXCEPT ![p] = 0]
        /\ ledger' = [ledger EXCEPT ![p] = <<>>]
        /\ UNCHANGED <<ticked, sentMsgs, blindAcked, skips>>

\* The owner's loop sleeps and starts the next tick once every open
\* endpoint has sent its packet for this one: every elapsed time grows.
\* The network delivers or loses a datagram within MaxNetDelay ticks.
Tick ==
    /\ \A p \in Peers : p \in ticked \/ ~Open(p)
    /\ \A x \in net : x.delay < MaxNetDelay
    /\ ticked' = {}
    /\ silence' = [p \in Peers |-> AgeUp(silence[p], ConnDropThreshold)]
    /\ closing' = [p \in Peers |-> AgeUp(closing[p], ClosingThreshold)]
    /\ ledger' = [p \in Peers |->
                    [s \in DOMAIN ledger[p] |->
                        [ledger[p][s] EXCEPT !.age = AgeUp(@, PacketDropThreshold)]]]
    /\ net' = {[x EXCEPT !.delay = @ + 1] : x \in net}
    /\ UNCHANGED <<state, localSeq, remoteSeq, recvSeqs, queue, orderSeq,
                   cursor, orderBuf, inbox, dups, losses, sentMsgs, delivered, redelivered,
                   blindAcked, skips>>

Next ==
    \/ \E p \in Peers :
          \/ Send(p)
          \/ Close(p)
          \/ SkipTick(p)
          \/ SendPacketTimeout(p)
          \/ SendPacketClosing(p)
          \/ SendPacketData(p)
          \/ ReceiveIgnored(p)
          \/ ReceiveClose(p)
          \/ ReceiveData(p)
          \/ Recreate(p)
    \/ Tick

Spec == Init /\ [][Next]_vars

\* The owner's loop drains the socket on every iteration and then sleeps
\* into the next tick: each of these steps is taken whenever it stays
\* possible, and so is its call of send_packet once per tick (skipped
\* ticks are bounded by MaxSkips).
SendPacket(p) == SendPacketTimeout(p) \/ SendPacketClosing(p) \/ SendPacketData(p)
Receive(p)    == ReceiveIgnored(p) \/ ReceiveClose(p) \/ ReceiveData(p) \/ Recreate(p)

FairSpec ==
    /\ Spec
    /\ \A p \in Peers : WF_vars(SendPacket(p)) /\ WF_vars(Receive(p))
    /\ WF_vars(Tick)

-----------------------------------------------------------------------------
(* Properties.                                                             *)

TypeOK ==
    /\ ticked \subseteq Peers
    /\ state \in [Peers -> States]
    /\ localSeq \in [Peers -> 0..(SeqSize - 1)]
    /\ remoteSeq \in [Peers -> 0..(SeqSize - 1)]
    /\ recvSeqs \in [Peers -> SUBSET (0..(SeqSize - 1))]
    /\ queue \in [Peers -> [Kinds -> Seq(Msg)]]
    /\ orderSeq \in [Peers -> 0..(OrderSize - 1)]
    /\ \A p \in Peers : DOMAIN ledger[p] \subseteq 0..(SeqSize - 1)
    /\ cursor \in [Peers -> 0..(OrderSize - 1)]
    /\ orderBuf \in [Peers -> SUBSET Msg]
    /\ inbox \in [Peers -> Seq(Msg)]
    /\ dups \in 0..MaxDuplicates
    /\ losses \in 0..MaxLosses

\* Indices of p's messages the connection still holds or has handed over:
\* queued, in a ledger entry, buffered by the peer's ordered channel, or
\* delivered into the peer's inbox.
Custody(p) ==
    {m.idx : m \in ToSet(queue[p]["Reliable"]) \cup ToSet(queue[p]["Ordered"])
                   \cup UNION {ToSet(ledger[p][s].msgs) : s \in DOMAIN ledger[p]}
                   \cup {x \in orderBuf[Other(p)] \cup ToSet(delivered[Other(p)]) :
                            x.src = p}}

\* Indices of p's Reliable and Ordered messages its application has sent.
ReliableSent(p) ==
    {i \in 1..sentMsgs[p] : Script[p][i] # "Instant"}

\* A Reliable or Ordered message is never silently discarded by its sender:
\* until it has entered the peer's inbox it stays queued or in a ledger
\* entry (acks, loss re-queue and ledger overwrite in send_packet/receive),
\* unless an ack that named a sequence its sender never received credited
\* its packet (the start-up acknowledgment, see ReliableNeverDroppedAtAll).
ReliableNeverDropped ==
    \A p \in Peers :
        ReliableSent(p) \subseteq Custody(p) \cup {m.idx : m \in blindAcked[p]}

\* The same without exception: no ack ever credits a packet carrying a
\* Reliable message that the peer has not delivered.
ReliableNeverDroppedAtAll ==
    \A p \in Peers : ReliableSent(p) \subseteq Custody(p)

\* Indices of p's Ordered messages in the order its application sent them.
OrderedIdx(p) ==
    SelectSeq([j \in 1..Len(Script[p]) |-> j], LAMBDA j : Script[p][j] = "Ordered")

\* The receiver hands Ordered messages to its application exactly in send
\* order: the first arrivals form a prefix of the send order (no gap, no
\* overtaking), and no Ordered message enters the inbox a second time,
\* whatever order, loss and duplication the network and retransmission
\* produce (ordered dispatch and its cursor in receive_packet).
OrderedInOrder ==
    \A q \in Peers :
        LET os == SelectSeq(delivered[q], LAMBDA m : m.kind = "Ordered")
        IN  /\ Len(os) <= Len(OrderedIdx(Other(q)))
            /\ \A i \in 1..Len(os) : os[i].idx = OrderedIdx(Other(q))[i]
            /\ \A m \in redelivered[q] : m.kind # "Ordered"

\* Spec 3 and 7: the close marker "is distinguishable because a normal
\* packet with ack=128 and bitfield starting 0x55555555 is a reserved
\* combination": when no application calls close(), no connection is
\* ever Closed (receive_packet's close-marker check against the headers
\* send_packet builds).
CloseOnlyOnRequest ==
    Closers = {} => \A q \in Peers : state[q] # "Closed"

\* Spec 4.4: a Reliable message reaches the receiver's inbox at most once
\* ("deduplicated implicitly because the sender stops retransmitting on ack").
ReliableDeliveredOnce ==
    \A q \in Peers :
        redelivered[q] = {}

\* Indices of p's messages that entered the peer's inbox.
DeliveredIdx(p) == {m.idx : m \in {x \in ToSet(delivered[Other(p)]) : x.src = p}}

\* Every Reliable or Ordered message the application has sent reaches the
\* peer's inbox unless one of the two connections ends (Lost or Closed)
\* or a start-up acknowledgment credited its packet (see
\* ReliableNeverDroppedAtAll): the loss timer, re-queueing and
\* retransmission in send_packet and receive_packet eventually get every
\* such message through.
ReliableEventuallyDelivered ==
    \A p \in Peers : \A i \in 1..Len(Script[p]) :
        (Script[p][i] # "Instant" /\ i <= sentMsgs[p])
            ~> \/ i \in DeliveredIdx(p) \cup {m.idx : m \in blindAcked[p]}
               \/ ~Open(p) \/ ~Open(Other(p))

\* close() ends both connections: the closing endpoint stops after the
\* closing threshold, and its peer is Closed by the close marker or, if
\* every marker is lost, Lost through the connection drop threshold.
CloseCompletes ==
    \A p \in Peers : state[p] = "Closing" ~> (~Open(p) /\ ~Open(Other(p)))

-----------------------------------------------------------------------------
(* Refinement of the abstract channel.                                     *)

\* Indices of the peer's messages that entered q's inbox, first arrivals.
GotIdx == [q \in Peers |-> [i \in 1..Len(delivered[q]) |-> delivered[q][i].idx]]

\* Indices of p's messages of which some copy still exists: queued, in a
\* ledger entry, in a datagram in flight, buffered or delivered by the peer.
HeldIdx(p) ==
    {m.idx : m \in UNION {ToSet(queue[p][k]) : k \in Kinds}
                   \cup UNION {ToSet(ledger[p][s].msgs) : s \in DOMAIN ledger[p]}
                   \cup UNION {ToSet(x.msgs) : x \in {y \in net : y.src = p}}
                   \cup orderBuf[Other(p)] \cup ToSet(delivered[Other(p)])}

\* A sent message no copy of which exists any more can never arrive.
LostIdx == [p \in Peers |-> LET held == HeldIdx(p)
                            IN  {i \in 1..sentMsgs[p] : i \notin held}]

\* The channel lasts while both connections are open.
ChannelOpen == \A p \in Peers : Open(p)

Channel == INSTANCE ReliableChannel
               WITH sent <- sentMsgs, got <- GotIdx, lost <- LostIdx,
                    open <- ChannelOpen

\* The two connections implement the abstract channel: every step of send,
\* send_packet and receive_packet, under duplication, reordering and
\* skipped ticks, is a step of ReliableChannel or leaves its state alone,
\* so only Instant messages are ever lost, a message arrives only after it
\* was sent, and the Ordered ones arrive in send order without a gap.
ImplementsReliableChannel == Channel!Spec

=============================================================================

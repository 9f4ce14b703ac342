------------------------------ MODULE AckField ------------------------------
(***************************************************************************)
(* The acknowledgment part of the packet header: the remote sequence a     *)
(* packet confirms and the bitfield whose bit i says that remote sequence  *)
(* ack-1-i was received too (spec 3 and 4.5).  send_packet encodes the     *)
(* receiver's window into it; receive_packet decodes it against every      *)
(* ledger entry.  Size is 256 and Window 32 in the code.                   *)
(***************************************************************************)
EXTENDS Integers

CONSTANTS Size, Window

ASSUME Size \in Nat /\ Window \in 1..(Size \div 2)

LOCAL Seq == INSTANCE SeqArith

\* receive_packet: the newest remote sequence after receiving sequence r.
NewRemote(remote, r) == IF Seq!MoreRecent(r, remote) THEN r ELSE remote

\* receive_packet: the received sequences kept for the bitfield, those
\* within Window behind the newest one.
NewReceived(remote, received, r) ==
    {x \in received \cup {r} : Seq!Dist(x, NewRemote(remote, r)) <= Window}

\* send_packet: the bitfield for remote sequence ack and the set of remote
\* sequences received (bit i set when ack-1-i is among them).
Encode(ack, received) ==
    {i \in 0..(Window - 1) : (ack - 1 - i) % Size \in received}

\* Faulty variant of Acks: bit i read as sequence ack-i instead of ack-1-i.
AcksShifted(ack, bits, s) ==
    \/ s = ack
    \/ LET i == (ack - s) % Size IN i < Window /\ i \in bits

\* receive_packet: does a header with this ack and bitfield acknowledge
\* local sequence s?  It does when s = ack, or when
\* 0 <= (ack - s - 1) mod Size < Window and that bit is set.
Acks(ack, bits, s) ==
    \/ s = ack
    \/ LET i == (ack - s - 1) % Size IN i < Window /\ i \in bits

=============================================================================

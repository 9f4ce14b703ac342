----------------------------- MODULE MCAckField -----------------------------
(***************************************************************************)
(* Reference check of the acknowledgment header: a receiver takes packets  *)
(* of any sequence in any order (loss, duplication, reordering, distances  *)
(* up to and beyond half the space); in every window it reaches, decoding  *)
(* the header send_packet encodes acknowledges exactly the received        *)
(* sequences, across the wrap of the sequence space.                       *)
(***************************************************************************)
EXTENDS AckField

VARIABLES remote, received

\* A fresh connection: remote sequence 0, nothing received.
Init == remote = 0 /\ received = {}

\* receive_packet of a packet with any sequence r.
Next == \E r \in 0..(Size - 1) :
            /\ remote' = NewRemote(remote, r)
            /\ received' = NewReceived(remote, received, r)

Spec == Init /\ [][Next]_<<remote, received>>

\* The header built by send_packet from (remote, received) acknowledges, in
\* receive_packet, the sequence it names and exactly the received ones:
\* no received sequence goes unacknowledged (it would be re-sent as lost)
\* and none that was not received is acknowledged (its messages would be
\* dropped from the ledger undelivered).
AckRoundTrip ==
    \A s \in 0..(Size - 1) :
        Acks(remote, Encode(remote, received), s) <=> s \in received \cup {remote}

=============================================================================

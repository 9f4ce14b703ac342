--------------------------- MODULE MCConnection ----------------------------
(* Model-checking instance of Connection with two endpoints a and b.       *)
(* In every script only a's application sends; b's packets are heartbeats *)
(* that carry acknowledgments, which is all the reliability machinery     *)
(* needs from the opposite direction.                                      *)
EXTENDS Connection

CONSTANTS a, b

\* Two Ordered messages: enough for reordering, buffering and gaps.
MCScript == (a :> <<"Ordered", "Ordered">>) @@ (b :> <<>>)

\* One Reliable message: retransmission and acknowledgment of one packet.
MCReliableScript == (a :> <<"Reliable">>) @@ (b :> <<>>)

\* A burst of Ordered messages as long as the order_seq space: more than
\* half of it can be outstanding at once.
MCBurstScript == (a :> <<"Ordered", "Ordered", "Ordered", "Ordered">>) @@ (b :> <<>>)

\* An Instant message first, so that with one message to a packet the
\* first packet, which a peer's start-up ack may credit, never carries a
\* Reliable or Ordered one; then an Ordered message.
MCMixedScript == (a :> <<"Instant", "Ordered">>) @@ (b :> <<>>)

\* An Instant message, then two Ordered ones: as MCMixedScript, and the
\* second Ordered message can arrive ahead of the first and be buffered.
MCMixedPairScript == (a :> <<"Instant", "Ordered", "Ordered">>) @@ (b :> <<>>)

\* No application messages: the connections only heartbeat, ack and close.
MCSilentScript == (a :> <<>>) @@ (b :> <<>>)

=============================================================================

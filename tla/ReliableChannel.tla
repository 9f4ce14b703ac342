--------------------------- MODULE ReliableChannel ---------------------------
(***************************************************************************)
(* What a cobalt connection promises its two applications (spec 1, 4.3,    *)
(* 4.4), without packets, sequences, acks or time: each endpoint's         *)
(* application sends the messages of its script in order; the peer's       *)
(* application receives some of them.  Instant messages may be lost;       *)
(* Reliable and Ordered ones are never lost; Ordered ones are received in  *)
(* the order they were sent with no gap.  Only the first receipt of a      *)
(* message is recorded, so the channel says nothing about duplicates.      *)
(* The channel may end (a connection is Lost or Closed); until it does,    *)
(* every message sent is eventually received or, if Instant, lost.        *)
(***************************************************************************)
EXTENDS Naturals, Sequences, SequencesExt, FiniteSets, Functions

CONSTANTS Peers, Script

VARIABLES
    sent,   \* sent[p]: how many messages of its script p's application sent
    got,    \* got[q]: indices of the peer's messages q received, in order
    lost,   \* lost[p]: indices of p's messages that will never arrive
    open    \* the channel has not ended

vars == <<sent, got, lost, open>>

Peer(p) == CHOOSE q \in Peers : q # p

\* A receipt history of q is possible: every message at most once, only
\* messages already sent, and the Ordered ones exactly the first ones sent.
Possible(q, g) ==
    LET p  == Peer(q)
        os == SelectSeq([j \in 1..Len(Script[p]) |-> j],
                        LAMBDA j : Script[p][j] = "Ordered")
    IN  /\ IsInjective(g)
        /\ Range(g) \subseteq 1..sent[p]
        /\ IsPrefix(SelectSeq(g, LAMBDA j : Script[p][j] = "Ordered"), os)

Init ==
    /\ sent = [p \in Peers |-> 0]
    /\ got  = [q \in Peers |-> <<>>]
    /\ lost = [p \in Peers |-> {}]
    /\ open = TRUE

\* p's application sends its next message.
Send(p) ==
    /\ sent[p] < Len(Script[p])
    /\ sent' = [sent EXCEPT ![p] = @ + 1]
    /\ UNCHANGED <<got, lost, open>>

\* q's application receives one or more messages not lost.
Receive(q) ==
    /\ UNCHANGED <<sent, lost, open>>
    /\ LET old == got[q]
           new == got'[q]
       IN  /\ IsStrictPrefix(old, new)
           /\ Range(new) \cap lost[Peer(q)] = {}
           /\ Possible(q, new)
    /\ \A r \in Peers \ {q} : got'[r] = got[r]

\* Instant messages of p that have not arrived are lost.
Lose(p) ==
    /\ UNCHANGED <<sent, got, open>>
    /\ LET old == lost[p]
           new == lost'[p]
       IN  /\ old \subseteq new /\ new # old
           /\ new \subseteq {i \in 1..sent[p] : Script[p][i] = "Instant"}
                            \ Range(got[Peer(p)])
    /\ \A r \in Peers \ {p} : lost'[r] = lost[r]

\* The channel ends; messages may still be sent and received, but nothing
\* more is promised about their arrival.
End ==
    /\ open
    /\ open' = FALSE
    /\ UNCHANGED <<sent, got, lost>>

Next == End \/ \E p \in Peers : Send(p) \/ Receive(p) \/ Lose(p)

Spec == Init /\ [][Next]_vars

\* While the channel lasts, every message sent is eventually settled: the
\* peer receives it, or it is an Instant message that is lost.  Nothing
\* is held back for ever.
Settled ==
    \A p \in Peers : \A i \in 1..Len(Script[p]) :
        i <= sent[p] ~> (i \in Range(got[Peer(p)]) \/ i \in lost[p] \/ ~open)

=============================================================================

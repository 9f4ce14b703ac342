------------------------------ MODULE SeqArith ------------------------------
(***************************************************************************)
(* Wrap-around sequence arithmetic of the connection engine: local packet  *)
(* sequences and per-channel order sequences are u8 counters compared      *)
(* modulo 256 ("a is more recent than b" when the forward distance from b  *)
(* to a is non-zero and at most half the space).  Size is 256 in the code; *)
(* models instantiate it smaller.                                          *)
(***************************************************************************)
EXTENDS Integers

CONSTANT Size

ASSUME Size \in Nat /\ Size >= 2 /\ Size % 2 = 0

\* The forward distance from b to a, i.e. how many increments lead b to a.
Dist(b, a) == (a - b) % Size

\* a is more recent than b in the 256-modular order.
MoreRecent(a, b) == Dist(b, a) # 0 /\ Dist(b, a) <= Size \div 2

\* Faulty variant of Succ: the increment does not wrap.
SuccNoWrap(a) == a + 1

\* The successor of a sequence number: the u8 increment that wraps at 256.
Succ(a) == (a + 1) % Size

=============================================================================

----------------------------- MODULE MCServer ------------------------------
(* Model-checking instance of Server: two connection ids, two client      *)
(* addresses (so a client can move) and one malformed datagram kind.      *)
EXTENDS Server

CONSTANTS i1, i2, x1, x2, noid

=============================================================================

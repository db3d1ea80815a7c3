-------------------------- MODULE MCPeerConnection --------------------------
(* Two peers for TLC: the offer of a has the lower hash. *)
EXTENDS PeerConnection

CONSTANTS a, b

HashOf == [p \in {a, b} |-> IF p = a THEN 1 ELSE 2]

(* Bound: candidates and a renegotiation are not explored together. *)
Few == renegotiated > 0 => \A p \in Peer : found[p] = 0
=============================================================================

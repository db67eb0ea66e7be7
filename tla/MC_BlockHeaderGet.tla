------------------------- MODULE MC_BlockHeaderGet -------------------------
(* Two peers, three hashes of which the storage knows two, and three       *)
(* RequestIds: one peer can hold a live lookup next to a stale one while   *)
(* the other peer has its own lookup in flight.  Safety and liveness are   *)
(* checked in one run, so symmetry is not used.                            *)
EXTENDS BlockHeaderGet, TLC

CONSTANTS p1, p2

MCPeers == {p1, p2}
MCHashes == 1..3
MCKnown == {1, 2}
MCRequestIds == 1..3

(* The starvation run: one peer, whose reconnects still leave a stale     *)
(* lookup behind.                                                          *)
MCOnePeer == {p1}
MCFewRequestIds == 1..2
=============================================================================

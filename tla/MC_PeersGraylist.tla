------------------------- MODULE MC_PeersGraylist -------------------------
(* Two IPs with two ports each, so that a second connection of a           *)
(* graylisted IP can offend again inside the window.                       *)
EXTENDS PeersGraylist

CONSTANTS i1, i2

MCIPs == {i1, i2}
MCPorts == {1, 2}
MCSymmetry == Permutations(MCIPs)
=============================================================================

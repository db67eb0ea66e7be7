--------------------------- MODULE MC_KeyEncoding ---------------------------
(* Stand-ins for the crypto crate's prefixes and sizes, shaped like the    *)
(* real ones: the prefixes of one enum have one length, some share their   *)
(* leading bytes (sppk and p2pk, all of mv1..mv4), and the hash sizes of   *)
(* PublicKey differ between curves (32, 33, 33, 48 bytes) while those of   *)
(* PublicKeyHash are all one (20 bytes).  Inputs are every byte string of  *)
(* up to four bytes, enough for a tag, the longest hash and a byte left    *)
(* over, or a prefix and the longest hash.                                 *)
EXTENDS KeyEncoding

MCBytes == 0..4

MCPkPrefix ==
    [c \in Curve |-> CASE c = "Ed25519" -> <<1, 0>>
                       [] c = "Secp256k1" -> <<2, 1>>
                       [] c = "P256" -> <<2, 2>>
                       [] c = "Bls" -> <<3, 0>>]
MCPkSize ==
    [c \in Curve |-> IF c = "Ed25519" THEN 1 ELSE 2]

MCPkhPrefix ==
    [c \in Curve |-> <<0, Tag(c) + 1>>]
MCPkhSize ==
    [c \in Curve |-> 1]

MCDigest(h) == <<h[Len(h)]>>
=============================================================================

------------------------------ MODULE KeyEncoding ------------------------------
(***************************************************************************)
(* The Layer-1 key types of the crypto crate, public_key.rs and            *)
(* public_key_hash.rs, and the hash codecs of hash/encoding.rs.            *)
(*                                                                         *)
(* A PublicKey or PublicKeyHash is one of four curve variants, each        *)
(* wrapping a fixed-size hash.  Its base58check form is the variant's       *)
(* prefix followed by the hash bytes; from_b58check decodes the string,     *)
(* picks the first variant whose prefix the bytes start with, and hands    *)
(* the string to that hash type's own from_b58check.  Its binary form is   *)
(* the derived enum encoding: a tag byte in declaration order, then the    *)
(* hash's bytes (encode_hash!); reading takes hash_size bytes and unwraps  *)
(* try_from_bytes (hash_nom_reader!).                                      *)
(*                                                                         *)
(* Base58check, the hash types' prefixes and sizes, and the digest of      *)
(* pk_hash live in the crypto crate's hash module, outside the repository: *)
(* a base58check string is abstracted to its payload and whether its       *)
(* checksum holds, the prefixes and sizes are CONSTANTS, and the digest a  *)
(* constant operator.                                                      *)
(*                                                                         *)
(* The specification is a harness: each step calls one of the conversions *)
(* on an input and records what it returned.                               *)
(***************************************************************************)
EXTENDS Naturals, SequencesExt

CONSTANTS
    Bytes,          \* the byte values inputs are drawn from
    MaxLen,         \* the longest input
    PkPrefix,       \* [Curve -> prefix] of PublicKeyEd25519 .. PublicKeyBls
    PkSize,         \* [Curve -> hash_size] of the same
    PkhPrefix,      \* [Curve -> prefix] of ContractMv1Hash .. ContractMv4Hash
    PkhSize,        \* [Curve -> hash_size] of the same
    Digest(_)       \* the hash bytes of a public key's pk_hash

VARIABLES
    op,             \* the conversion last called
    in,             \* its input
    out             \* what it returned

vars == <<op, in, out>>

-----------------------------------------------------------------------------
(* The variants in declaration order; the derived encoding's tag of the    *)
(* i-th is i - 1.                                                          *)
Curves == <<"Ed25519", "Secp256k1", "P256", "Bls">>
Curve == {Curves[i] : i \in 1..Len(Curves)}
Tag(c) == CHOOSE t \in 0..(Len(Curves) - 1) : Curves[t + 1] = c

(* Result::Ok and Result::Err, as functions of their field names (equal  *)
(* to the records [ok, val] and [ok, err]).                                *)
Ok(v) == [f \in {"ok", "val"} |-> IF f = "ok" THEN TRUE ELSE v]
Err(e) == [f \in {"err", "ok"} |-> IF f = "ok" THEN FALSE ELSE e]

Key(c, h) == [curve |-> c, hash |-> h]

(* enum PublicKey / enum PublicKeyHash: a variant and its hash.            *)
Keys(size) == UNION {{Key(c, h) : h \in [1..size[c] -> Bytes]} : c \in Curve}
PublicKeys == Keys(PkSize)
PublicKeyHashes == Keys(PkhSize)

(* A base58check string: its payload, and whether its checksum holds.     *)
B58Strings == [payload : SeqOf(Bytes, MaxLen), sum : BOOLEAN]

(* The crypto crate's base58check and the hash types' b58check codecs,    *)
(* which check the prefix and the length.                                 *)
from_base58check(s) == IF s.sum THEN Ok(s.payload) ELSE Err("InvalidChecksum")

HashFromB58(prefix, size, s) ==
    LET r == from_base58check(s) IN
    CASE ~r.ok -> r
      [] ~IsPrefix(prefix, r.val) -> Err("IncorrectBase58Prefix")
      [] Len(r.val) # Len(prefix) + size -> Err("MismatchedLength")
      [] OTHER -> Ok(SubSeq(r.val, Len(prefix) + 1, Len(r.val)))

HashToB58(prefix, h) == [payload |-> prefix \o h, sum |-> TRUE]

(* The first variant, in the order of the if-else chain, whose prefix the *)
(* decoded bytes start with; 0 if none.                                    *)
FirstMatch(prefix, bytes) ==
    LET hits == {i \in 1..Len(Curves) : IsPrefix(prefix[Curves[i]], bytes)} IN
    IF hits = {} THEN 0 ELSE CHOOSE i \in hits : \A j \in hits : i <= j

(* from_b58check of either enum: the ? on base58check, the dispatch, and  *)
(* the ? on the chosen hash type's own from_b58check.                      *)
FromB58Check(prefix, size, s) ==
    LET r == from_base58check(s)
        i == FirstMatch(prefix, r.val)
        h == HashFromB58(prefix[Curves[i]], size[Curves[i]], s)
    IN CASE ~r.ok -> r
         [] i = 0 -> Err("InvalidBase58")
         [] ~h.ok -> h
         [] OTHER -> Ok(Key(Curves[i], h.val))

PublicKey_from_b58check(s) == FromB58Check(PkPrefix, PkSize, s)
PublicKeyHash_from_b58check(s) == FromB58Check(PkhPrefix, PkhSize, s)

PublicKey_to_b58check(k) == HashToB58(PkPrefix[k.curve], k.hash)

(* A fault: the P256 arm printing with the Mv2 hash type's prefix.        *)
ToB58CopyPaste(k) ==
    HashToB58(PkhPrefix[IF k.curve = "P256" THEN "Secp256k1" ELSE k.curve], k.hash)

PublicKeyHash_to_b58check(k) == HashToB58(PkhPrefix[k.curve], k.hash)

(* PublicKeyWithHash::pk_hash: the hash of the same curve.                 *)
pk_hash(k) == Key(k.curve, Digest(k.hash))

-----------------------------------------------------------------------------
(* encode_hash!: a hash is written as its bytes (put_bytes); the derived  *)
(* enum writer puts the tag byte first.                                    *)
HashBinWrite(h) == h
bin_write(k) == <<Tag(k.curve)>> \o HashBinWrite(k.hash)

(* A fault: take one byte short of hash_size.                              *)
HashNomReadShort(size, input) ==
    IF Len(input) < size - 1 THEN Err("Incomplete")
    ELSE LET bytes == SubSeq(input, 1, size - 1) IN
         IF Len(bytes) = size
         THEN Ok([rest |-> SubSeq(input, size, Len(input)), val |-> bytes])
         ELSE Err("Panic")

(* hash_nom_reader!: take(hash_size) fails on a short input; the bytes it *)
(* takes go to try_from_bytes, whose length check the unwrap turns into a *)
(* panic if it ever fails.                                                 *)
HashNomRead(size, input) ==
    IF Len(input) < size THEN Err("Incomplete")
    ELSE LET bytes == SubSeq(input, 1, size) IN
         IF Len(bytes) = size
         THEN Ok([rest |-> SubSeq(input, size + 1, Len(input)), val |-> bytes])
         ELSE Err("Panic")

(* The derived enum reader: the tag byte selects the variant, an unknown  *)
(* tag or an empty input is an error.                                      *)
NomRead(size, b) ==
    IF b = <<>> \/ b[1] \notin 0..(Len(Curves) - 1) THEN Err("InvalidTag")
    ELSE LET c == Curves[b[1] + 1]
             r == HashNomRead(size[c], Tail(b))
         IN IF r.ok THEN Ok([key |-> Key(c, r.val.val), rest |-> r.val.rest]) ELSE r

-----------------------------------------------------------------------------
Init ==
    /\ op = "none"
    /\ in = <<>>
    /\ out = <<>>

Call(o, i, res) == op' = o /\ in' = i /\ out' = res

Next ==
    \/ \E s \in B58Strings : Call("pk_from_b58check", s, PublicKey_from_b58check(s))
    \/ \E s \in B58Strings : Call("pkh_from_b58check", s, PublicKeyHash_from_b58check(s))
    \/ \E k \in PublicKeys : Call("pk_to_b58check", k, PublicKey_to_b58check(k))
    \/ \E k \in PublicKeyHashes : Call("pkh_to_b58check", k, PublicKeyHash_to_b58check(k))
    \/ \E k \in PublicKeys : Call("pk_hash", k, pk_hash(k))
    \/ \E k \in PublicKeys : Call("pk_bin_write", k, bin_write(k))
    \/ \E k \in PublicKeyHashes : Call("pkh_bin_write", k, bin_write(k))
    \/ \E b \in SeqOf(Bytes, MaxLen) : Call("pk_nom_read", b, NomRead(PkSize, b))
    \/ \E b \in SeqOf(Bytes, MaxLen) : Call("pkh_nom_read", b, NomRead(PkhSize, b))

Spec == Init /\ [][Next]_vars

-----------------------------------------------------------------------------
(* The mvN_b58check tests of public_key.rs and public_key_hash.rs, for     *)
(* every key and every string: a key printed by to_b58check is read back   *)
(* by from_b58check as the same variant and hash, a string from_b58check   *)
(* accepts is the one to_b58check prints for what it returned (no second   *)
(* spelling of a key is accepted), and the pk_hash of a key, printed and   *)
(* read back, is a hash of the key's own curve (the pk_hash test).         *)
KeysSurviveB58 ==
    /\ op = "pk_to_b58check" => PublicKey_from_b58check(out) = Ok(in)
    /\ op = "pkh_to_b58check" => PublicKeyHash_from_b58check(out) = Ok(in)
    /\ op = "pk_from_b58check" /\ out.ok => PublicKey_to_b58check(out.val) = in
    /\ op = "pkh_from_b58check" /\ out.ok => PublicKeyHash_to_b58check(out.val) = in
    /\ op = "pk_hash" =>
          PublicKeyHash_from_b58check(PublicKeyHash_to_b58check(out)) = Ok(Key(in.curve, out.hash))

(* The mvN_encoding tests, for every input: bin_write starts with the      *)
(* variant's tag (0 for Ed25519 up to 3 for Bls) and nom_read gives the    *)
(* key back with nothing left over; and nom_read of any bytes returns the  *)
(* one key whose encoding they start with and the bytes after it, or a     *)
(* typed error, never the panic of hash_nom_reader!'s unwrap.              *)
NomReadMatchesReference ==
    LET size == IF op \in {"pk_bin_write", "pk_nom_read"} THEN PkSize ELSE PkhSize
        keys == IF op = "pk_nom_read" THEN PublicKeys ELSE PublicKeyHashes
        parses == {k \in keys : IsPrefix(bin_write(k), in)}
    IN
    /\ op \in {"pk_bin_write", "pkh_bin_write"} =>
          out[1] = Tag(in.curve) /\ NomRead(size, out) = Ok([key |-> in, rest |-> <<>>])
    /\ op \in {"pk_nom_read", "pkh_nom_read"} =>
          IF parses = {}
          THEN ~out.ok /\ out.err # "Panic"
          ELSE \E k \in parses :
                  /\ parses = {k}
                  /\ out = Ok([key |-> k, rest |-> SubSeq(in, Len(bin_write(k)) + 1, Len(in))])

=============================================================================

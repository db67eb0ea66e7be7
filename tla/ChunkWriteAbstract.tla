-------------------------- MODULE ChunkWriteAbstract --------------------------
(***************************************************************************)
(* What the chunk writer of one connection promises (spec §4.1, §5): the   *)
(* contents handed to it reach the wire as whole chunks, one at a time, in *)
(* the order given; an encrypted chunk carries the next send nonce from    *)
(* the handshake's seed, and none is sent once the nonces are exhausted;  *)
(* after a failure nothing more is sent, since this layer never retries.   *)
(***************************************************************************)
EXTENDS Naturals, Sequences, FiniteSets

CONSTANTS
    Outbox,         \* the contents to send, in order: [data, enc]
    NonceSpace,     \* nonces 0..NonceSpace-1 exist
    Seeds,          \* the send nonces a handshake may agree on
    NoNonce         \* the nonce field of an unencrypted chunk

VARIABLES
    sent,           \* the whole chunks on the wire, in order
    failed,         \* the writer has failed
    seed            \* the first send nonce

vars == <<sent, failed, seed>>

(* The number of encrypted contents before the k-th.                       *)
EncBefore(k) == Cardinality({j \in 1..(k - 1) : Outbox[j].enc})

(* The chunk the k-th content becomes.                                     *)
ChunkOf(k) ==
    [data |-> Outbox[k].data,
     nonce |-> IF Outbox[k].enc THEN seed + EncBefore(k) ELSE NoNonce]

Init ==
    /\ sent = <<>>
    /\ failed = FALSE
    /\ seed \in Seeds

(* The next content goes out as one whole chunk.                           *)
Send ==
    LET k == Len(sent) + 1 IN
    /\ ~failed
    /\ k <= Len(Outbox)
    /\ Outbox[k].enc => ChunkOf(k).nonce < NonceSpace
    /\ sent' = Append(sent, ChunkOf(k))
    /\ UNCHANGED <<failed, seed>>

(* A write error, or the nonces running out: terminal.                     *)
Fail ==
    /\ ~failed
    /\ failed' = TRUE
    /\ UNCHANGED <<sent, seed>>

Next == Send \/ Fail

Spec == Init /\ [][Next]_vars

=============================================================================

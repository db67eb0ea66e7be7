------------------------------ MODULE ChunkWrite ------------------------------
(***************************************************************************)
(* The chunk writer of one connection (shell_automaton peer/chunk/write):  *)
(* the actions of peer_chunk_write_actions.rs, each applied by the         *)
(* reducer as spec §4.1 describes:                                         *)
(*   Idle -> SetContent -> EncryptContent (if encrypted) -> CreateChunk    *)
(*        -> WritingPart(offset) ... -> Ready,                             *)
(* and Error, terminal, on a write error or when the send nonces run out.  *)
(*                                                                         *)
(* Every action's EnablingCondition in the code returns true; the guards *)
(* of all six actions here are §4.1's, SetContent's included (enabled     *)
(* only once the previous chunk has fully drained).  The reducer, the     *)
(* dispatcher and the effects are not in the repository; the transitions  *)
(* are §4.1's.                                                             *)
(*                                                                         *)
(* A content is [data, enc]; a chunk is [data, nonce], nonce NoNonce when *)
(* it is sent in the clear; the wire is a sequence of units, each the     *)
(* chunk it belongs to and its position in the chunk's ChunkLen units     *)
(* (the length prefix and the content bytes).                              *)
(***************************************************************************)
EXTENDS Naturals, Sequences

CONSTANTS
    Outbox,         \* the contents the connection sends, in order
    ChunkLen,       \* units in one framed chunk
    NonceSpace,     \* send nonces 0..NonceSpace-1 exist
    Seeds,          \* the send nonces a handshake may agree on
    NoNonce,        \* nonce field of a chunk sent in the clear
    NoChunk,        \* no chunk built yet
    Garbage         \* what a reader makes of units that are not one chunk

ASSUME ChunkLen \in Nat \ {0}

VARIABLES
    wstate,         \* PeerChunkWriteState: [kind, item, chunk, offset]
    nonce,          \* WriteCrypto's next send nonce
    seed,           \* the handshake's first send nonce
    next,           \* contents handed to SetContent so far
    wire            \* the units written to the socket

vars == <<wstate, nonce, seed, next, wire>>

-----------------------------------------------------------------------------
State(kind, item, chunk, offset) ==
    [kind |-> kind, item |-> item, chunk |-> chunk, offset |-> offset]

ErrorState == State("Error", 0, NoChunk, 0)

(* The nonce after one encryption; NonceSpace means none is left.          *)
IncrementNonce(n) == n + 1

(* A fault: the offset of the rest not kept: it becomes the byte count of *)
(* the last write.                                                         *)
ResetOffset(off, written) == written

(* The offset of the unwritten rest after a write of `written` units.      *)
KeptOffset(off, written) == off + written

(* The byte counts a non-blocking write of the rest of a chunk may report. *)
PartSizes(off) == 1..(ChunkLen - off)

(* A fault: the chunk taken as flushed one unit late.                      *)
DrainedOffByOne(off) == off = ChunkLen + 1

(* The whole framed chunk has been written.                                *)
Drained(off) == off = ChunkLen

(* §4.1: the previous chunk has fully drained, or none was ever written.   *)
WriterFree == wstate.kind \in {"Idle", "Ready"}

-----------------------------------------------------------------------------
Init ==
    /\ wstate = State("Idle", 0, NoChunk, 0)
    /\ seed \in Seeds
    /\ nonce = seed
    /\ next = 0
    /\ wire = <<>>

(* PeerChunkWriteSetContentAction: the next content to send.  A torn-down *)
(* connection (after Error) gets no more actions.                          *)
SetContent ==
    /\ wstate.kind # "Error"
    /\ next < Len(Outbox)
    /\ WriterFree
    /\ wstate' = State("SetContent", next + 1, NoChunk, 0)
    /\ next' = next + 1
    /\ UNCHANGED <<nonce, seed, wire>>

(* PeerChunkWriteEncryptContentAction: the content is sealed with the     *)
(* next send nonce, which is consumed; with none left the writer fails.    *)
EncryptContent ==
    /\ wstate.kind = "SetContent"
    /\ Outbox[wstate.item].enc
    /\ IF nonce < NonceSpace
       THEN /\ wstate' = State("EncryptContent", wstate.item,
                               [data |-> Outbox[wstate.item].data, nonce |-> nonce], 0)
            /\ nonce' = IncrementNonce(nonce)
       ELSE /\ wstate' = ErrorState
            /\ UNCHANGED nonce
    /\ UNCHANGED <<seed, next, wire>>

(* PeerChunkWriteCreateChunkAction: the (sealed or clear) content framed.  *)
CreateChunk ==
    /\ \/ wstate.kind = "SetContent" /\ ~Outbox[wstate.item].enc
       \/ wstate.kind = "EncryptContent"
    /\ wstate' = State("CreateChunk", wstate.item,
                       IF wstate.kind = "EncryptContent" THEN wstate.chunk
                       ELSE [data |-> Outbox[wstate.item].data, nonce |-> NoNonce], 0)
    /\ UNCHANGED <<nonce, seed, next, wire>>

(* PeerChunkWritePartAction{written}: a non-blocking write took `written`  *)
(* more units of the chunk; the offset of the rest is kept.                *)
Part(written) ==
    /\ wstate.kind \in {"CreateChunk", "WritingPart"}
    /\ written \in PartSizes(wstate.offset)
    /\ wire' = wire \o [i \in 1..written |->
                          [chunk |-> wstate.chunk, pos |-> wstate.offset + i]]
    /\ wstate' = [wstate EXCEPT !.kind = "WritingPart", !.offset = KeptOffset(@, written)]
    /\ UNCHANGED <<nonce, seed, next>>

(* PeerChunkWriteErrorAction: the socket write failed; terminal.           *)
WriteError ==
    /\ wstate.kind \in {"CreateChunk", "WritingPart"}
    /\ wstate' = ErrorState
    /\ UNCHANGED <<nonce, seed, next, wire>>

(* PeerChunkWriteReadyAction: the chunk is flushed.                        *)
Ready ==
    /\ wstate.kind = "WritingPart"
    /\ Drained(wstate.offset)
    /\ wstate' = State("Ready", 0, NoChunk, 0)
    /\ UNCHANGED <<nonce, seed, next, wire>>

Next ==
    \/ SetContent
    \/ EncryptContent
    \/ CreateChunk
    \/ \E w \in 1..ChunkLen : Part(w)
    \/ WriteError
    \/ Ready

(* The control loop always dispatches the step each state calls for, and  *)
(* the peer keeps reading, so a socket with unwritten bytes becomes        *)
(* writable again.  A write error is never assumed to happen.              *)
Fairness ==
    /\ WF_vars(SetContent) /\ WF_vars(EncryptContent) /\ WF_vars(CreateChunk)
    /\ WF_vars(\E w \in 1..ChunkLen : Part(w))
    /\ WF_vars(Ready)

Spec == Init /\ [][Next]_vars /\ Fairness

-----------------------------------------------------------------------------
(* The reader's view of the wire: each ChunkLen units are one frame, the  *)
(* chunk they all belong to if they are its units in order, else Garbage. *)
Frames ==
    [k \in 1..(Len(wire) \div ChunkLen) |->
        LET f == SubSeq(wire, (k - 1) * ChunkLen + 1, k * ChunkLen) IN
        IF \A i \in 1..ChunkLen : f[i].chunk = f[1].chunk /\ f[i].pos = i
        THEN f[1].chunk ELSE Garbage]

ABS == INSTANCE ChunkWriteAbstract
           WITH sent <- Frames, failed <- (wstate.kind = "Error"), seed <- seed

(* §4.1 and §5: the writer implements the one-chunk-at-a-time contract:   *)
(* partial writes, resumed at the kept offset, leave whole chunks on the  *)
(* wire in content order, each encrypted one under the next nonce, and    *)
(* nothing follows a failure.                                              *)
ChunkWriteRefinement == ABS!Spec

(* §4.1: every content handed to the writer is eventually flushed, unless *)
(* the writer fails.                                                       *)
AllSentOrFailed ==
    <>(wstate.kind = "Error" \/ (next = Len(Outbox) /\ wstate.kind = "Ready"))

=============================================================================

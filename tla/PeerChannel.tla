------------------------------ MODULE PeerChannel ------------------------------
(***************************************************************************)
(* One direction of a peer connection, end to end: the chunk writer of     *)
(* ChunkWrite on one side, and on the other the chunk reader (spec §4.2)   *)
(* wrapped by the message reader, PeerMessageReadState (§4.3).             *)
(*                                                                         *)
(* The reader takes the writer's units off the wire in short reads: first  *)
(* the PrefixLen units of the length prefix, then as many content units   *)
(* as the prefix declares, then decrypts with its next receive nonce when  *)
(* the protocol phase says the chunk is sealed.  Units that are not one    *)
(* chunk's prefix declare a length of their own.  The decrypted contents  *)
(* are assembled into messages: the first part tells how many parts the   *)
(* message has (the codec's length hint), and once they are all there the  *)
(* message is decoded.  Both peers know which chunks of the exchange are   *)
(* sealed (Outbox[k].enc).  A content is [msg, part, parts].              *)
(*                                                                         *)
(* The chunk and message readers' reducers are not in the repository;      *)
(* their transitions are §4.2's and §4.3's, and the message read states    *)
(* are PeerMessageReadState's.                                             *)
(***************************************************************************)
EXTENDS ChunkWrite, SequencesExt

CONSTANTS
    PrefixLen,      \* units of the length prefix of a chunk
    NoContent       \* no decrypted content waiting

ASSUME PrefixLen \in 1..(ChunkLen - 1)

VARIABLES
    rstate,         \* chunk read: [kind, buf, decl, content]
    rnonce,         \* ReadCrypto's next receive nonce
    rpos,           \* units taken off the wire
    rcount,         \* chunks decrypted so far
    msg,            \* PeerMessageReadState: [kind, parts]
    delivered       \* the messages decoded, in order

rvars == <<rstate, rnonce, rpos, rcount, msg, delivered>>
allvars == <<vars, rvars>>

-----------------------------------------------------------------------------
ContentLen == ChunkLen - PrefixLen

ChunkRead(kind, buf, decl, content) ==
    [kind |-> kind, buf |-> buf, decl |-> decl, content |-> content]

Pending(parts) == [kind |-> "Pending", parts |-> parts]

(* The messages the writer's contents make up, in order.                   *)
Messages ==
    LET firsts == SelectSeq(Outbox, LAMBDA c : c.data.part = 1) IN
    [i \in 1..Len(firsts) |-> firsts[i].data.msg]

(* The buffered units are one chunk's first Len(buf) units, in order.      *)
FromOneChunk(buf) ==
    \A i \in 1..Len(buf) : buf[i].chunk = buf[1].chunk /\ buf[i].pos = i

(* The content length a complete prefix declares: a real prefix declares   *)
(* the chunk's, any other bytes some length, possibly more than will come. *)
DeclaredLens(prefix) ==
    IF FromOneChunk(prefix) THEN {ContentLen} ELSE 1..(ContentLen + 1)

(* A fault: the receive nonce not advanced after a decryption.             *)
RecvNonceKept(n) == n

(* The receive nonce after one decryption.                                 *)
NextRecvNonce(n) == n + 1

(* The bytes a chunk sent in the clear yields: its content if the frame    *)
(* is one whole clear chunk, else garbage.                                 *)
ClearContent(buf) ==
    IF FromOneChunk(buf) /\ Len(buf) = ChunkLen /\ buf[1].chunk.nonce = NoNonce
    THEN buf[1].chunk.data ELSE Garbage

(* The authentication check passes only for one whole chunk sealed under  *)
(* the expected nonce.                                                     *)
Authentic(buf, n) ==
    FromOneChunk(buf) /\ Len(buf) = ChunkLen /\ buf[1].chunk.nonce = n

(* The parts hold one message's parts 1..parts in order.                   *)
Decodes(parts) ==
    /\ \A i \in 1..Len(parts) : parts[i] # Garbage
    /\ \A i \in 1..Len(parts) :
          parts[i].msg = parts[1].msg /\ parts[i].part = i /\ parts[i].parts = Len(parts)

-----------------------------------------------------------------------------
ChannelInit ==
    /\ Init
    /\ rstate = ChunkRead("PendingSize", <<>>, 0, NoContent)
    /\ rnonce = seed
    /\ rpos = 0
    /\ rcount = 0
    /\ msg = Pending(<<>>)
    /\ delivered = <<>>

(* A short read of n units of the length prefix; a complete prefix sets    *)
(* the content length to await.                                            *)
ReadSize(n) ==
    /\ rstate.kind = "PendingSize"
    /\ n \in 1..Min({PrefixLen - Len(rstate.buf), Len(wire) - rpos})
    /\ LET buf == rstate.buf \o SubSeq(wire, rpos + 1, rpos + n) IN
       IF Len(buf) < PrefixLen
       THEN rstate' = [rstate EXCEPT !.buf = buf]
       ELSE \E d \in DeclaredLens(buf) : rstate' = ChunkRead("PendingBody", buf, d, NoContent)
    /\ rpos' = rpos + n
    /\ UNCHANGED <<vars, rnonce, rcount, msg, delivered>>

(* A short read of n content units; awaiting more than the wire holds is  *)
(* not an error.                                                           *)
ReadBody(n) ==
    /\ rstate.kind = "PendingBody"
    /\ n \in 1..Min({PrefixLen + rstate.decl - Len(rstate.buf), Len(wire) - rpos})
    /\ LET buf == rstate.buf \o SubSeq(wire, rpos + 1, rpos + n) IN
       rstate' = [rstate EXCEPT !.kind = IF Len(buf) = PrefixLen + rstate.decl
                                        THEN "Ready" ELSE "PendingBody",
                                !.buf = buf]
    /\ rpos' = rpos + n
    /\ UNCHANGED <<vars, rnonce, rcount, msg, delivered>>

(* The k-th chunk of the exchange is sealed; past the handshake all are.   *)
ExpectSealed(k) == k > Len(Outbox) \/ Outbox[k].enc

(* The complete chunk is opened: a sealed one is decrypted with the next  *)
(* receive nonce, which it consumes, and a failed check is fatal.          *)
Decrypt ==
    /\ rstate.kind = "Ready"
    /\ IF ExpectSealed(rcount + 1)
       THEN IF Authentic(rstate.buf, rnonce)
            THEN /\ rstate' = ChunkRead("Decrypted", <<>>, 0, rstate.buf[1].chunk.data)
                 /\ rnonce' = NextRecvNonce(rnonce)
            ELSE /\ rstate' = ChunkRead("Error", <<>>, 0, NoContent)
                 /\ UNCHANGED rnonce
       ELSE /\ rstate' = ChunkRead("Decrypted", <<>>, 0, ClearContent(rstate.buf))
            /\ UNCHANGED rnonce
    /\ UNCHANGED <<vars, rpos, rcount, msg, delivered>>

(* The message reader takes the content and the chunk reader starts on the *)
(* next chunk; with all the parts the hint asked for, the message is       *)
(* decoded: Success, or Error, terminal.                                   *)
MessagePart ==
    /\ rstate.kind = "Decrypted"
    /\ msg.kind = "Pending"
    /\ LET parts == Append(msg.parts, rstate.content) IN
       msg' = CASE parts[1] = Garbage -> [kind |-> "Error", parts |-> parts]
                [] Len(parts) < parts[1].parts -> Pending(parts)
                [] Decodes(parts) -> [kind |-> "Success", parts |-> parts]
                [] OTHER -> [kind |-> "Error", parts |-> parts]
    /\ rstate' = ChunkRead("PendingSize", <<>>, 0, NoContent)
    /\ rcount' = rcount + 1
    /\ UNCHANGED <<vars, rnonce, rpos, delivered>>

(* A fault: the message handed on but the reader never re-armed.           *)
MessageSuccessSticks == FALSE

(* Success{message} hands the message on and resets to Pending.            *)
MessageSuccess ==
    /\ msg.kind = "Success"
    /\ delivered' = Append(delivered, msg.parts[1].msg)
    /\ msg' = Pending(<<>>)
    /\ UNCHANGED <<vars, rstate, rnonce, rpos, rcount>>

(* The writer's side was torn down and everything it wrote has been read: *)
(* the next read returns zero bytes, end of stream, not a decode error.    *)
EndOfStream ==
    /\ wstate.kind = "Error"
    /\ rstate.kind \in {"PendingSize", "PendingBody"}
    /\ rpos = Len(wire)
    /\ rstate' = ChunkRead("Closed", <<>>, 0, NoContent)
    /\ UNCHANGED <<vars, rnonce, rpos, rcount, msg, delivered>>

WriterStep == Next /\ UNCHANGED rvars

ReaderStep ==
    \/ \E n \in 1..PrefixLen : ReadSize(n)
    \/ \E n \in 1..(ContentLen + 1) : ReadBody(n)
    \/ Decrypt
    \/ MessagePart
    \/ MessageSuccess
    \/ EndOfStream

ChannelNext == WriterStep \/ ReaderStep

(* The writer as in ChunkWrite; the reader is polled whenever the socket  *)
(* is readable, and the control loop dispatches each reader step.          *)
ChannelFairness ==
    /\ WF_allvars(SetContent /\ UNCHANGED rvars)
    /\ WF_allvars(EncryptContent /\ UNCHANGED rvars)
    /\ WF_allvars(CreateChunk /\ UNCHANGED rvars)
    /\ WF_allvars((\E w \in 1..ChunkLen : Part(w)) /\ UNCHANGED rvars)
    /\ WF_allvars(Ready /\ UNCHANGED rvars)
    /\ WF_allvars(\E n \in 1..PrefixLen : ReadSize(n))
    /\ WF_allvars(\E n \in 1..(ContentLen + 1) : ReadBody(n))
    /\ WF_allvars(Decrypt) /\ WF_allvars(MessagePart) /\ WF_allvars(MessageSuccess)
    /\ WF_allvars(EndOfStream)

ChannelSpec == ChannelInit /\ [][ChannelNext]_allvars /\ ChannelFairness

-----------------------------------------------------------------------------
(* §4.2, §4.3 and §6: what the writer sends, the reader takes apart again: *)
(* however the writes and reads are split, the reader never fails the      *)
(* authentication check, never fails to decode, and the messages it        *)
(* decodes are the writer's, in the writer's order.                        *)
ReaderAgreesWithWriter ==
    /\ rstate.kind # "Error"
    /\ msg.kind # "Error"
    /\ IsPrefix(delivered, Messages)

(* §4.3 and §7: every message the writer is given is eventually decoded by *)
(* the reader, unless the connection is torn down and the reader sees the  *)
(* end of the stream.                                                      *)
AllDelivered == <>(delivered = Messages \/ rstate.kind = "Closed")

=============================================================================

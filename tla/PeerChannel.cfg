\* Writer and reader of one direction, with §4.1's SetContent guard: the
\* writer's own contract and nonces, and what the reader makes of the wire.
\* Both stop once the outbox is read or the stream has ended, so deadlock is
\* not checked.
CONSTANTS
    Outbox <- MCOutbox
    Seeds <- MCSeeds
    ChunkLen = 4
    PrefixLen = 2
    NonceSpace = 3
    NoNonce = NoNonce
    NoChunk = NoChunk
    NoContent = NoContent
    Garbage = Garbage
SPECIFICATION ChannelSpec
INVARIANTS ReaderAgreesWithWriter
PROPERTIES ChunkWriteRefinement AllSentOrFailed AllDelivered
CHECK_DEADLOCK FALSE

CONSTANTS
    p1 = p1
    p2 = p2
    Peers <- MCPeers
    Hashes <- MCHashes
    Known <- MCKnown
    RequestIds <- MCRequestIds
    NoHeader = NoHeader
    NoHash = NoHash
    NoReq = NoReq
SPECIFICATION Spec
INVARIANTS
    NotQueuedAndCurrent
    AnswerMatchesRequest
    OneLookupPerConnection
PROPERTY LookupResolves

CONSTANTS
    p1 = p1
    p2 = p2
    Peers <- MCOnePeer
    Hashes <- MCHashes
    Known <- MCKnown
    RequestIds <- MCFewRequestIds
    NoHeader = NoHeader
    NoHash = NoHash
    NoReq = NoReq
SPECIFICATION Spec
PROPERTY RequestAnswered

CONSTANTS
    Bytes <- MCBytes
    MaxLen = 4
    PkPrefix <- MCPkPrefix
    PkSize <- MCPkSize
    PkhPrefix <- MCPkhPrefix
    PkhSize <- MCPkhSize
    Digest <- MCDigest
SPECIFICATION Spec
INVARIANTS
    KeysSurviveB58
    NomReadMatchesReference

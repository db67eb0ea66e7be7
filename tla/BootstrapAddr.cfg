CONSTANTS
    MaxLen = 6
    DefaultPort = 5
SPECIFICATION Spec
INVARIANTS
    ParserMatchesReference
\* A complete input string has no successor: the harness stops there.
CHECK_DEADLOCK FALSE

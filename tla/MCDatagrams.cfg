CONSTANTS
    Nonces <- MCNonces
    NoNonce = 0
    Bits <- MCBits
    Hash <- MCHash
    NumEntries = 5
    MaxAccepted = 9
SPECIFICATION DSpec
INVARIANTS RingInv OnlyDatagramsCounted
PROPERTIES WindowSpec FreshNonceUsed

SPECIFICATION CommandSpec
CONSTANTS
    CharBits = 2
    ByteBits = 3
    AddrBytes = 3
    SumBytes = 2
    HiBytes = 2
    LoBytes = 1
    GpuMaxPrefix = 3
    GpuMaxSuffix = 4
    MaxTargets = 3
    Checksum <- MCChecksum
    Dots = Dots
    Ellipsis = Ellipsis
    Dash = Dash
    Other = Other
    ByteWidth = 2
    WordWidth = 3
    BufferWidth = 8
    KeyBytes = 5
    HashHead <- MCHashHead
    NoWord = NoWord
    Calls <- MCCalls
    Unset = Unset
    Malformed = Malformed
    KeygenFails <- MCKeygenFails
    CanonicalSalt <- MCCanonicalSalt
    Addresses <- MCAddresses
INVARIANTS
    CommandTypeOK
    MatchersAgree
    ListMeansOptions
    MnemonicExact

\* Decoding the text of an extended address fails its checksum.
CONSTANTS
    P = 11
    Gen = 2
    PrivKeys = {1, 2, 3, 4, 5, 6}
    ChainCodes = {0, 1, 2}
    Indices = {0, 1, 2}
    Sha512Left <- MCSha512Left
    Sha512Right <- MCSha512Right
    CheckBits = 2
    hash64 <- MCHash64
    PACKED_SIZE = 65
    SIZEOF_THIS = 40
SPECIFICATION Spec
INVARIANT AddressRoundTrip

CONSTANTS
    Values = 4
    KeyBytes = 2
    Keys <- MCKeys
    Plaintexts <- MCPlaintexts
    Nothing = Nothing
    Randoms <- MCRandoms
    Compress <- MCCompress
    Uncompress <- MCUncompress
    Checksum <- MCChecksum
    ChecksumSize = 2
    Hash <- MCHash
    HashSize = 5
    OctetValues = 2
    Gateways <- MCGateways
    Texts <- MCTexts
    Netmasks <- MCNetmasks
    Empty = Empty
    Unreadable = Unreadable
SPECIFICATION QtSpec
INVARIANTS PlainOrNothing AddressesRight

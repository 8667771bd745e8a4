----------------------------- MODULE SimpleCrypt -----------------------------
(***************************************************************************)
(* SimpleCrypt: a keyed object that turns plaintexts into cyphertexts and  *)
(* back, used over time: its key and its modes are changed between calls,  *)
(* a cyphertext is kept, and may be damaged where it is kept.              *)
(*                                                                         *)
(* Bytes, the key and the two check values are shorter than the code's;    *)
(* what is done with them is the same.  Base64, which wraps the string     *)
(* variants of the calls, is left out.                                     *)
(***************************************************************************)
EXTENDS Octets, Sequences

CONSTANTS
    Values,     \* bound: the values of a byte (256 in the code)
    KeyBytes,   \* bound: parts of a key (8 in the code)
    Keys,       \* the keys used
    Plaintexts, \* the plaintexts used
    Randoms,    \* what rand() returns (any byte in the code)
    Nothing     \* no cyphertext, no result

(* What Qt provides.                                                       *)
CONSTANTS
    Compress(_), Uncompress(_),    \* qCompress, qUncompress
    Checksum(_), ChecksumSize,     \* qChecksum, written as 2 bytes in the code
    Hash(_), HashSize              \* QCryptographicHash, of 20 bytes in the code

Byte == 0 .. Values - 1

ASSUME InputsAssumption ==
    /\ Values \in OctetSizes
    /\ KeyBytes \in Nat \ {0}
    /\ Keys \subseteq Nat
    /\ Randoms \subseteq Byte
    /\ Plaintexts \subseteq Seq(Byte)

\* What is encrypted: a plaintext, or what it is compressed to.
Contents == Plaintexts \cup {Compress(plain) : plain \in Plaintexts}

ASSUME QtAssumption ==
    /\ ChecksumSize \in Nat /\ HashSize \in Nat \ {0}
    /\ \A plain \in Plaintexts : Uncompress(Compress(plain)) = plain
    /\ \A ba \in Contents :
          /\ ba \in Seq(Byte)
          /\ Checksum(ba) \in [1 .. ChecksumSize -> Byte]
          /\ Hash(ba) \in [1 .. HashSize -> Byte]

VARIABLES
    keyParts,    \* m_keyParts, empty before a key is set
    compression, \* m_compressionMode
    protection,  \* m_protectionMode
    lastError,   \* m_lastError
    stored,      \* the cyphertext of the last encryption, as it is kept now
    origin,      \* history: what it was made from, and how it was damaged
    returned     \* what the last decryption returned

objectVars == <<keyParts, compression, protection, lastError>>
vars == <<objectVars, stored, origin, returned>>

CompressionModes == {"Auto", "Always", "Never"}
ProtectionModes  == {"None", "Checksum", "Hash"}

Version == 3
Cypher(version, flags, body) == [version |-> version, flags |-> flags, body |-> body]

CheckOf(kind, ba) ==
    CASE kind = "Checksum" -> Checksum(ba)
      [] kind = "Hash"     -> Hash(ba)
      [] OTHER             -> <<>>

CheckSize(kind) ==
    CASE kind = "Checksum" -> ChecksumSize
      [] kind = "Hash"     -> HashSize
      [] OTHER             -> 0

-----------------------------------------------------------------------------
\* The key, shifted right by 0, 1, ... bytes.
Shifted(key) ==
    LET part[i \in 0 .. KeyBytes] == IF i = 0 THEN key ELSE part[i - 1] \div Values
    IN  part

\* splitKey: the bytes of the key, lowest first.
Split(key) == [i \in 1 .. KeyBytes |-> Shifted(key)[i - 1] % Values]

KeyPart(parts, i) == parts[((i - 1) % KeyBytes) + 1]

\* a ^ b of two bytes, tabulated.
XorTable == [p \in Byte \X Byte |-> Xor(p[1], p[2])]

\* Each byte is combined with a byte of the key and with the byte before it,
\* as it has been encrypted.
Chain(parts, ba) ==
    LET out[i \in 0 .. Len(ba)] ==
            IF i = 0 THEN 0 ELSE XorTable[XorTable[ba[i], KeyPart(parts, i)], out[i - 1]]
    IN  out

Chained(parts, ba) ==
    LET out == Chain(parts, ba) IN [i \in 1 .. Len(ba) |-> out[i]]

Unchained(parts, ba) ==
    [i \in 1 .. Len(ba) |->
        XorTable[XorTable[ba[i], IF i = 1 THEN 0 ELSE ba[i - 1]], KeyPart(parts, i)]]

-----------------------------------------------------------------------------
\* The default constructor; the other one is followed by splitKey, as setKey is.
Init ==
    /\ keyParts = <<>>
    /\ compression = "Auto"
    /\ protection = "Checksum"
    /\ lastError = "NoError"
    /\ stored = Nothing
    /\ origin = Nothing
    /\ returned = Nothing

SetKey(key) ==
    /\ keyParts' = Split(key)
    /\ returned' = Nothing
    /\ UNCHANGED <<compression, protection, lastError, stored, origin>>

SetCompressionMode(mode) ==
    /\ compression' = mode
    /\ returned' = Nothing
    /\ UNCHANGED <<keyParts, protection, lastError, stored, origin>>

SetIntegrityProtectionMode(mode) ==
    /\ protection' = mode
    /\ returned' = Nothing
    /\ UNCHANGED <<keyParts, compression, lastError, stored, origin>>

\* encryptToByteArray.
Encrypt(plain, random) ==
    /\ returned' = Nothing
    /\ UNCHANGED <<keyParts, compression, protection>>
    /\ IF keyParts = <<>>
       THEN /\ lastError' = "NoKeySet"
            /\ UNCHANGED <<stored, origin>>
       ELSE LET packed == /\ compression # "Never"
                          /\ compression = "Auto" => Len(Compress(plain)) < Len(plain)
                ba == IF packed THEN Compress(plain) ELSE plain
                flags == [compressed |-> packed, check |-> protection]
            IN  /\ stored' = Cypher(Version, flags,
                                Chained(keyParts, <<random>> \o CheckOf(protection, ba) \o ba))
                /\ origin' = [plain |-> plain, keyParts |-> keyParts, check |-> protection,
                              damage |-> "none"]
                /\ lastError' = "NoError"

\* The length of a stored cyphertext, with its version and flags.
SizeOf(cypher) == Len(cypher.body) + 2

Fail(error) == lastError' = error /\ returned' = <<>>

\* What is left after the random character, the check value and the content.
Unpack(cypher) ==
    LET ba    == Tail(Unchained(keyParts, cypher.body))
        size  == CheckSize(cypher.flags.check)
        rest  == SubSeq(ba, size + 1, Len(ba))
    IN  IF Len(ba) < size \/ SubSeq(ba, 1, size) # CheckOf(cypher.flags.check, rest)
        THEN Fail("IntegrityFailed")
        ELSE /\ lastError' = "NoError"
             /\ returned' = IF cypher.flags.compressed THEN Uncompress(rest) ELSE rest

\* Mutant of Decrypt: the modes of the object are used, not those of the cyphertext.
DecryptByOwnModes ==
    /\ stored # Nothing
    /\ UNCHANGED <<keyParts, compression, protection, stored, origin>>
    /\ CASE keyParts = <<>> -> Fail("NoKeySet")
         [] keyParts # <<>> /\ SizeOf(stored) < 3 -> returned' = <<>> /\ UNCHANGED lastError
         [] keyParts # <<>> /\ SizeOf(stored) >= 3 /\ stored.version # Version ->
                Fail("UnknownVersion")
         [] OTHER -> Unpack([stored EXCEPT !.flags.check = protection])

\* decryptToByteArray.  A cyphertext too short for its header and one character
\* leaves m_lastError as it was.
Decrypt ==
    /\ stored # Nothing
    /\ UNCHANGED <<keyParts, compression, protection, stored, origin>>
    /\ CASE keyParts = <<>> -> Fail("NoKeySet")
         [] keyParts # <<>> /\ SizeOf(stored) < 3 -> returned' = <<>> /\ UNCHANGED lastError
         [] keyParts # <<>> /\ SizeOf(stored) >= 3 /\ stored.version # Version ->
                Fail("UnknownVersion")
         [] OTHER -> Unpack(stored)

-----------------------------------------------------------------------------
(* Environment: one damage to a stored cyphertext, outside its flags.      *)

Damageable == stored # Nothing /\ origin.damage = "none"

Damaged(cypher, kind) ==
    /\ stored' = cypher
    /\ origin' = [origin EXCEPT !.damage = kind]
    /\ returned' = Nothing
    /\ UNCHANGED objectVars

Alter ==
    /\ Damageable
    /\ \/ Damaged([stored EXCEPT !.version = 0], "altered")
       \/ \E i \in 1 .. Len(stored.body), b \in Byte :
             /\ b # stored.body[i]
             /\ Damaged([stored EXCEPT !.body[i] = b], "altered")

Cut ==
    /\ Damageable
    /\ \E n \in 0 .. Len(stored.body) - 1 :
          Damaged([stored EXCEPT !.body = SubSeq(@, 1, n)], "cut")

Next ==
    \/ \E key \in Keys : SetKey(key)
    \/ \E mode \in CompressionModes : SetCompressionMode(mode)
    \/ \E mode \in ProtectionModes : SetIntegrityProtectionMode(mode)
    \/ \E plain \in Plaintexts, random \in Randoms : Encrypt(plain, random)
    \/ Decrypt
    \/ Alter \/ Cut

Spec == Init /\ [][Next]_vars

-----------------------------------------------------------------------------
(* Properties.                                                             *)

SameKey == origin # Nothing /\ keyParts = origin.keyParts

\* What was encrypted, and what a decryption finds after the hash.
Encrypted == IF stored.flags.compressed THEN Compress(origin.plain) ELSE origin.plain
Found ==
    LET ba == Tail(Unchained(keyParts, stored.body)) IN SubSeq(ba, HashSize + 1, Len(ba))

\* A collision: another content, no longer, with all but the last byte of the hash.
Collides(other, ba) ==
    /\ other # ba
    /\ Len(other) <= Len(ba)
    /\ \A i \in 1 .. HashSize - 1 : Hash(other)[i] = Hash(ba)[i]

\* With the key it was made with, a cyphertext gives its plaintext back, whatever
\* the modes it was made with and however they were changed since; and one that was
\* damaged after its flags and is protected by a hash gives nothing, never another
\* text: each byte is chained to the one before it, so that a damage reaches the hash
\* or what was hashed (SimpleCrypt.cpp:82-139, 176-248).  Only a collision of the
\* hash, of what was encrypted with what the damage left of it, gives another text.
PlainOrNothing ==
    SameKey /\ returned # Nothing =>
    /\ origin.damage = "none" => returned = origin.plain /\ lastError = "NoError"
    /\ origin.damage # "none" /\ origin.check = "Hash" =>
          returned = <<>> \/ Collides(Found, Encrypted)

=============================================================================

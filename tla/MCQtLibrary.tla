----------------------------- MODULE MCQtLibrary -----------------------------
(***************************************************************************)
(* QtLibrary for TLC.                                                      *)
(***************************************************************************)
EXTENDS QtLibrary

\* Two keys whose parts differ from each other and between the keys.
MCKeys == {6, 9}

\* Empty, short, as long as the key, and one that compresses.
MCPlaintexts == {<<>>, <<2>>, <<1, 3>>, <<2, 2, 2>>}

MCRandoms == {2}

\* Three or more equal bytes become shorter, anything else longer.
MCCompress(ba) ==
    IF Len(ba) \in 3 .. Values - 1 /\ \A i \in 1 .. Len(ba) : ba[i] = ba[1]
    THEN <<Len(ba), ba[1]>>
    ELSE <<0>> \o ba

\* Empty for what MCCompress did not make.
MCUncompress(ba) ==
    IF ba = <<>> THEN <<>>
    ELSE IF Head(ba) = 0 THEN Tail(ba)
    ELSE IF Len(ba) = 2 THEN [i \in 1 .. ba[1] |-> ba[2]]
    ELSE <<>>

At(ba, i) == IF i \in 1 .. Len(ba) THEN ba[i] ELSE 0

\* A short value that many contents share.
MCChecksum(ba) == <<(At(ba, 1) + 2 * At(ba, 2) + 3 * At(ba, 3)) % Values,
                    (Len(ba) + At(ba, 4)) % Values>>

\* One that none of the contents used, of up to three bytes, share.
MCHash(ba) == <<Len(ba) % Values, At(ba, 1), At(ba, 2), At(ba, 3), (At(ba, 1) + At(ba, 2)) % Values>>

\* Some addresses and all netmasks of four one-bit octets, with holes and without.
MCTexts    == {Empty, Unreadable, <<0, 1, 1, 0>>, <<1, 0, 0, 1>>, <<1, 1, 1, 1>>}
MCNetmasks == [1 .. 4 -> 0 .. OctetValues - 1] \cup {Unreadable}
MCGateways == {Empty, <<0, 1, 0, 1>>}

=============================================================================

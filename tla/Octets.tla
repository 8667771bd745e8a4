-------------------------------- MODULE Octets --------------------------------
(***************************************************************************)
(* The operators &, | and ^ of C++ on the octets 0 .. 255: each combines   *)
(* the bits that are set in its operands.  A bit is named by its weight.   *)
(***************************************************************************)
EXTENDS Integers

\* How many values an octet of 1 to 8 bits has.
OctetSizes == {2, 4, 8, 16, 32, 64, 128, 256}

Weights == {1, 2, 4, 8, 16, 32, 64, 128}

\* The bits set in octet a.
Ones(a) == {w \in Weights : (a \div w) % 2 = 1}

Worth(w, bits) == IF w \in bits THEN w ELSE 0

\* The octet in which these bits are set.
Value(bits) ==
    Worth(1, bits) + Worth(2, bits) + Worth(4, bits) + Worth(8, bits)
      + Worth(16, bits) + Worth(32, bits) + Worth(64, bits) + Worth(128, bits)

And(a, b) == Value(Ones(a) \cap Ones(b))
Or(a, b)  == Value(Ones(a) \cup Ones(b))
Xor(a, b) == Value((Ones(a) \ Ones(b)) \cup (Ones(b) \ Ones(a)))

=============================================================================

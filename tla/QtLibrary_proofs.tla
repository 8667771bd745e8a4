--------------------------- MODULE QtLibrary_proofs --------------------------
(***************************************************************************)
(* Theorems about the two C++ classes: a cyphertext gives its plaintext    *)
(* back or nothing, for keys, texts and checks of any size; and the list   *)
(* of addresses is right for every address and netmask, of octets of any   *)
(* width up to the eight bits they have.                                   *)
(***************************************************************************)
EXTENDS QtLibrary, FiniteSetTheorems, WellFoundedInduction, TLAPS

-----------------------------------------------------------------------------
(* Octets are their bits.                                                  *)

LEMMA ValueOfOnes ==
    ASSUME NEW a \in 0 .. 255
    PROVE  Value(Ones(a)) = a
  BY DEF Value, Worth, Ones, Weights

LEMMA OnesOfValue ==
    ASSUME NEW bits, bits \subseteq Weights
    PROVE  Value(bits) \in 0 .. 255 /\ Ones(Value(bits)) = bits
<1> DEFINE v == Value(bits)
<1>1. v \in 0 .. 255
  BY DEF Value, Worth
<1>2. \A w \in Weights : (v \div w) % 2 = 1 <=> w \in bits
  BY DEF Value, Worth, Weights
<1> QED
  BY <1>1, <1>2 DEF Ones

\* An octet of fewer than eight bits has no bit beyond them.
LEMMA Narrow ==
    ASSUME NEW size \in OctetSizes
    PROVE  /\ \A a \in 0 .. size - 1 : a \in 0 .. 255 /\ \A w \in Ones(a) : w < size
           /\ \A bits \in SUBSET Weights :
                 (\A w \in bits : w < size) => Value(bits) \in 0 .. size - 1
<1>1. ASSUME NEW a \in 0 .. size - 1, NEW w \in Ones(a)
      PROVE  a \in 0 .. 255 /\ w < size
  BY <1>1 DEF OctetSizes, Ones, Weights
<1>2. ASSUME NEW bits \in SUBSET Weights, \A w \in bits : w < size
      PROVE  Value(bits) \in 0 .. size - 1
  BY <1>2 DEF OctetSizes, Weights, Value, Worth
<1>3. ASSUME NEW a \in 0 .. size - 1
      PROVE  a \in 0 .. 255
  BY DEF OctetSizes
<1> QED
  BY <1>1, <1>2, <1>3

\* The two lemmas above, for an octet of any width.
LEMMA Bits ==
    ASSUME NEW size \in OctetSizes, NEW a \in 0 .. size - 1
    PROVE  /\ Ones(a) \in SUBSET Weights /\ \A w \in Ones(a) : w < size
           /\ Value(Ones(a)) = a
<1>1. a \in 0 .. 255 /\ \A w \in Ones(a) : w < size
  BY Narrow
<1>2. Value(Ones(a)) = a
  BY <1>1, ValueOfOnes
<1>3. Ones(a) \in SUBSET Weights
  BY DEF Ones
<1> QED
  BY <1>1, <1>2, <1>3

LEMMA XorLaws ==
    ASSUME NEW size \in OctetSizes, NEW a \in 0 .. size - 1, NEW b \in 0 .. size - 1
    PROVE  /\ Xor(a, b) \in 0 .. size - 1
           /\ Xor(Xor(a, b), b) = a
           /\ Xor(a, Xor(a, b)) = b
<1>1. /\ Ones(a) \in SUBSET Weights /\ Ones(b) \in SUBSET Weights
      /\ \A w \in Ones(a) \cup Ones(b) : w < size
      /\ Value(Ones(a)) = a /\ Value(Ones(b)) = b
  BY Bits
<1> DEFINE bits == (Ones(a) \ Ones(b)) \cup (Ones(b) \ Ones(a))
<1>2. bits \in SUBSET Weights /\ \A w \in bits : w < size
  BY <1>1
<1>3. Xor(a, b) \in 0 .. size - 1 /\ Ones(Xor(a, b)) = bits
  BY <1>2, Narrow, OnesOfValue DEF Xor
<1>4. /\ (bits \ Ones(b)) \cup (Ones(b) \ bits) = Ones(a)
      /\ (Ones(a) \ bits) \cup (bits \ Ones(a)) = Ones(b)
  OBVIOUS
<1> QED
  BY <1>1, <1>3, <1>4 DEF Xor

\* Disjoint bits add up, and fewer bits are worth no more.
LEMMA ValueLaws ==
    ASSUME NEW bits \in SUBSET Weights, NEW more \in SUBSET Weights
    PROVE  /\ bits \cap more = {} => Value(bits \cup more) = Value(bits) + Value(more)
           /\ bits \subseteq more => Value(bits) <= Value(more)
  BY DEF Value, Worth

\* The complement of a mask.
LEMMA Complement ==
    ASSUME NEW size \in OctetSizes, NEW m \in 0 .. size - 1
    PROVE  /\ size - 1 - m \in 0 .. size - 1
           /\ Ones(size - 1 - m) = {w \in Weights : w < size} \ Ones(m)
<1>1. size - 1 - m \in 0 .. size - 1
  BY DEF OctetSizes
<1>2. ASSUME NEW w \in Weights
      PROVE  ((size - 1 - m) \div w) % 2 = 1 <=> w < size /\ (m \div w) % 2 # 1
  BY DEF OctetSizes, Weights
<1> QED
  BY <1>1, <1>2 DEF Ones

\* A mask splits an octet; what it leaves and its complement do not overlap.
LEMMA MaskLaws ==
    ASSUME NEW size \in OctetSizes, NEW a \in 0 .. size - 1, NEW m \in 0 .. size - 1
    PROVE  LET rest == size - 1 - m IN
           /\ And(a, m) \in 0 .. size - 1
           /\ And(a, rest) \in 0 .. rest
           /\ And(a, m) + And(a, rest) = a
           /\ Or(And(a, m), rest) = And(a, m) + rest
           /\ Or(And(a, m), rest) \in 0 .. size - 1
<1> DEFINE rest == size - 1 - m
           all == {w \in Weights : w < size}
<1>1. /\ Ones(a) \in SUBSET all /\ Ones(m) \in SUBSET all /\ all \in SUBSET Weights
      /\ Value(Ones(a)) = a /\ Value(Ones(m)) = m
  <2>1. /\ Ones(a) \in SUBSET Weights /\ \A w \in Ones(a) : w < size
        /\ Value(Ones(a)) = a
    BY Bits
  <2>2. /\ Ones(m) \in SUBSET Weights /\ \A w \in Ones(m) : w < size
        /\ Value(Ones(m)) = m
    BY Bits
  <2> QED
    BY <2>1, <2>2
<1>2. rest \in 0 .. size - 1 /\ Ones(rest) = all \ Ones(m) /\ Value(Ones(rest)) = rest
  <2>1. rest \in 0 .. size - 1 /\ Ones(rest) = all \ Ones(m)
    BY Complement
  <2> HIDE DEF rest
  <2> QED
    BY <2>1, Bits
<1> HIDE DEF rest, all
<1> DEFINE kept == Ones(a) \cap Ones(m)
           cut  == Ones(a) \cap Ones(rest)
<1>3. /\ kept \in SUBSET Weights /\ cut \in SUBSET Weights /\ Ones(rest) \in SUBSET Weights
      /\ kept \cap cut = {} /\ kept \cup cut = Ones(a)
      /\ kept \cap Ones(rest) = {} /\ cut \subseteq Ones(rest)
      /\ kept \cup Ones(rest) \in SUBSET all
  BY <1>1, <1>2
<1>4. /\ And(a, m) = Value(kept) /\ Ones(And(a, m)) = kept
      /\ And(a, rest) = Value(cut)
  BY <1>3, OnesOfValue DEF And
<1>5. /\ And(a, m) + And(a, rest) = a
      /\ And(a, rest) <= rest
      /\ Or(And(a, m), rest) = And(a, m) + rest
  <2>1. Value(kept) + Value(cut) = a
    BY <1>1, <1>3, ValueLaws
  <2>2. Value(cut) <= rest
    BY <1>2, <1>3, ValueLaws
  <2>3. Or(And(a, m), rest) = Value(kept) + rest
    <3>1. Value(kept \cup Ones(rest)) = Value(kept) + rest
      BY <1>2, <1>3, ValueLaws
    <3> QED
      BY <1>4, <3>1 DEF Or
  <2> QED
    BY <1>4, <2>1, <2>2, <2>3
<1>6. /\ \A w \in kept \cup cut \cup Ones(rest) : w < size
      /\ kept \cup Ones(rest) \in SUBSET Weights
  BY <1>1, <1>2, <1>3 DEF all
<1>7. /\ And(a, m) \in 0 .. size - 1 /\ And(a, rest) \in 0 .. size - 1
      /\ Or(And(a, m), rest) \in 0 .. size - 1
  <2>1. \A bits \in SUBSET Weights :
            (\A w \in bits : w < size) => Value(bits) \in 0 .. size - 1
    BY Narrow
  <2>2. Or(And(a, m), rest) = Value(kept \cup Ones(rest))
    BY <1>4 DEF Or
  <2> HIDE DEF kept, cut
  <2>3. Value(kept) \in 0 .. size - 1 /\ Value(cut) \in 0 .. size - 1
    BY <1>3, <1>6, <2>1
  <2>4. Value(kept \cup Ones(rest)) \in 0 .. size - 1
    BY <1>6, <2>1
  <2> QED
    BY <1>4, <2>2, <2>3, <2>4
<1>8. And(a, rest) \in 0 .. rest
  BY <1>2, <1>5, <1>7
<1> QED
  BY <1>5, <1>7, <1>8 DEF rest

\* The bits below a weight are the remainder.
LEMMA LowBits ==
    ASSUME NEW p \in Weights \cup OctetSizes, NEW a \in 0 .. 255
    PROVE  And(a, p - 1) = a % p
<1> DEFINE low == {w \in Weights : w < p}
<1>1. Ones(p - 1) = low
  BY DEF Ones, Weights, OctetSizes
<1>2. And(a, p - 1) = Value({w \in low : (a \div w) % 2 = 1})
  <2>1. Ones(a) \cap low = {w \in low : (a \div w) % 2 = 1}
    BY DEF Ones
  <2> QED
    BY <1>1, <2>1 DEF And
<1>3. Value({w \in low : (a \div w) % 2 = 1}) = a % p
  <2> USE DEF Value, Worth, Weights
  <2>1. CASE p \in {1, 2, 4}
    BY <2>1, SMTT(30)
  <2>2. CASE p = 8
    BY <2>2, SMTT(30)
  <2>3. CASE p = 16
    BY <2>3, SMTT(30)
  <2>4. CASE p = 32
    BY <2>4, SMTT(30)
  <2>5. CASE p = 64
    BY <2>5, SMTT(30)
  <2>6. CASE p = 128
    BY <2>6, SMTT(30)
  <2>7. CASE p = 256
    BY <2>7, SMTT(30)
  <2> QED
    BY <2>1, <2>2, <2>3, <2>4, <2>5, <2>6, <2>7 DEF OctetSizes
<1> QED
  BY <1>2, <1>3

-----------------------------------------------------------------------------
(* Addresses as numbers.                                                   *)

\* A number and one more digit: the digit decides between equal numbers only.
LEMMA RadixOf ==
    ASSUME NEW size \in OctetSizes, NEW x \in Nat, NEW y \in Nat,
           NEW c \in 0 .. size - 1, NEW d \in 0 .. size - 1
    PROVE  /\ x * size + c \in Nat
           /\ x * size + c <= y * size + d <=> x < y \/ (x = y /\ c <= d)
           /\ x * size + c < y * size + d <=> x < y \/ (x = y /\ c < d)
           /\ x * size + c = y * size + d <=> x = y /\ c = d
<1>1. CASE size = 2
  BY <1>1
<1>2. CASE size = 4
  BY <1>2
<1>3. CASE size = 8
  BY <1>3
<1>4. CASE size = 16
  BY <1>4
<1>5. CASE size = 32
  BY <1>5
<1>6. CASE size = 64
  BY <1>6
<1>7. CASE size = 128
  BY <1>7
<1>8. CASE size = 256
  BY <1>8
<1> QED
  BY <1>1, <1>2, <1>3, <1>4, <1>5, <1>6, <1>7, <1>8 DEF OctetSizes

LEMMA Radix ==
    \A x, y \in Nat : \A c, d \in Net!Octets :
        /\ x * OctetValues + c \in Nat
        /\ x * OctetValues + c <= y * OctetValues + d <=> x < y \/ (x = y /\ c <= d)
        /\ x * OctetValues + c < y * OctetValues + d <=> x < y \/ (x = y /\ c < d)
        /\ x * OctetValues + c = y * OctetValues + d <=> x = y /\ c = d
<1> TAKE x, y \in Nat
<1> TAKE c, d \in Net!Octets
<1>1. c \in 0 .. OctetValues - 1 /\ d \in 0 .. OctetValues - 1
  BY DEF Net!Octets
<1> QED
  BY <1>1, RadixOf, NetAssumption

\* The same of an address: the number of its first i octets.
Upper2(a) == a[1] * OctetValues + a[2]
Upper3(a) == Upper2(a) * OctetValues + a[3]

LEMMA NumberOf == \A a : Net!Number(a) = Upper3(a) * OctetValues + a[4]
  BY DEF Net!Number, Upper3, Upper2

LEMMA Digits ==
    ASSUME NEW a \in Net!Addresses
    PROVE  /\ \A i \in 1 .. 4 : a[i] \in Net!Octets /\ a[i] \in 0 .. OctetValues - 1 /\ a[i] \in Nat
           /\ Upper2(a) \in Nat /\ Upper3(a) \in Nat /\ Net!Number(a) \in Nat
           /\ \A b \in Net!Addresses :
                 a[1] = b[1] /\ a[2] = b[2] /\ a[3] = b[3] /\ a[4] = b[4] => a = b
<1>1. \A i \in 1 .. 4 : a[i] \in Net!Octets
  BY DEF Net!Addresses
<1>2. ASSUME NEW b \in Net!Addresses, a[1] = b[1], a[2] = b[2], a[3] = b[3], a[4] = b[4]
      PROVE  a = b
  <2>1. \A i \in 1 .. 4 : a[i] = b[i]
    BY <1>2
  <2> QED
    BY <2>1 DEF Net!Addresses
<1>4. \A x \in Net!Octets : x \in 0 .. OctetValues - 1 /\ x \in Int /\ x \in Nat
  BY DEF Net!Octets
<1>5. Upper2(a) \in Nat
  BY <1>1, <1>4, Radix DEF Upper2
<1>6. Upper3(a) \in Nat
  BY <1>1, <1>4, <1>5, Radix DEF Upper3
<1>3. Net!Number(a) \in Nat
  BY <1>1, <1>4, <1>6, Radix, NumberOf
<1> QED
  BY <1>1, <1>2, <1>3, <1>4, <1>5, <1>6

LEMMA Order ==
    ASSUME NEW a \in Net!Addresses, NEW b \in Net!Addresses
    PROVE  Net!Number(a) <= Net!Number(b)
             <=> \/ a[1] < b[1]
                 \/ a[1] = b[1] /\ a[2] < b[2]
                 \/ a[1] = b[1] /\ a[2] = b[2] /\ a[3] < b[3]
                 \/ a[1] = b[1] /\ a[2] = b[2] /\ a[3] = b[3] /\ a[4] <= b[4]
<1>1. a[1] \in Nat /\ b[1] \in Nat /\ a[2] \in Net!Octets /\ b[2] \in Net!Octets
  BY Digits
<1>2. Upper2(a) \in Nat /\ Upper2(b) \in Nat /\ a[3] \in Net!Octets /\ b[3] \in Net!Octets
  BY Digits
<1>3. Upper3(a) \in Nat /\ Upper3(b) \in Nat /\ a[4] \in Net!Octets /\ b[4] \in Net!Octets
  BY Digits
<1>4. /\ Upper2(a) < Upper2(b) <=> a[1] < b[1] \/ (a[1] = b[1] /\ a[2] < b[2])
      /\ Upper2(a) = Upper2(b) <=> a[1] = b[1] /\ a[2] = b[2]
  BY <1>1, Radix DEF Upper2
<1>5. /\ Upper3(a) < Upper3(b) <=> Upper2(a) < Upper2(b) \/ (Upper2(a) = Upper2(b) /\ a[3] < b[3])
      /\ Upper3(a) = Upper3(b) <=> Upper2(a) = Upper2(b) /\ a[3] = b[3]
  BY <1>2, Radix DEF Upper3
<1>6. Net!Number(a) <= Net!Number(b)
         <=> Upper3(a) < Upper3(b) \/ (Upper3(a) = Upper3(b) /\ a[4] <= b[4])
  BY <1>3, Radix, NumberOf
<1> QED
  BY <1>4, <1>5, <1>6

LEMMA OneNumber ==
    ASSUME NEW a \in Net!Addresses, NEW b \in Net!Addresses, Net!Number(a) = Net!Number(b)
    PROVE  a = b
<1>1. Net!Number(a) <= Net!Number(b) /\ Net!Number(b) <= Net!Number(a)
  BY Digits
<1>2. \A i \in 1 .. 4 : a[i] \in Int /\ b[i] \in Int
  BY Digits
<1>3. a[1] = b[1] /\ a[2] = b[2] /\ a[3] = b[3] /\ a[4] = b[4]
  BY <1>1, <1>2, Order
<1> QED
  BY <1>3, Digits

\* n4++ and its carries count by one, as long as n1 does not run over.
LEMMA Counts ==
    ASSUME NEW a \in Net!Addresses, NEW b \in Net!Addresses, Net!Number(a) < Net!Number(b)
    PROVE  /\ Net!Successor(a) \in Net!Addresses
           /\ Net!Number(Net!Successor(a)) = Net!Number(a) + 1
<1> DEFINE v == OctetValues
           Carry(k) == /\ \A i \in k + 1 .. 4 : a[i] = v - 1
                       /\ k = 1 \/ a[k] # v - 1
           carry == CHOOSE k \in 1 .. 4 : Carry(k)
           s == [i \in 1 .. 4 |-> IF i < carry THEN a[i] ELSE IF i = carry THEN a[i] + 1 ELSE 0]
<1>1. Net!Successor(a) = s
  BY DEF Net!Successor
<1>2. v \in OctetSizes /\ v \in Nat /\ \A i \in 1 .. 4 : a[i] \in 0 .. v - 1 /\ b[i] \in 0 .. v - 1
  BY NetAssumption DEF Net!Addresses, Net!Octets, OctetSizes
<1>3. carry \in 1 .. 4 /\ Carry(carry)
  <2>1. \E k \in 1 .. 4 : Carry(k)
    <3>1. CASE a[4] # v - 1
      BY <3>1
    <3>2. CASE a[4] = v - 1 /\ a[3] # v - 1
      BY <3>2
    <3>3. CASE a[4] = v - 1 /\ a[3] = v - 1 /\ a[2] # v - 1
      BY <3>3
    <3>4. CASE a[4] = v - 1 /\ a[3] = v - 1 /\ a[2] = v - 1
      BY <3>4
    <3> QED
      BY <3>1, <3>2, <3>3, <3>4
  <2> QED
    BY <2>1
<1> HIDE DEF carry
<1>4. ~ (a[1] = v - 1 /\ a[2] = v - 1 /\ a[3] = v - 1 /\ a[4] = v - 1)
  BY <1>2, Order, Digits
<1>5. a[carry] < v - 1
  BY <1>2, <1>3, <1>4
<1>6. s \in Net!Addresses
  BY <1>2, <1>3, <1>5 DEF Net!Addresses, Net!Octets
<1>7. Net!Number(s) = Net!Number(a) + 1
  <2>0. /\ \A i \in 1 .. 4 : a[i] \in Nat /\ s[i] \in Nat
        /\ Upper2(a) \in Nat /\ Upper3(a) \in Nat /\ Upper2(s) \in Nat /\ Upper3(s) \in Nat
    BY <1>6, Digits
  <2> HIDE DEF s
  <2>10. \A x \in Nat : (x + 1) * v + 0 = x * v + (v - 1) + 1
    BY <1>2
  <2>1. CASE carry = 4
    <3>1. s[4] = a[4] + 1 /\ s[3] = a[3] /\ s[2] = a[2] /\ s[1] = a[1]
      BY <1>3, <2>1 DEF s
    <3>2. Upper2(s) = Upper2(a)
      BY <1>2, <2>0, <2>10, <3>1 DEF Upper2
    <3>3. Upper3(s) = Upper3(a)
      BY <1>2, <2>0, <2>10, <3>1, <3>2 DEF Upper3
    <3> QED
      BY <1>2, <2>0, <2>10, <3>1, <3>3, NumberOf
  <2>2. CASE carry = 3
    <3>1. s[4] = 0 /\ s[3] = a[3] + 1 /\ s[2] = a[2] /\ s[1] = a[1] /\ a[4] = v - 1
      BY <1>3, <2>2 DEF s
    <3>2. Upper2(s) = Upper2(a)
      BY <1>2, <2>0, <2>10, <3>1 DEF Upper2
    <3>3. Upper3(s) = Upper3(a) + 1
      BY <1>2, <2>0, <2>10, <3>1, <3>2 DEF Upper3
    <3> QED
      BY <1>2, <2>0, <2>10, <3>1, <3>3, NumberOf
  <2>3. CASE carry = 2
    <3>1. s[4] = 0 /\ s[3] = 0 /\ s[2] = a[2] + 1 /\ s[1] = a[1] /\ a[4] = v - 1 /\ a[3] = v - 1
      BY <1>3, <2>3 DEF s
    <3>2. Upper2(s) = Upper2(a) + 1
      BY <1>2, <2>0, <2>10, <3>1 DEF Upper2
    <3>3. Upper3(s) = Upper3(a) + 1
      BY <1>2, <2>0, <2>10, <3>1, <3>2 DEF Upper3
    <3> QED
      BY <1>2, <2>0, <2>10, <3>1, <3>3, NumberOf
  <2>4. CASE carry = 1
    <3>1. s[4] = 0 /\ s[3] = 0 /\ s[2] = 0 /\ s[1] = a[1] + 1 /\ a[4] = v - 1 /\ a[3] = v - 1 /\ a[2] = v - 1
      BY <1>3, <2>4 DEF s
    <3>2. Upper2(s) = Upper2(a) + 1
      BY <1>2, <2>0, <2>10, <3>1 DEF Upper2
    <3>3. Upper3(s) = Upper3(a) + 1
      BY <1>2, <2>0, <2>10, <3>1, <3>2 DEF Upper3
    <3> QED
      BY <1>2, <2>0, <2>10, <3>1, <3>3, NumberOf
  <2> QED
    BY <1>3, <2>1, <2>2, <2>3, <2>4
<1> QED
  BY <1>1, <1>6, <1>7

LEMMA Monotone ==
    ASSUME NEW a \in Net!Addresses, NEW b \in Net!Addresses, \A i \in 1 .. 4 : a[i] <= b[i]
    PROVE  Net!Number(a) <= Net!Number(b)
<1>1. /\ a[1] \in Nat /\ a[2] \in Nat /\ a[3] \in Nat /\ a[4] \in Nat
      /\ b[1] \in Nat /\ b[2] \in Nat /\ b[3] \in Nat /\ b[4] \in Nat
      /\ a[1] <= b[1] /\ a[2] <= b[2] /\ a[3] <= b[3] /\ a[4] <= b[4]
  BY Digits
<1> QED
  BY <1>1, Order

-----------------------------------------------------------------------------
(* The network and the broadcast address of a netmask.                     *)

\* QNetworkAddress has the octets of Octets.
LEMMA SameOctets ==
    /\ Net!Weights = Weights /\ Net!OctetSizes = OctetSizes
    /\ \A x, y : Net!And(x, y) = And(x, y) /\ Net!Or(x, y) = Or(x, y)
<1>1. Net!Weights = Weights /\ Net!OctetSizes = OctetSizes
  BY DEF Net!Weights, Net!OctetSizes, Weights, OctetSizes
<1>2. \A x : Net!Ones(x) = Ones(x)
  BY <1>1 DEF Net!Ones, Ones
<1>3. \A bits : Net!Value(bits) = Value(bits)
  BY DEF Net!Value, Value, Net!Worth, Worth
<1> QED
  BY <1>1, <1>2, <1>3 DEF Net!And, And, Net!Or, Or

\* The laws of a mask, octet by octet.
LEMMA MaskedOctets ==
    ASSUME NEW a \in Net!Addresses, NEW m \in Net!Addresses, NEW i \in 1 .. 4
    PROVE  LET rest == OctetValues - 1 - m[i] IN
           /\ Net!Masked(a, m)[i] = And(a[i], m[i])
           /\ And(a[i], m[i]) \in Net!Octets
           /\ And(a[i], rest) \in 0 .. rest
           /\ And(a[i], m[i]) + And(a[i], rest) = a[i]
           /\ Net!Filled(Net!Masked(a, m), m)[i] = And(a[i], m[i]) + rest
           /\ And(a[i], m[i]) + rest \in Net!Octets
<1> DEFINE rest == OctetValues - 1 - m[i]
<1>1. a[i] \in 0 .. OctetValues - 1 /\ m[i] \in 0 .. OctetValues - 1
  BY Digits
<1>2. Net!Masked(a, m)[i] = And(a[i], m[i])
  BY SameOctets DEF Net!Masked
<1>3. Net!Filled(Net!Masked(a, m), m)[i] = Or(And(a[i], m[i]), rest)
  BY <1>2, SameOctets DEF Net!Filled
<1>4. /\ And(a[i], m[i]) \in 0 .. OctetValues - 1
      /\ And(a[i], rest) \in 0 .. rest
      /\ And(a[i], m[i]) + And(a[i], rest) = a[i]
      /\ Or(And(a[i], m[i]), rest) = And(a[i], m[i]) + rest
      /\ Or(And(a[i], m[i]), rest) \in 0 .. OctetValues - 1
  BY <1>1, MaskLaws, NetAssumption
<1> HIDE DEF rest
<1>5. /\ Net!Masked(a, m)[i] = And(a[i], m[i])
      /\ And(a[i], m[i]) \in Net!Octets
      /\ And(a[i], rest) \in 0 .. rest
      /\ And(a[i], m[i]) + And(a[i], rest) = a[i]
      /\ Net!Filled(Net!Masked(a, m), m)[i] = And(a[i], m[i]) + rest
      /\ And(a[i], m[i]) + rest \in Net!Octets
  BY <1>2, <1>3, <1>4 DEF Net!Octets
<1> QED
  BY <1>5 DEF rest

\* The network lies before the broadcast address, and the subnet between them.
LEMMA Between ==
    ASSUME NEW a \in Net!Addresses, NEW m \in Net!Addresses
    PROVE  LET network == Net!Masked(a, m)
               last    == Net!Filled(network, m)
           IN  /\ network \in Net!Addresses /\ last \in Net!Addresses
               /\ Net!Number(network) <= Net!Number(last)
               /\ \A x \in Net!Addresses : Net!Masked(x, m) = network =>
                     Net!Number(network) <= Net!Number(x) /\ Net!Number(x) <= Net!Number(last)
<1> DEFINE network == Net!Masked(a, m)
           last    == Net!Filled(network, m)
<1>1. network \in Net!Addresses
  <2>1. network = [i \in 1 .. 4 |-> And(a[i], m[i])]
    BY SameOctets DEF Net!Masked
  <2> QED
    BY <2>1, MaskedOctets DEF Net!Addresses
<1>2. last \in Net!Addresses
  <2>1. last = [i \in 1 .. 4 |-> last[i]]
    BY DEF Net!Filled
  <2>2. \A i \in 1 .. 4 : last[i] \in Net!Octets
    BY MaskedOctets
  <2> QED
    BY <2>1, <2>2 DEF Net!Addresses
<1>3. \A i \in 1 .. 4 : network[i] \in Nat /\ m[i] \in 0 .. OctetValues - 1
  BY <1>1, Digits
<1>4. \A i \in 1 .. 4 : last[i] = network[i] + (OctetValues - 1 - m[i])
  BY MaskedOctets
<1>5. OctetValues \in Nat
  BY NetAssumption DEF OctetSizes
<1>6. \A i \in 1 .. 4 : network[i] <= last[i]
  BY <1>3, <1>4, <1>5
<1>7. ASSUME NEW x \in Net!Addresses, Net!Masked(x, m) = network
      PROVE  Net!Number(network) <= Net!Number(x) /\ Net!Number(x) <= Net!Number(last)
  <2>1. ASSUME NEW i \in 1 .. 4
        PROVE  network[i] <= x[i] /\ x[i] <= last[i]
    <3> DEFINE rest == OctetValues - 1 - m[i]
    <3>1. rest \in Nat
      BY <1>3, <1>5
    <3>2. network[i] = And(x[i], m[i]) /\ And(x[i], rest) \in 0 .. rest
      BY <1>7, MaskedOctets
    <3>3. And(x[i], m[i]) + And(x[i], rest) = x[i]
      BY MaskedOctets
    <3> QED
      BY <1>3, <1>4, <3>1, <3>2, <3>3
  <2> QED
    BY <1>1, <1>2, <1>7, <2>1, Monotone
<1> QED
  BY <1>1, <1>2, <1>6, <1>7, Monotone

\* Numbers in a block of p that starts at a multiple of p have the same remainder to it.
LEMMA Block ==
    ASSUME NEW p \in Weights \cup OctetSizes, NEW a \in Nat, NEW x \in Nat,
           a - (a % p) <= x, x <= a - (a % p) + (p - 1)
    PROVE  x - (x % p) = a - (a % p)
<1>1. CASE p = 1
  BY <1>1
<1>2. CASE p = 2
  BY <1>2
<1>3. CASE p = 4
  BY <1>3
<1>4. CASE p = 8
  BY <1>4
<1>5. CASE p = 16
  BY <1>5
<1>6. CASE p = 32
  BY <1>6
<1>7. CASE p = 64
  BY <1>7
<1>8. CASE p = 128
  BY <1>8
<1>9. CASE p = 256
  BY <1>9
<1> QED
  BY <1>1, <1>2, <1>3, <1>4, <1>5, <1>6, <1>7, <1>8, <1>9 DEF Weights, OctetSizes

\* Without a hole in the netmask everything between the two is in the subnet.
LEMMA NothingElse ==
    ASSUME NEW a \in Net!Addresses, NEW m \in Net!Addresses, Net!Contiguous(m),
           NEW x \in Net!Addresses,
           Net!Number(Net!Masked(a, m)) <= Net!Number(x),
           Net!Number(x) <= Net!Number(Net!Filled(Net!Masked(a, m), m))
    PROVE  Net!Masked(x, m) = Net!Masked(a, m)
<1> DEFINE network == Net!Masked(a, m)
           last    == Net!Filled(network, m)
<1>1. network \in Net!Addresses /\ last \in Net!Addresses
  BY Between
<1>2. PICK k \in 1 .. 4 :
          /\ \A i \in 1 .. k - 1 : m[i] = OctetValues - 1
          /\ \A i \in k + 1 .. 4 : m[i] = 0
          /\ OctetValues - m[k] \in Weights \cup OctetSizes
  BY SameOctets DEF Net!Contiguous
<1>3. OctetValues \in OctetSizes /\ OctetValues \in Nat /\ OctetValues - 1 \in Nat
  BY NetAssumption DEF OctetSizes
<1>4. \A y \in Net!Addresses, i \in 1 .. 4 :
          y[i] \in 0 .. OctetValues - 1 /\ y[i] \in Nat /\ y[i] \in 0 .. 255
  BY <1>3, Digits, Narrow
<1>5. \A i \in 1 .. 4 : network[i] = And(a[i], m[i]) /\ last[i] = network[i] + (OctetValues - 1 - m[i])
  BY MaskedOctets
<1>6. \A b \in 0 .. OctetValues - 1 : And(b, 0) = 0 /\ And(b, OctetValues - 1) = b
  <2> TAKE b \in 0 .. OctetValues - 1
  <2>1. OctetValues - 1 \in 0 .. OctetValues - 1 /\ OctetValues - 1 - (OctetValues - 1) = 0
    BY <1>3
  <2>2. And(b, 0) \in 0 .. 0 /\ And(b, OctetValues - 1) + And(b, 0) = b
        /\ And(b, OctetValues - 1) \in 0 .. OctetValues - 1
    BY <1>3, <2>1, MaskLaws
  <2> QED
    BY <2>2
<1>7. \A i \in 1 .. k - 1 : last[i] = network[i]
  <2> TAKE i \in 1 .. k - 1
  <2>1. i \in 1 .. 4 /\ m[i] = OctetValues - 1 /\ network[i] \in Nat
    BY <1>1, <1>2, <1>4
  <2>2. last[i] = network[i] + (OctetValues - 1 - m[i])
    BY <1>5, <2>1
  <2> QED
    BY <1>3, <2>1, <2>2
<1>8. (\A i \in 1 .. k - 1 : x[i] = network[i]) /\ network[k] <= x[k] /\ x[k] <= last[k]
  <2> HIDE DEF network, last
  <2>1. \A i \in 1 .. 4 : network[i] \in Nat /\ x[i] \in Nat /\ last[i] \in Nat
    BY <1>1, <1>4
  <2>2. Net!Number(network) <= Net!Number(x) /\ Net!Number(x) <= Net!Number(last)
    BY DEF network, last
  <2>3. CASE k = 1
    BY <1>1, <1>7, <2>1, <2>2, <2>3, Order
  <2>4. CASE k = 2
    BY <1>1, <1>7, <2>1, <2>2, <2>4, Order
  <2>5. CASE k = 3
    BY <1>1, <1>7, <2>1, <2>2, <2>5, Order
  <2>6. CASE k = 4
    BY <1>1, <1>7, <2>1, <2>2, <2>6, Order
  <2> QED
    BY <2>3, <2>4, <2>5, <2>6
<1>9. And(x[k], m[k]) = network[k]
  <2> DEFINE p == OctetValues - m[k]
  <2>1. p \in Weights \cup OctetSizes /\ OctetValues - 1 - m[k] = p - 1
    BY <1>2, <1>3, <1>4
  <2>2. \A y \in Net!Addresses : And(y[k], m[k]) + (y[k] % p) = y[k]
    <3> TAKE y \in Net!Addresses
    <3>1. And(y[k], m[k]) + And(y[k], p - 1) = y[k]
      BY <2>1, MaskedOctets
    <3>2. And(y[k], p - 1) = y[k] % p
      BY <1>4, <2>1, LowBits
    <3> QED
      BY <3>1, <3>2
  <2>3. \A y \in Net!Addresses : y[k] \in Nat /\ And(y[k], m[k]) \in Nat /\ y[k] % p \in Nat
    <3>1. \A y \in Nat : y % p \in Nat
      BY <2>1 DEF Weights, OctetSizes
    <3>2. \A y \in Net!Addresses : And(y[k], m[k]) \in 0 .. OctetValues - 1
      BY MaskedOctets DEF Net!Octets
    <3> QED
      BY <1>4, <3>1, <3>2
  <2> HIDE DEF p
  <2>4. p \in Nat
    BY <2>1 DEF Weights, OctetSizes
  <2>5. network[k] = a[k] - (a[k] % p) /\ last[k] = network[k] + (p - 1)
    BY <1>5, <2>1, <2>2, <2>3
  <2>6. a[k] - (a[k] % p) <= x[k] /\ x[k] <= a[k] - (a[k] % p) + (p - 1)
    BY <1>8, <2>5
  <2>7. x[k] - (x[k] % p) = a[k] - (a[k] % p)
    BY <2>1, <2>3, <2>6, Block
  <2>8. And(x[k], m[k]) = x[k] - (x[k] % p)
    BY <2>2, <2>3
  <2> QED
    BY <2>5, <2>7, <2>8
<1>10. ASSUME NEW i \in 1 .. 4
       PROVE  And(x[i], m[i]) = And(a[i], m[i])
  <2>1. CASE i < k
    BY <1>2, <1>4, <1>5, <1>6, <1>8, <2>1
  <2>2. CASE i = k
    BY <1>5, <1>9, <2>2
  <2>3. CASE i > k
    BY <1>2, <1>4, <1>6, <2>3
  <2> QED
    BY <2>1, <2>2, <2>3
<1> QED
  BY <1>10, SameOctets DEF Net!Masked

-----------------------------------------------------------------------------
(* The list of addresses.                                                  *)

NetMask == Net!inet_aton(netmask)
Counted(k) == Net!Number(networkNumber) + k

\* What the loop of calculate() keeps true, from its first turn to its end.
Calculated ==
    /\ networkNumber = Net!Masked(Net!Own(ip, gateway), NetMask)
    /\ broadcast = Net!Filled(networkNumber, NetMask)
    /\ allAddresses \in Seq(Net!Addresses)
    /\ \A k \in 1 .. Len(allAddresses) : Net!Number(allAddresses[k]) = Counted(k - 1)
    /\ IF n = Net!NotRunning
       THEN Net!Number(broadcast) = Counted(Len(allAddresses))
       ELSE /\ n \in Net!Addresses
            /\ Net!Number(n) = Counted(Len(allAddresses))
            /\ Net!Number(n) <= Net!Number(broadcast)

NetInv ==
    /\ ip \in Texts \cup {Empty}
    /\ gateway \in Gateways \cup {Empty}
    /\ netmask \in Netmasks \cup {Empty}
    /\ (n = Net!NotRunning /\ netmask = Empty) \/ Calculated

LEMMA Read ==
    \A text \in Texts \cup Gateways \cup Netmasks \cup {Empty} :
        Net!inet_aton(text) \in Net!Addresses
<1> TAKE text \in Texts \cup Gateways \cup Netmasks \cup {Empty}
<1>1. Net!Zero \in Net!Addresses
  BY NetAssumption DEF Net!Zero, Net!Addresses, Net!Octets, OctetSizes
<1>2. text \in Net!Addresses \cup {Empty, Unreadable}
  BY NetAssumption
<1> QED
  BY <1>1, <1>2 DEF Net!inet_aton

LEMMA OwnRead ==
    ASSUME NEW i \in Texts \cup {Empty}, NEW g \in Gateways \cup {Empty}
    PROVE  Net!Own(i, g) \in Net!Addresses
  BY Read DEF Net!Own

LEMMA NotAnAddress == Net!NotRunning \notin Net!Addresses
<1> SUFFICES ASSUME <<>> \in [1 .. 4 -> Net!Octets] PROVE FALSE
  BY DEF Net!NotRunning, Net!Addresses
<1>1. DOMAIN <<>> = 1 .. 4
  OBVIOUS
<1>2. DOMAIN <<>> = 1 .. 0
  OBVIOUS
<1> QED
  BY <1>1, <1>2

LEMMA NetInitial == Net!Init => NetInv
  BY DEF Net!Init, NetInv

LEMMA NetCalculate ==
    ASSUME NEW i \in Texts, NEW g \in Gateways, NEW m \in Netmasks, Net!Calculate(i, g, m)
    PROVE  NetInv'
<1> DEFINE mask == Net!inet_aton(m)
           network == Net!Masked(Net!Own(i, g), mask)
           last == Net!Filled(network, mask)
<1>1. mask \in Net!Addresses /\ Net!Own(i, g) \in Net!Addresses
  BY Read, OwnRead
<1>2. /\ network \in Net!Addresses /\ last \in Net!Addresses
      /\ Net!Number(network) <= Net!Number(last)
  BY <1>1, Between
<1>3. /\ ip' = i /\ gateway' = g /\ netmask' = m
      /\ networkNumber' = network /\ broadcast' = last /\ allAddresses' = <<>> /\ n' = network
  BY DEF Net!Calculate
<1>4. NetMask' = mask /\ Net!Own(ip', gateway') = Net!Own(i, g)
  BY <1>3 DEF NetMask, Net!inet_aton
<1> HIDE DEF mask, network, last
<1>5. Net!Number(network) \in Nat
  BY <1>2, Digits
<1>6. network # Net!NotRunning
  BY <1>2, NotAnAddress
<1>7. allAddresses' \in Seq(Net!Addresses) /\ Len(allAddresses') = 0
  BY <1>3
<1>8. Calculated'
  <2>1. networkNumber' = Net!Masked(Net!Own(ip', gateway'), NetMask')
        /\ broadcast' = Net!Filled(networkNumber', NetMask')
    BY <1>3, <1>4 DEF network, last
  <2>2. n' \in Net!Addresses /\ n' # Net!NotRunning /\ Net!Number(n') <= Net!Number(broadcast')
    BY <1>2, <1>3, <1>6
  <2>3. Net!Number(n') = Net!Number(networkNumber') + Len(allAddresses')
    BY <1>3, <1>5, <1>7
  <2> QED
    BY <1>7, <2>1, <2>2, <2>3 DEF Calculated, Counted, Net!NotRunning
<1> QED
  BY <1>3, <1>8 DEF NetInv

LEMMA NetTurn ==
    ASSUME NetInv, Net!NextAddress
    PROVE  NetInv'
<1>1. Calculated /\ n # Net!NotRunning /\ n # broadcast
  BY DEF NetInv, Net!NextAddress
<1>2. /\ allAddresses' = Append(allAddresses, n) /\ n' = Net!Successor(n)
      /\ ip' = ip /\ gateway' = gateway /\ netmask' = netmask
      /\ networkNumber' = networkNumber /\ broadcast' = broadcast
  BY DEF Net!NextAddress
<1>3. /\ n \in Net!Addresses /\ allAddresses \in Seq(Net!Addresses)
      /\ Net!Number(n) = Counted(Len(allAddresses)) /\ Net!Number(n) <= Net!Number(broadcast)
  BY <1>1 DEF Calculated
<1>4. networkNumber \in Net!Addresses /\ broadcast \in Net!Addresses
  <2>1. NetMask \in Net!Addresses /\ Net!Own(ip, gateway) \in Net!Addresses
    BY Read, OwnRead DEF NetInv, NetMask
  <2> QED
    BY <1>1, <2>1, Between DEF Calculated
<1>5. /\ Net!Number(n) \in Nat /\ Net!Number(broadcast) \in Nat /\ Net!Number(networkNumber) \in Nat
  BY <1>3, <1>4, Digits
<1>6. Net!Number(n) < Net!Number(broadcast)
  BY <1>1, <1>3, <1>4, <1>5, OneNumber
<1>7. n' \in Net!Addresses /\ Net!Number(n') = Net!Number(n) + 1
  BY <1>2, <1>3, <1>4, <1>6, Counts
<1>8. /\ allAddresses' \in Seq(Net!Addresses) /\ Len(allAddresses') = Len(allAddresses) + 1
      /\ Len(allAddresses) \in Nat
      /\ \A k \in 1 .. Len(allAddresses) : allAddresses'[k] = allAddresses[k]
      /\ allAddresses'[Len(allAddresses) + 1] = n
  BY <1>2, <1>3
<1>9. NetMask' = NetMask /\ Net!Own(ip', gateway') = Net!Own(ip, gateway)
  BY <1>2 DEF NetMask, Net!inet_aton
<1>10. \A k \in 1 .. Len(allAddresses') :
           Net!Number(allAddresses'[k]) = Net!Number(networkNumber) + (k - 1)
  <2> TAKE k \in 1 .. Len(allAddresses')
  <2>1. CASE k \in 1 .. Len(allAddresses)
    BY <1>1, <1>8, <2>1 DEF Calculated, Counted
  <2>2. CASE k = Len(allAddresses) + 1
    BY <1>3, <1>8, <2>2 DEF Counted
  <2> QED
    BY <1>8, <2>1, <2>2
<1>11. Calculated'
  <2>1. networkNumber' = Net!Masked(Net!Own(ip', gateway'), NetMask')
        /\ broadcast' = Net!Filled(networkNumber', NetMask')
    BY <1>1, <1>2, <1>9 DEF Calculated
  <2>2. n' # Net!NotRunning
    BY <1>7, NotAnAddress
  <2>3. /\ Net!Number(n') = Net!Number(networkNumber') + Len(allAddresses')
        /\ Net!Number(n') <= Net!Number(broadcast')
    BY <1>2, <1>3, <1>5, <1>6, <1>7, <1>8 DEF Counted
  <2> QED
    BY <1>2, <1>7, <1>8, <1>10, <2>1, <2>2, <2>3 DEF Calculated, Counted, Net!NotRunning
<1> QED
  BY <1>2, <1>11 DEF NetInv

LEMMA NetEnd ==
    ASSUME NetInv, Net!EndOfLoop
    PROVE  NetInv'
<1>1. /\ n = broadcast /\ n' = Net!NotRunning
      /\ ip' = ip /\ gateway' = gateway /\ netmask' = netmask
      /\ networkNumber' = networkNumber /\ broadcast' = broadcast
      /\ allAddresses' = allAddresses
  BY DEF Net!EndOfLoop
<1>2. NetMask' = NetMask /\ Net!Own(ip', gateway') = Net!Own(ip, gateway)
  BY <1>1 DEF NetMask, Net!inet_aton
<1>3. CASE n # Net!NotRunning
  <2>1. Calculated
    BY <1>3 DEF NetInv
  <2>2. Calculated'
    BY <1>1, <1>2, <1>3, <2>1 DEF Calculated, Counted, Net!NotRunning
  <2> QED
    BY <1>1, <2>2 DEF NetInv
<1>4. CASE n = Net!NotRunning
  BY <1>1, <1>2, <1>4 DEF NetInv, Calculated, Counted, Net!NotRunning
<1> QED
  BY <1>3, <1>4

LEMMA NetStep == NetInv /\ [Net!Next]_netVars => NetInv'
<1> SUFFICES ASSUME NetInv, [Net!Next]_netVars PROVE NetInv'
  OBVIOUS
<1>1. CASE \E i \in Texts, g \in Gateways, m \in Netmasks : Net!Calculate(i, g, m)
  BY <1>1, NetCalculate
<1>2. CASE Net!NextAddress
  BY <1>2, NetTurn
<1>3. CASE Net!EndOfLoop
  BY <1>3, NetEnd
<1>4. CASE UNCHANGED netVars
  <2>1. NetMask' = NetMask
    BY <1>4 DEF NetMask, Net!inet_aton, netVars
  <2> QED
    BY <1>4, <2>1 DEF NetInv, Calculated, Counted, netVars, Net!NotRunning
<1> QED
  BY <1>1, <1>2, <1>3, <1>4 DEF Net!Next

\* From the first number to the last, one after the other: the subnet is among them,
\* and without a hole in the netmask nothing else is.
LEMMA NetInvImplies == NetInv => Net!AddressesRight
<1> SUFFICES ASSUME NetInv PROVE Net!AddressesRight
  OBVIOUS
<1>1. n # Net!NotRunning => n \in Net!Addresses /\ Net!Number(n) <= Net!Number(broadcast)
  BY DEF NetInv, Calculated
<1>2. ASSUME n = Net!NotRunning, netmask # Empty
      PROVE  /\ Len(allAddresses) = Net!Number(broadcast) - Net!Number(networkNumber)
             /\ \A k \in 1 .. Len(allAddresses) :
                   Net!Number(allAddresses[k]) = Net!Number(networkNumber) + k - 1
             /\ Net!Subnet \subseteq Net!Listed \cup {broadcast}
             /\ Net!Contiguous(NetMask) => Net!Listed = Net!Subnet \ {broadcast}
  <2>1. Calculated
    BY <1>2 DEF NetInv
  <2> DEFINE own == Net!Own(ip, gateway)
  <2>2. NetMask \in Net!Addresses /\ own \in Net!Addresses
    BY Read, OwnRead DEF NetInv, NetMask
  <2> HIDE DEF own
  <2>3. networkNumber = Net!Masked(own, NetMask) /\ broadcast = Net!Filled(Net!Masked(own, NetMask), NetMask)
    BY <2>1 DEF Calculated, own
  <2>4. networkNumber \in Net!Addresses /\ broadcast \in Net!Addresses
    BY <2>2, <2>3, Between
  <2>5. \A a \in Net!Addresses : Net!Number(a) \in Nat
    BY Digits
  <2>6. Net!Number(networkNumber) \in Nat /\ Net!Number(broadcast) \in Nat
    BY <2>4, <2>5
  <2> DEFINE first == Net!Number(networkNumber)
             size  == Len(allAddresses)
  <2>7. /\ size \in Nat
        /\ \A k \in 1 .. size : allAddresses[k] \in Net!Addresses
    BY <2>1 DEF Calculated
  <2>8. /\ Net!Number(broadcast) = first + size
        /\ \A k \in 1 .. size : Net!Number(allAddresses[k]) = first + (k - 1)
    BY <1>2, <2>1 DEF Calculated, Counted
  <2>9. Net!Subnet = {a \in Net!Addresses : Net!Masked(a, NetMask) = networkNumber}
    BY <2>3 DEF Net!Subnet, NetMask, own
  <2> HIDE DEF first, size
  <2>10. ASSUME NEW a \in Net!Subnet, a # broadcast
         PROVE  a \in Net!Listed
    <3>1. a \in Net!Addresses /\ Net!Masked(a, NetMask) = Net!Masked(own, NetMask)
      BY <2>3, <2>9
    <3>2. first <= Net!Number(a) /\ Net!Number(a) <= Net!Number(broadcast)
      BY <2>2, <2>3, <3>1, Between DEF first
    <3>3. Net!Number(a) # Net!Number(broadcast)
      BY <2>4, <2>10, <3>1, OneNumber
    <3> DEFINE k == Net!Number(a) - first + 1
    <3>4. k \in 1 .. size /\ first + (k - 1) = Net!Number(a)
      BY <2>5, <2>6, <2>7, <2>8, <3>1, <3>2, <3>3 DEF first
    <3>5. allAddresses[k] = a
      BY <2>7, <2>8, <3>1, <3>4, OneNumber
    <3> QED
      BY <3>4, <3>5 DEF Net!Listed, size
  <2>11. ASSUME Net!Contiguous(NetMask), NEW a \in Net!Listed
         PROVE  a \in Net!Subnet /\ a # broadcast
    <3>1. PICK k \in 1 .. size : a = allAddresses[k]
      BY DEF Net!Listed, size
    <3>2. a \in Net!Addresses /\ Net!Number(a) = first + (k - 1)
      BY <2>7, <2>8, <3>1
    <3>3. first <= Net!Number(a) /\ Net!Number(a) < Net!Number(broadcast)
      BY <2>6, <2>7, <2>8, <3>2 DEF first
    <3>4. a # broadcast
      BY <2>6, <3>3
    <3>5. Net!Number(a) <= Net!Number(broadcast)
      BY <2>5, <2>6, <3>2, <3>3
    <3>6. Net!Masked(a, NetMask) = Net!Masked(own, NetMask)
      BY <2>2, <2>3, <2>11, <3>2, <3>3, <3>5, NothingElse DEF first
    <3> QED
      BY <2>3, <2>9, <3>2, <3>4, <3>6
  <2>12. size = Net!Number(broadcast) - first
         /\ \A k \in 1 .. size : Net!Number(allAddresses[k]) = first + k - 1
    BY <2>6, <2>7, <2>8 DEF first
  <2>13. broadcast \notin Net!Listed \/ ~ Net!Contiguous(NetMask)
    BY <2>11
  <2> QED
    BY <2>10, <2>11, <2>12 DEF first, size
<1> QED
  BY <1>1, <1>2 DEF Net!AddressesRight, NetMask

\* Of any octets of up to eight bits and all addresses and netmasks of them, holes
\* or not (QNetworkAddress.cpp:38-75).
THEOREM AddressesAreRight == QtSpec => []AddressesRight
<1>1. QtInit => NetInv
  BY NetInitial DEF QtInit
<1>2. NetInv /\ [QtNext]_<<vars, netVars>> => NetInv'
  <2>1. [QtNext]_<<vars, netVars>> => [Net!Next]_netVars
    BY DEF QtNext, UseCrypt, UseNet
  <2> QED
    BY <2>1, NetStep
<1>3. NetInv => AddressesRight
  BY NetInvImplies DEF AddressesRight
<1> QED
  BY <1>1, <1>2, <1>3, PTL DEF QtSpec

-----------------------------------------------------------------------------
(* Induction and recursion over the positions of a sequence.               *)

LEMMA Least ==
    ASSUME NEW T, T \subseteq Nat, T # {}
    PROVE  \E x \in T : \A y \in T : x <= y
<1> DEFINE Below == {0 .. x - 1 : x \in T}
<1>1. Below \subseteq FiniteSubsetsOf(Nat)
  <2>1. ASSUME NEW x \in T
        PROVE  0 .. x - 1 \in SUBSET Nat /\ IsFiniteSet(0 .. x - 1)
    <3>1. x - 1 \in Int /\ 0 \in Int /\ 0 .. x - 1 \in SUBSET Nat
      OBVIOUS
    <3> QED
      BY <3>1, FS_Interval
  <2> QED
    BY <2>1 DEF FiniteSubsetsOf
<1>2. \E s \in Below : \A t \in Below : <<t, s>> \notin StrictSubsetOrdering(Nat)
  <2> HIDE DEF Below
  <2>1. Below # {}
    BY DEF Below
  <2> QED
    BY <1>1, <2>1, FS_StrictSubsetOrderingWellFounded, WFMin, Zenon
<1>3. PICK x \in T : \A y \in T : <<0 .. y - 1, 0 .. x - 1>> \notin StrictSubsetOrdering(Nat)
  BY <1>2
<1>4. ASSUME NEW y \in T, ~ (x <= y)
      PROVE  FALSE
  <2>1. 0 .. y - 1 \subseteq 0 .. x - 1 /\ 0 .. x - 1 \subseteq Nat
    BY <1>4
  <2>2. y \in 0 .. x - 1 /\ y \notin 0 .. y - 1
    BY <1>4
  <2> QED
    BY <2>1, <2>2, <1>3 DEF StrictSubsetOrdering
<1> QED
  BY <1>4

\* A set that holds 0 and the successor of each of its elements up to len.
LEMMA Induction ==
    ASSUME NEW len \in Nat, NEW T, 0 \in T, \A i \in 1 .. len : i - 1 \in T => i \in T
    PROVE  0 .. len \subseteq T
<1> DEFINE rest == (0 .. len) \ T
<1>1. SUFFICES ASSUME rest # {} PROVE FALSE
  OBVIOUS
<1>2. rest \subseteq Nat
  OBVIOUS
<1>3. PICK x \in rest : \A y \in rest : x <= y
  BY <1>1, <1>2, Least
<1>4. x \in 1 .. len /\ x - 1 \in 0 .. len
  OBVIOUS
<1>5. x - 1 \in T
  BY <1>3, <1>4
<1> QED
  BY <1>4, <1>5

\* A step that stays in S can be repeated.
Steps(len, S) == [(1 .. len) \X S -> S]

Repeated(len, S, start, step) ==
    \E f \in [0 .. len -> S] : f[0] = start /\ \A i \in 1 .. len : f[i] = step[<<i, f[i - 1]>>]

LEMMA Recursion ==
    ASSUME NEW len \in Nat, NEW S, NEW start \in S, NEW step \in Steps(len, S)
    PROVE  Repeated(len, S, start, step)
<1> DEFINE Upto(m) == \E f \in [0 .. m -> S] :
                          f[0] = start /\ \A i \in 1 .. m : f[i] = step[<<i, f[i - 1]>>]
           T == {m \in 0 .. len : Upto(m)}
<1>1. 0 \in T
  <2> DEFINE f == [i \in 0 .. 0 |-> start]
  <2>1. f \in [0 .. 0 -> S] /\ f[0] = start /\ \A i \in 1 .. 0 : f[i] = step[<<i, f[i - 1]>>]
    OBVIOUS
  <2>2. Upto(0)
    BY <2>1
  <2> QED
    BY <2>2
<1>2. ASSUME NEW m \in 1 .. len, m - 1 \in T
      PROVE  m \in T
  <2>1. PICK f \in [0 .. m - 1 -> S] :
            f[0] = start /\ \A i \in 1 .. m - 1 : f[i] = step[<<i, f[i - 1]>>]
    BY <1>2
  <2> DEFINE next == step[<<m, f[m - 1]>>]
             g == [i \in 0 .. m |-> IF i = m THEN next ELSE f[i]]
  <2>2. m - 1 \in 0 .. m - 1 /\ f[m - 1] \in S
    OBVIOUS
  <2>3. next \in S
    BY <2>2 DEF Steps
  <2> HIDE DEF next
  <2>4. g \in [0 .. m -> S]
    BY <2>3
  <2>5. g[0] = start
    BY <2>1
  <2>6. ASSUME NEW i \in 1 .. m
        PROVE  g[i] = step[<<i, g[i - 1]>>]
    <3>1. i - 1 \in 0 .. m /\ g[i - 1] = f[i - 1]
      OBVIOUS
    <3>2. CASE i = m
      BY <3>1, <3>2 DEF next
    <3>3. CASE i # m
      BY <2>1, <3>1, <3>3
    <3> QED
      BY <3>2, <3>3
  <2>7. Upto(m)
    <3> HIDE DEF g
    <3> QED
      BY <2>4, <2>5, <2>6
  <2> QED
    BY <2>7
<1>3. 0 .. len \subseteq T
  <2> HIDE DEF T
  <2> QED
    BY <1>1, <1>2, Induction
<1> QED
  BY <1>3 DEF Repeated

-----------------------------------------------------------------------------
(* The chain of bytes.                                                     *)

LEMMA XorOfBytes ==
    \A a, b \in Byte :
        /\ XorTable[<<a, b>>] \in Byte
        /\ XorTable[<<XorTable[<<a, b>>], b>>] = a
        /\ XorTable[<<a, XorTable[<<a, b>>]>>] = b
<1>1. \A a, b \in Byte : XorTable[<<a, b>>] = Xor(a, b)
  BY DEF XorTable
<1>2. \A a, b \in Byte : Xor(a, b) \in Byte /\ Xor(Xor(a, b), b) = a /\ Xor(a, Xor(a, b)) = b
  BY XorLaws, InputsAssumption DEF Byte
<1> HIDE DEF XorTable
<1> TAKE a, b \in Byte
<1>3. XorTable[<<a, b>>] = Xor(a, b) /\ Xor(a, b) \in Byte
  BY <1>1, <1>2
<1>4. XorTable[<<Xor(a, b), b>>] = a /\ XorTable[<<a, Xor(a, b)>>] = b
  BY <1>1, <1>2, <1>3
<1> QED
  BY <1>3, <1>4

LEMMA ZeroByte == 0 \in Byte /\ Values \in Nat \ {0}
  BY InputsAssumption DEF Byte, OctetSizes

\* A key of any length splits into bytes.
LEMMA SplitType ==
    ASSUME NEW key \in Nat
    PROVE  Split(key) \in [1 .. KeyBytes -> Byte]
<1>1. KeyBytes \in Nat /\ Values \in Nat \ {0}
  BY InputsAssumption, ZeroByte
<1> DEFINE Is(f) == f = [i \in 0 .. KeyBytes |-> IF i = 0 THEN key ELSE f[i - 1] \div Values]
<1>2. PICK step \in Steps(KeyBytes, Nat) :
          \A i \in 1 .. KeyBytes, x \in Nat : step[<<i, x>>] = x \div Values
  <2> DEFINE step == [p \in (1 .. KeyBytes) \X Nat |-> p[2] \div Values]
  <2>1. step \in Steps(KeyBytes, Nat)
    BY <1>1 DEF Steps
  <2>2. \A i \in 1 .. KeyBytes, x \in Nat : step[<<i, x>>] = x \div Values
    OBVIOUS
  <2> QED
    BY <2>1, <2>2
<1>3. Repeated(KeyBytes, Nat, key, step)
  BY <1>1, Recursion
<1>4. PICK f \in [0 .. KeyBytes -> Nat] :
          f[0] = key /\ \A i \in 1 .. KeyBytes : f[i] = step[<<i, f[i - 1]>>]
  BY <1>3 DEF Repeated
<1>5. Is(f)
  <2>1. \A i \in 1 .. KeyBytes : f[i - 1] \in Nat
    BY <1>1
  <2>2. \A i \in 1 .. KeyBytes : f[i] = f[i - 1] \div Values
    BY <1>2, <1>4, <2>1
  <2>3. f = [i \in 0 .. KeyBytes |-> f[i]]
    OBVIOUS
  <2>4. ASSUME NEW i \in 0 .. KeyBytes
        PROVE  f[i] = IF i = 0 THEN key ELSE f[i - 1] \div Values
    BY <1>4, <2>2
  <2> QED
    BY <2>3, <2>4
<1>6. Is(Shifted(key))
  BY <1>5 DEF Shifted
<1>7. \A i \in 1 .. KeyBytes : Shifted(key)[i - 1] \in Nat
  <2> DEFINE T == {i \in 0 .. KeyBytes : Shifted(key)[i] \in Nat}
  <2>1. 0 \in T
    BY <1>1, <1>6
  <2>2. ASSUME NEW i \in 1 .. KeyBytes, i - 1 \in T PROVE i \in T
    <3>1. Shifted(key)[i] = Shifted(key)[i - 1] \div Values
      BY <1>1, <1>6
    <3>2. \A x \in Nat, y \in Nat \ {0} : x \div y \in Nat
      OBVIOUS
    <3>3. i \in 0 .. KeyBytes /\ Shifted(key)[i - 1] \in Nat
      BY <2>2
    <3> QED
      BY <1>1, <3>1, <3>2, <3>3
  <2>3. 0 .. KeyBytes \subseteq T
    <3> HIDE DEF T
    <3> QED
      BY <1>1, <2>1, <2>2, Induction
  <2> QED
    BY <1>1, <2>3
<1> QED
  BY <1>1, <1>7 DEF Split, Byte

KeyParts == [1 .. KeyBytes -> Byte]

LEMMA KeyPartType ==
    ASSUME NEW parts \in KeyParts, NEW i \in Nat \ {0}
    PROVE  KeyPart(parts, i) \in Byte
<1>1. KeyBytes \in Nat \ {0}
  BY InputsAssumption
<1>2. \A x \in Nat, y \in Nat \ {0} : (x % y) + 1 \in 1 .. y
  OBVIOUS
<1>3. i - 1 \in Nat
  OBVIOUS
<1>4. ((i - 1) % KeyBytes) + 1 \in 1 .. KeyBytes
  BY <1>1, <1>2, <1>3
<1> QED
  BY <1>4 DEF KeyPart, KeyParts

\* The byte before one: none before the first.
Before(ba, i) == IF i = 1 THEN 0 ELSE ba[i - 1]

\* What the loop of encryptToByteArray leaves at each position.
LEMMA ChainedBytes ==
    ASSUME NEW parts \in KeyParts, NEW ba \in Seq(Byte)
    PROVE  /\ Chained(parts, ba) \in [1 .. Len(ba) -> Byte]
           /\ \A i \in 1 .. Len(ba) :
                 Chained(parts, ba)[i]
                   = XorTable[<<XorTable[<<ba[i], KeyPart(parts, i)>>], Before(Chained(parts, ba), i)>>]
<1> DEFINE len == Len(ba)
<1>1. len \in Nat /\ \A i \in 1 .. len : ba[i] \in Byte /\ i \in Nat \ {0}
  OBVIOUS
<1>2. \A i \in 1 .. len : XorTable[<<ba[i], KeyPart(parts, i)>>] \in Byte
  BY <1>1, KeyPartType, XorOfBytes
<1> HIDE DEF len
<1> DEFINE Is(f) == f = [i \in 0 .. len |->
               IF i = 0 THEN 0 ELSE XorTable[<<XorTable[<<ba[i], KeyPart(parts, i)>>], f[i - 1]>>]]
<1>3. PICK step \in Steps(len, Byte) :
          \A i \in 1 .. len, x \in Byte :
              step[<<i, x>>] = XorTable[<<XorTable[<<ba[i], KeyPart(parts, i)>>], x>>]
  <2> DEFINE step == [p \in (1 .. len) \X Byte |->
                         XorTable[<<XorTable[<<ba[p[1]], KeyPart(parts, p[1])>>], p[2]>>]]
  <2>1. step \in Steps(len, Byte)
    <3>1. ASSUME NEW i \in 1 .. len, NEW x \in Byte
          PROVE  XorTable[<<XorTable[<<ba[i], KeyPart(parts, i)>>], x>>] \in Byte
      BY <1>2, XorOfBytes
    <3> QED
      BY <3>1 DEF Steps
  <2>2. \A i \in 1 .. len, x \in Byte :
            step[<<i, x>>] = XorTable[<<XorTable[<<ba[i], KeyPart(parts, i)>>], x>>]
    OBVIOUS
  <2> QED
    BY <2>1, <2>2
<1>4. Repeated(len, Byte, 0, step)
  BY <1>1, ZeroByte, Recursion
<1>5. PICK f \in [0 .. len -> Byte] :
          f[0] = 0 /\ \A i \in 1 .. len : f[i] = step[<<i, f[i - 1]>>]
  BY <1>4 DEF Repeated
<1>6. Is(f)
  <2>1. \A i \in 1 .. len : f[i - 1] \in Byte
    BY <1>1
  <2>2. \A i \in 1 .. len : f[i] = XorTable[<<XorTable[<<ba[i], KeyPart(parts, i)>>], f[i - 1]>>]
    BY <1>3, <1>5, <2>1
  <2>3. f = [i \in 0 .. len |-> f[i]]
    OBVIOUS
  <2>4. ASSUME NEW i \in 0 .. len
        PROVE  f[i] = IF i = 0 THEN 0
                      ELSE XorTable[<<XorTable[<<ba[i], KeyPart(parts, i)>>], f[i - 1]>>]
    BY <1>5, <2>2
  <2> QED
    BY <2>3, <2>4
<1> DEFINE out == Chain(parts, ba)
<1>7. Is(out)
  BY <1>6 DEF Chain, len
<1> HIDE DEF out
<1>8. /\ out[0] = 0
      /\ \A i \in 1 .. len : out[i] = XorTable[<<XorTable[<<ba[i], KeyPart(parts, i)>>], out[i - 1]>>]
  BY <1>1, <1>7
<1> HIDE DEF Is
<1>9. \A i \in 0 .. len : out[i] \in Byte
  <2> DEFINE T == {i \in 0 .. len : out[i] \in Byte}
  <2>1. 0 \in T
    BY <1>1, <1>8, ZeroByte
  <2>2. ASSUME NEW i \in 1 .. len, i - 1 \in T PROVE i \in T
    <3>1. out[i - 1] \in Byte /\ XorTable[<<ba[i], KeyPart(parts, i)>>] \in Byte
      BY <1>2, <2>2
    <3>2. out[i] \in Byte
      BY <1>8, <3>1, XorOfBytes
    <3> QED
      BY <1>1, <3>2
  <2>3. 0 .. len \subseteq T
    <3> HIDE DEF T
    <3> QED
      BY <1>1, <2>1, <2>2, Induction
  <2> QED
    BY <2>3
<1>10. Chained(parts, ba) = [i \in 1 .. len |-> out[i]]
  BY DEF Chained, out, len
<1>11. Chained(parts, ba) \in [1 .. len -> Byte] /\ \A i \in 1 .. len : Chained(parts, ba)[i] = out[i]
  BY <1>1, <1>9, <1>10
<1>12. \A i \in 1 .. len : out[i - 1] = Before(Chained(parts, ba), i)
  BY <1>1, <1>8, <1>11 DEF Before
<1> QED
  BY <1>8, <1>11, <1>12 DEF len

\* Where the two bytes it depends on are as they were encrypted, a byte is decrypted to
\* itself; where one of them was altered, to another.
LEMMA UnchainedByte ==
    ASSUME NEW key \in Byte, NEW old \in Byte, NEW before \in Byte,
           NEW b \in Byte, NEW other \in Byte
    PROVE  LET new == XorTable[<<XorTable[<<old, key>>], before>>]
               Back(x, y) == XorTable[<<XorTable[<<x, y>>], key>>]
           IN  /\ Back(new, before) = old
               /\ b # new => Back(b, before) # old
               /\ other # before => Back(new, other) # old
<1> DEFINE keyed == XorTable[<<old, key>>]
           new == XorTable[<<keyed, before>>]
<1>1. keyed \in Byte /\ new \in Byte
  BY XorOfBytes
<1>2. XorTable[<<new, before>>] = keyed /\ XorTable[<<keyed, key>>] = old
  BY <1>1, XorOfBytes
<1> HIDE DEF keyed, new
<1>3. \A x \in Byte : XorTable[<<x, key>>] = old => x = keyed
  BY XorOfBytes DEF keyed
<1>4. XorTable[<<b, before>>] \in Byte /\ XorTable[<<new, other>>] \in Byte
  BY <1>1, XorOfBytes
<1>5. XorTable[<<b, before>>] = keyed => b = new
  <2>1. XorTable[<<XorTable[<<b, before>>], before>>] = b
    BY XorOfBytes
  <2> QED
    BY <2>1 DEF new
<1>6. XorTable[<<new, other>>] = keyed => other = before
  <2>1. XorTable[<<new, XorTable[<<new, other>>]>>] = other
    BY <1>1, XorOfBytes
  <2>2. XorTable[<<new, XorTable[<<new, before>>]>>] = before
    BY <1>1, XorOfBytes
  <2> QED
    BY <1>2, <2>1, <2>2
<1>7. /\ XorTable[<<XorTable[<<new, before>>], key>>] = old
      /\ b # new => XorTable[<<XorTable[<<b, before>>], key>>] # old
      /\ other # before => XorTable[<<XorTable[<<new, other>>], key>>] # old
  BY <1>2, <1>3, <1>4, <1>5, <1>6
<1> QED
  BY <1>7 DEF new, keyed

LEMMA Sequence ==
    ASSUME NEW len \in Nat, NEW ba \in [1 .. len -> Byte]
    PROVE  ba \in Seq(Byte) /\ Len(ba) = len
  OBVIOUS

LEMMA Joined ==
    ASSUME NEW x \in Seq(Byte), NEW y \in Seq(Byte)
    PROVE  /\ x \o y \in Seq(Byte) /\ Len(x \o y) = Len(x) + Len(y)
           /\ \A i \in 1 .. Len(x) : (x \o y)[i] = x[i]
           /\ \A i \in 1 .. Len(y) : (x \o y)[i + Len(x)] = y[i]
<1>1. x \o y \in Seq(Byte) /\ Len(x \o y) = Len(x) + Len(y)
  OBVIOUS
<1>2. \A i \in 1 .. Len(x) : (x \o y)[i] = x[i]
  OBVIOUS
<1>3. \A i \in 1 .. Len(y) : (x \o y)[i + Len(x)] = y[i]
  OBVIOUS
<1> QED
  BY <1>1, <1>2, <1>3

\* The loop of decryptToByteArray, on what is left of a chain.
LEMMA Decoded ==
    ASSUME NEW parts \in KeyParts, NEW whole \in Seq(Byte),
           NEW len \in 0 .. Len(whole), NEW body \in [1 .. len -> Byte]
    PROVE  LET made == Chained(parts, whole)
               read == Unchained(parts, body)
           IN  /\ read \in [1 .. len -> Byte]
               /\ \A i \in 1 .. len :
                     /\ body[i] = made[i] /\ Before(body, i) = Before(made, i) => read[i] = whole[i]
                     /\ body[i] = made[i] /\ Before(body, i) # Before(made, i) => read[i] # whole[i]
                     /\ body[i] # made[i] /\ Before(body, i) = Before(made, i) => read[i] # whole[i]
<1> DEFINE made == Chained(parts, whole)
           read == Unchained(parts, body)
<1>1. /\ made \in [1 .. Len(whole) -> Byte]
      /\ \A i \in 1 .. Len(whole) :
            made[i] = XorTable[<<XorTable[<<whole[i], KeyPart(parts, i)>>], Before(made, i)>>]
  BY ChainedBytes
<1>2. len \in Nat /\ Len(whole) \in Nat /\ Len(body) = len
      /\ \A i \in 1 .. len : i \in 1 .. Len(whole) /\ i \in Nat \ {0} /\ whole[i] \in Byte
  BY Sequence
<1>3. read = [i \in 1 .. len |-> XorTable[<<XorTable[<<body[i], Before(body, i)>>], KeyPart(parts, i)>>]]
  BY <1>2 DEF Unchained, Before
<1> HIDE DEF made, read
<1>4. \A i \in 1 .. len : /\ Before(body, i) \in Byte /\ Before(made, i) \in Byte
                          /\ body[i] \in Byte /\ made[i] \in Byte /\ KeyPart(parts, i) \in Byte
  BY <1>1, <1>2, ZeroByte, KeyPartType DEF Before
<1>5. read \in [1 .. len -> Byte]
  BY <1>3, <1>4, XorOfBytes
<1>6. ASSUME NEW i \in 1 .. len
      PROVE  /\ body[i] = made[i] /\ Before(body, i) = Before(made, i) => read[i] = whole[i]
             /\ body[i] = made[i] /\ Before(body, i) # Before(made, i) => read[i] # whole[i]
             /\ body[i] # made[i] /\ Before(body, i) = Before(made, i) => read[i] # whole[i]
  <2> DEFINE key == KeyPart(parts, i)
             old == whole[i]
             before == Before(made, i)
             b == body[i]
             other == Before(body, i)
             new == made[i]
  <2>1. /\ new = XorTable[<<XorTable[<<old, key>>], before>>]
        /\ read[i] = XorTable[<<XorTable[<<b, other>>], key>>]
    BY <1>1, <1>2, <1>3
  <2>2. key \in Byte /\ old \in Byte /\ before \in Byte /\ b \in Byte /\ other \in Byte
    BY <1>2, <1>4
  <2> HIDE DEF key, old, before, b, other, new
  <2>3. /\ XorTable[<<XorTable[<<new, before>>], key>>] = old
        /\ b # new => XorTable[<<XorTable[<<b, before>>], key>>] # old
        /\ other # before => XorTable[<<XorTable[<<new, other>>], key>>] # old
    BY <2>1, <2>2, UnchainedByte, SMTT(30)
  <2>4. /\ b = new /\ other = before => read[i] = old
        /\ b = new /\ other # before => read[i] # old
        /\ b # new /\ other = before => read[i] # old
    BY <2>1, <2>3
  <2> QED
    BY <2>4 DEF key, old, before, b, other, new
<1> QED
  BY <1>5, <1>6 DEF made, read

-----------------------------------------------------------------------------
(* What a decryption returns.                                              *)

Whole(random, check, content) == <<random>> \o CheckOf(check, content) \o content

LEMMA WholeBytes ==
    ASSUME NEW random \in Byte, NEW check \in ProtectionModes, NEW content \in Contents
    PROVE  LET whole == Whole(random, check, content)
               size  == CheckSize(check)
           IN  /\ size \in Nat /\ content \in Seq(Byte)
               /\ CheckOf(check, content) \in [1 .. size -> Byte]
               /\ whole \in Seq(Byte)
               /\ Len(whole) = 1 + size + Len(content)
               /\ \A i \in 1 .. size : whole[i + 1] = CheckOf(check, content)[i]
               /\ \A i \in 1 .. Len(content) : whole[i + (1 + size)] = content[i]
<1> DEFINE whole == Whole(random, check, content)
           size  == CheckSize(check)
           value == CheckOf(check, content)
<1>1. size \in Nat /\ content \in Seq(Byte) /\ value \in [1 .. size -> Byte]
  <2>1. content \in Seq(Byte) /\ Len(content) \in Nat
    BY QtAssumption
  <2>2. CASE check = "None"
    BY <2>1, <2>2 DEF CheckOf, CheckSize
  <2>3. CASE check = "Checksum"
    BY <2>1, <2>3, QtAssumption DEF CheckOf, CheckSize
  <2>4. CASE check = "Hash"
    BY <2>1, <2>4, QtAssumption DEF CheckOf, CheckSize
  <2> QED
    BY <2>2, <2>3, <2>4 DEF ProtectionModes
<1>2. value \in Seq(Byte) /\ Len(value) = size
  BY <1>1, Sequence
<1>3. whole = (<<random>> \o value) \o content
  BY DEF Whole
<1> HIDE DEF whole, size, value
<1> DEFINE head == <<random>> \o value
<1>4. /\ head \in Seq(Byte) /\ Len(head) = 1 + size
      /\ \A i \in 1 .. size : head[i + 1] = value[i]
  BY <1>1, <1>2
<1> HIDE DEF head
<1>5. /\ whole \in Seq(Byte) /\ Len(whole) = 1 + size + Len(content)
      /\ \A i \in 1 .. 1 + size : whole[i] = head[i]
      /\ \A i \in 1 .. Len(content) : whole[i + (1 + size)] = content[i]
  <2>1. whole = head \o content
    BY <1>3 DEF head
  <2>2. head \in Seq(Byte) /\ content \in Seq(Byte)
    BY <1>1, <1>4
  <2>3. /\ head \o content \in Seq(Byte) /\ Len(head \o content) = Len(head) + Len(content)
        /\ \A i \in 1 .. Len(head) : (head \o content)[i] = head[i]
        /\ \A i \in 1 .. Len(content) : (head \o content)[i + Len(head)] = content[i]
    BY <2>2, Joined, Zenon
  <2> QED
    BY <1>4, <2>1, <2>3
<1>6. \A i \in 1 .. size : whole[i + 1] = value[i]
  <2>1. TAKE i \in 1 .. size
  <2>2. i + 1 \in 1 .. 1 + size
    BY <1>1
  <2>3. whole[i + 1] = head[i + 1]
    BY <1>5, <2>2
  <2>4. head[i + 1] = value[i]
    BY <1>4
  <2> QED
    BY <2>3, <2>4
<1> QED
  BY <1>1, <1>5, <1>6 DEF whole, size, value

\* What follows the random character, and its two parts.
LEMMA Parted ==
    ASSUME NEW size \in Nat, NEW len \in Nat \ {0}, NEW read \in [1 .. len -> Byte]
    PROVE  LET ba    == Tail(read)
               value == SubSeq(ba, 1, size)
               rest  == SubSeq(ba, size + 1, Len(ba))
           IN  /\ Len(ba) = len - 1
               /\ size <= len - 1 =>
                     /\ value \in [1 .. size -> Byte]
                     /\ \A i \in 1 .. size : value[i] = read[i + 1]
                     /\ rest \in [1 .. len - 1 - size -> Byte]
                     /\ \A i \in 1 .. len - 1 - size : rest[i] = read[i + (1 + size)]
<1> DEFINE ba    == Tail(read)
           value == SubSeq(ba, 1, size)
           rest  == SubSeq(ba, size + 1, Len(ba))
<1>1. read \in Seq(Byte) /\ Len(read) = len
  BY Sequence
<1>2. ba \in Seq(Byte) /\ Len(ba) = len - 1 /\ \A i \in 1 .. len - 1 : ba[i] = read[i + 1]
  BY <1>1
<1> HIDE DEF ba
<1>3. ASSUME size <= len - 1
      PROVE  /\ value \in [1 .. size -> Byte]
             /\ \A i \in 1 .. size : value[i] = read[i + 1]
  <2>1. value = [i \in 1 .. size |-> ba[i]]
    BY <1>2, <1>3
  <2>2. \A i \in 1 .. size : i \in 1 .. len - 1 /\ ba[i] \in Byte
    BY <1>2, <1>3
  <2> QED
    BY <1>2, <2>1, <2>2
<1>4. ASSUME size <= len - 1
      PROVE  /\ rest \in [1 .. len - 1 - size -> Byte]
             /\ \A i \in 1 .. len - 1 - size : rest[i] = read[i + (1 + size)]
  <2>1. rest = [i \in 1 .. len - 1 - size |-> ba[i + size]]
    BY <1>2, <1>4
  <2>2. \A i \in 1 .. len - 1 - size : i + size \in 1 .. len - 1 /\ ba[i + size] \in Byte
    BY <1>2, <1>4
  <2>3. \A i \in 1 .. len - 1 - size : ba[i + size] = read[i + (1 + size)]
    BY <1>2, <2>2
  <2> QED
    BY <2>1, <2>2, <2>3
<1> QED
  BY <1>2, <1>3, <1>4 DEF ba

\* A cyphertext that was not damaged.
LEMMA ReadBack ==
    ASSUME NEW parts \in KeyParts, NEW random \in Byte,
           NEW check \in ProtectionModes, NEW content \in Contents
    PROVE  LET ba   == Tail(Unchained(parts, Chained(parts, Whole(random, check, content))))
               size == CheckSize(check)
           IN  /\ ~ (Len(ba) < size)
               /\ SubSeq(ba, 1, size) = CheckOf(check, content)
               /\ SubSeq(ba, size + 1, Len(ba)) = content
<1> DEFINE whole == Whole(random, check, content)
           len   == Len(whole)
           size  == CheckSize(check)
           value == CheckOf(check, content)
           made  == Chained(parts, whole)
           read  == Unchained(parts, made)
           ba    == Tail(read)
           first == SubSeq(ba, 1, size)
           rest  == SubSeq(ba, size + 1, Len(ba))
<1>1. /\ size \in Nat /\ content \in Seq(Byte) /\ value \in [1 .. size -> Byte]
      /\ whole \in Seq(Byte) /\ len = 1 + size + Len(content)
      /\ \A i \in 1 .. size : whole[i + 1] = value[i]
      /\ \A i \in 1 .. Len(content) : whole[i + (1 + size)] = content[i]
  BY WholeBytes
<1> HIDE DEF whole, size, value
<1>2. made \in [1 .. len -> Byte]
  BY <1>1, ChainedBytes
<1> HIDE DEF made
<1>3. len \in Nat \ {0} /\ len \in 0 .. Len(whole) /\ Len(content) \in Nat
  BY <1>1
<1>4. read \in [1 .. len -> Byte] /\ \A i \in 1 .. len : read[i] = whole[i]
  <2>1. /\ read \in [1 .. len -> Byte]
        /\ \A i \in 1 .. len :
              made[i] = made[i] /\ Before(made, i) = Before(made, i) => read[i] = whole[i]
    <3>1. whole \in Seq(Byte) /\ len \in 0 .. Len(whole) /\ made \in [1 .. len -> Byte]
      BY <1>1, <1>2, <1>3
    <3> HIDE DEF len
    <3> QED
      BY <3>1, Decoded, Zenon DEF made, read
  <2> QED
    BY <2>1
<1> HIDE DEF read, len
<1>5. /\ Len(ba) = len - 1
      /\ size <= len - 1 =>
            /\ first \in [1 .. size -> Byte]
            /\ \A i \in 1 .. size : first[i] = read[i + 1]
            /\ rest \in [1 .. len - 1 - size -> Byte]
            /\ \A i \in 1 .. len - 1 - size : rest[i] = read[i + (1 + size)]
  <2>1. size \in Nat /\ len \in Nat \ {0} /\ read \in [1 .. len -> Byte]
    BY <1>1, <1>3, <1>4
  <2> QED
    BY <2>1, Parted, ZenonT(40)
<1> HIDE DEF ba, first, rest
<1>6. size <= len - 1 /\ len - 1 - size = Len(content)
  BY <1>1, <1>3
<1>7. first = value
  <2>1. \A i \in 1 .. size : i + 1 \in 1 .. len /\ first[i] = value[i]
    <3> TAKE i \in 1 .. size
    <3>1. i + 1 \in 1 .. len
      BY <1>1, <1>3, <1>6
    <3>2. first[i] = read[i + 1] /\ whole[i + 1] = value[i]
      BY <1>1, <1>5, <1>6
    <3> QED
      BY <1>4, <3>1, <3>2
  <2> QED
    BY <1>1, <1>5, <1>6, <2>1
<1>8. rest = content
  <2>1. \A i \in 1 .. Len(content) : i + (1 + size) \in 1 .. len
    BY <1>1, <1>3
  <2>2. \A i \in 1 .. Len(content) : rest[i] = content[i]
    <3> TAKE i \in 1 .. Len(content)
    <3>1. rest[i] = read[i + (1 + size)] /\ whole[i + (1 + size)] = content[i]
      BY <1>1, <1>5, <1>6
    <3>2. read[i + (1 + size)] = whole[i + (1 + size)]
      BY <1>4, <2>1
    <3> QED
      BY <3>1, <3>2
  <2>3. rest \in [1 .. Len(content) -> Byte] /\ content \in [1 .. Len(content) -> Byte]
    BY <1>1, <1>5, <1>6
  <2> QED
    BY <2>2, <2>3
<1>9. ~ (Len(ba) < size)
  BY <1>1, <1>3, <1>5, <1>6
<1> QED
  BY <1>7, <1>8, <1>9 DEF whole, size, value, made, read, ba, first, rest

\* What is left after a damage: a beginning, or two bytes next to each other that changed.
Tampered(read, len, whole) ==
    \/ len < Len(whole) /\ \A i \in 1 .. len : read[i] = whole[i]
    \/ /\ len = Len(whole)
       /\ \E j \in 1 .. len :
             /\ \A i \in 1 .. len : i = j \/ i = j + 1 \/ read[i] = whole[i]
             /\ \A i \in 1 .. len : i = j \/ i = j + 1 => read[i] # whole[i]

\* The hash finds the damage, wherever it is: in what was hashed, in the hash, or in the
\* random character before it, which alters the first byte of the hash; unless the content
\* that is left and the one that was encrypted collide.
LEMMA Detected ==
    ASSUME NEW random \in Byte, NEW content \in Contents,
           NEW len \in Nat \ {0}, NEW read \in [1 .. len -> Byte],
           Tampered(read, len, Whole(random, "Hash", content))
    PROVE  LET ba == Tail(read)
               rest == SubSeq(ba, HashSize + 1, Len(ba))
           IN  \/ Len(ba) < HashSize \/ SubSeq(ba, 1, HashSize) # Hash(rest)
               \/ Collides(rest, content)
<1> DEFINE whole == Whole(random, "Hash", content)
           size  == HashSize
           ba    == Tail(read)
           first == SubSeq(ba, 1, size)
           rest  == SubSeq(ba, size + 1, Len(ba))
<1>1. /\ size \in Nat \ {0} /\ content \in Seq(Byte) /\ Hash(content) \in [1 .. size -> Byte]
      /\ Len(whole) = 1 + size + Len(content)
      /\ \A i \in 1 .. size : whole[i + 1] = Hash(content)[i]
      /\ \A i \in 1 .. Len(content) : whole[i + (1 + size)] = content[i]
  <2>1. "Hash" \in ProtectionModes /\ CheckSize("Hash") = HashSize
        /\ CheckOf("Hash", content) = Hash(content)
    BY DEF ProtectionModes, CheckSize, CheckOf
  <2>2. HashSize \in Nat \ {0}
    BY QtAssumption
  <2>3. /\ content \in Seq(Byte)
        /\ CheckOf("Hash", content) \in [1 .. CheckSize("Hash") -> Byte]
        /\ Len(whole) = 1 + CheckSize("Hash") + Len(content)
        /\ \A i \in 1 .. CheckSize("Hash") : whole[i + 1] = CheckOf("Hash", content)[i]
        /\ \A i \in 1 .. Len(content) : whole[i + (1 + CheckSize("Hash"))] = content[i]
    BY <2>1, WholeBytes, Zenon
  <2> QED
    BY <2>1, <2>2, <2>3
<1>2. Tampered(read, len, whole)
  OBVIOUS
<1> HIDE DEF whole, size
<1>3. /\ Len(ba) = len - 1
      /\ size <= len - 1 =>
            /\ first \in [1 .. size -> Byte]
            /\ \A i \in 1 .. size : first[i] = read[i + 1]
            /\ rest \in [1 .. len - 1 - size -> Byte]
            /\ \A i \in 1 .. len - 1 - size : rest[i] = read[i + (1 + size)]
  BY <1>1, Parted
<1> HIDE DEF ba, first, rest
<1>4. ASSUME size <= len - 1, first = Hash(rest), ~ Collides(rest, content)
      PROVE  FALSE
  <2> DEFINE left == len - 1 - size
  <2>1. left \in Nat /\ Len(content) \in Nat /\ left <= Len(content)
    BY <1>1, <1>2, <1>4 DEF Tampered
  <2>2. rest \in Seq(Byte) /\ Len(rest) = left
    BY <1>3, <1>4, <2>1, Sequence
  <2>3. rest # content => \E i \in 1 .. size - 1 : read[i + 1] # whole[i + 1]
    <3>2. rest # content => \E i \in 1 .. size - 1 : Hash(rest)[i] # Hash(content)[i]
      BY <1>4, <2>1, <2>2 DEF Collides, size
    <3>3. \A i \in 1 .. size - 1 : i \in 1 .. size
      BY <1>1
    <3> QED
      BY <1>1, <1>3, <1>4, <3>2, <3>3
  <2>4. rest = content => left = Len(content) /\ \A i \in 1 .. size : read[i + 1] = whole[i + 1]
    BY <1>1, <1>3, <1>4, <2>2
  <2>5. CASE len < Len(whole) /\ \A i \in 1 .. len : read[i] = whole[i]
    <3>1. left < Len(content)
      BY <1>1, <2>1, <2>5
    <3>2. rest # content
      BY <2>1, <2>2, <3>1
    <3>3. \A i \in 1 .. size - 1 : i + 1 \in 1 .. len
      BY <1>1, <1>4
    <3> QED
      BY <2>3, <2>5, <3>2, <3>3
  <2>6. CASE /\ len = Len(whole)
             /\ \E j \in 1 .. len :
                   /\ \A i \in 1 .. len : i = j \/ i = j + 1 \/ read[i] = whole[i]
                   /\ \A i \in 1 .. len : i = j \/ i = j + 1 => read[i] # whole[i]
    <3>1. PICK j \in 1 .. len :
              /\ \A i \in 1 .. len : i = j \/ i = j + 1 \/ read[i] = whole[i]
              /\ \A i \in 1 .. len : i = j \/ i = j + 1 => read[i] # whole[i]
      BY <2>6
    <3>2. left = Len(content)
      BY <1>1, <2>1, <2>6
    <3>3. CASE rest = content
      <4>1. \A i \in 1 .. left : i + (1 + size) \in 1 .. len /\ read[i + (1 + size)] = whole[i + (1 + size)]
        BY <1>1, <1>3, <1>4, <2>1, <3>2, <3>3
      <4>2. j <= size + 1
        <5>1. ASSUME j > size + 1 PROVE FALSE
          <6> DEFINE i == j - (1 + size)
          <6>1. i \in 1 .. left /\ i + (1 + size) = j
            BY <1>1, <5>1
          <6>2. read[j] = whole[j]
            BY <4>1, <6>1
          <6> QED
            BY <3>1, <6>2
        <5> QED
          BY <1>1, <5>1
      <4>3. PICK i \in 1 .. size : i + 1 = j \/ i + 1 = j + 1
        <5>1. CASE j = 1
          <6>1. 1 \in 1 .. size /\ 1 + 1 = j + 1
            BY <1>1, <5>1
          <6> QED
            BY <6>1
        <5>2. CASE j # 1
          <6>1. j - 1 \in 1 .. size /\ (j - 1) + 1 = j
            BY <1>1, <4>2, <5>2
          <6> QED
            BY <6>1
        <5> QED
          BY <5>1, <5>2
      <4>4. i + 1 \in 1 .. len
        BY <1>1, <1>4
      <4>5. read[i + 1] # whole[i + 1]
        BY <3>1, <4>3, <4>4
      <4> QED
        BY <2>4, <3>3, <4>5
    <3>4. CASE rest # content
      <4>1. PICK i \in 1 .. size - 1 : read[i + 1] # whole[i + 1]
        BY <2>3, <3>4
      <4>2. i + 1 \in 1 .. size /\ i + 1 \in 1 .. len
        BY <1>1, <1>4
      <4>3. j <= size
        <5>1. i + 1 = j \/ i + 1 = j + 1
          BY <3>1, <4>1, <4>2
        <5>2. i \in Int /\ j \in Int /\ size \in Int /\ i <= size - 1
          BY <1>1
        <5> QED
          BY <5>1, <5>2
      <4>4. \A k \in 1 .. left : read[k + (1 + size)] = whole[k + (1 + size)]
        <5> TAKE k \in 1 .. left
        <5>1. k + (1 + size) \in 1 .. len /\ k + (1 + size) # j /\ k + (1 + size) # j + 1
          BY <1>1, <2>1, <4>3
        <5> QED
          BY <3>1, <5>1
      <4>5. \A k \in 1 .. left : rest[k] = content[k]
        BY <1>1, <1>3, <1>4, <3>2, <4>4
      <4>6. rest \in [1 .. left -> Byte] /\ content \in [1 .. left -> Byte]
        BY <1>1, <1>3, <1>4, <3>2
      <4>7. rest = [k \in 1 .. left |-> rest[k]] /\ content = [k \in 1 .. left |-> content[k]]
        BY <4>6
      <4>8. rest = content
        BY <4>5, <4>7, Zenon
      <4> QED
        BY <3>4, <4>8
    <3> QED
      BY <3>3, <3>4
  <2> QED
    BY <1>2, <2>5, <2>6 DEF Tampered
<1>5. Len(ba) < size \/ first # Hash(rest) \/ Collides(rest, content)
  BY <1>1, <1>3, <1>4
<1> QED
  BY <1>5 DEF size, ba, first, rest

\* An altered byte alters the byte at its place and the next one, no other.
LEMMA AlteredTampers ==
    ASSUME NEW parts \in KeyParts, NEW whole \in Seq(Byte), NEW j \in 1 .. Len(whole),
           NEW b \in Byte, b # Chained(parts, whole)[j]
    PROVE  LET body == [Chained(parts, whole) EXCEPT ![j] = b] IN
           /\ body \in [1 .. Len(whole) -> Byte]
           /\ Tampered(Unchained(parts, body), Len(whole), whole)
<1> DEFINE made == Chained(parts, whole)
           body == [made EXCEPT ![j] = b]
           read == Unchained(parts, body)
           len  == Len(whole)
<1>1. made \in [1 .. len -> Byte] /\ len \in Nat
  BY ChainedBytes
<1>2. b # made[j]
  OBVIOUS
<1> HIDE DEF made
<1>3. /\ body \in [1 .. len -> Byte]
      /\ body[j] # made[j] /\ \A i \in 1 .. len : i # j => body[i] = made[i]
  BY <1>1, <1>2
<1>4. \A i \in 1 .. len : /\ i = j + 1 => Before(body, i) # Before(made, i)
                          /\ i # j + 1 => Before(body, i) = Before(made, i)
  <2> HIDE DEF body
  <2> TAKE i \in 1 .. len
  <2>1. CASE i = 1
    BY <2>1 DEF Before
  <2>2. CASE i # 1
    <3>1. i - 1 \in 1 .. len
      BY <1>1, <2>2
    <3> QED
      BY <1>3, <2>2, <3>1 DEF Before
  <2> QED
    BY <2>1, <2>2
<1> HIDE DEF body
<1>5. \A i \in 1 .. len :
          /\ body[i] = made[i] /\ Before(body, i) = Before(made, i) => read[i] = whole[i]
          /\ body[i] = made[i] /\ Before(body, i) # Before(made, i) => read[i] # whole[i]
          /\ body[i] # made[i] /\ Before(body, i) = Before(made, i) => read[i] # whole[i]
  <2>1. len \in 0 .. Len(whole)
    BY <1>1
  <2> HIDE DEF len
  <2> QED
    BY <1>3, <2>1, Decoded, Zenon DEF made
<1> HIDE DEF read
<1>6. \A i \in 1 .. len : i = j \/ i = j + 1 \/ read[i] = whole[i]
  BY <1>3, <1>4, <1>5
<1>7. \A i \in 1 .. len : i = j \/ i = j + 1 => read[i] # whole[i]
  <2>1. j # j + 1
    OBVIOUS
  <2> QED
    BY <1>3, <1>4, <1>5, <2>1
<1>8. Tampered(read, len, whole)
  BY <1>1, <1>6, <1>7 DEF Tampered
<1> QED
  BY <1>3, <1>8 DEF made, body, read

LEMMA CutTampers ==
    ASSUME NEW parts \in KeyParts, NEW whole \in Seq(Byte), NEW len \in 1 .. Len(whole) - 1
    PROVE  LET body == SubSeq(Chained(parts, whole), 1, len) IN
           /\ body \in [1 .. len -> Byte]
           /\ Tampered(Unchained(parts, body), len, whole)
<1> DEFINE made == Chained(parts, whole)
           body == SubSeq(made, 1, len)
           read == Unchained(parts, body)
<1>1. /\ made \in [1 .. Len(whole) -> Byte] /\ Len(whole) \in Nat
      /\ len \in 0 .. Len(whole) /\ len < Len(whole)
  BY ChainedBytes
<1> HIDE DEF made
<1>2. body = [i \in 1 .. len |-> made[i]]
  BY <1>1
<1>3. body \in [1 .. len -> Byte] /\ \A i \in 1 .. len : body[i] = made[i]
  <2>1. \A i \in 1 .. len : i \in 1 .. Len(whole)
    BY <1>1
  <2> QED
    BY <1>1, <1>2, <2>1
<1> HIDE DEF body
<1>4. \A i \in 1 .. len : Before(body, i) = Before(made, i)
  <2> TAKE i \in 1 .. len
  <2>1. CASE i = 1
    BY <2>1 DEF Before
  <2>2. CASE i # 1
    <3>1. i - 1 \in 1 .. len
      BY <2>2
    <3> QED
      BY <1>3, <2>2, <3>1 DEF Before
  <2> QED
    BY <2>1, <2>2
<1>5. \A i \in 1 .. len :
          body[i] = made[i] /\ Before(body, i) = Before(made, i) => read[i] = whole[i]
  BY <1>1, <1>3, Decoded, Zenon DEF made
<1> HIDE DEF read
<1>6. Tampered(read, len, whole)
  BY <1>1, <1>3, <1>4, <1>5 DEF Tampered
<1> QED
  BY <1>3, <1>6 DEF made, body, read

-----------------------------------------------------------------------------
(* What is kept, and what a decryption of it returns.                      *)

ContentOf(packed, plain) == IF packed THEN Compress(plain) ELSE plain

Damages(key, whole, version, body) ==
    \/ version # Version /\ Len(body) \in Nat
    \/ body = <<>>
    \/ \E len \in 1 .. Len(whole) :
          body \in [1 .. len -> Byte] /\ Tampered(Unchained(key, body), len, whole)

\* The cyphertext is what was made from this, or what a damage left of it.
KeptAs(from, kept, key, check, packed, plain, random, damage, version, body) ==
    LET whole == Whole(random, check, ContentOf(packed, plain)) IN
    /\ from = [plain |-> plain, keyParts |-> key, check |-> check, damage |-> damage]
    /\ kept = Cypher(version, [compressed |-> packed, check |-> check], body)
    /\ IF damage = "none"
       THEN version = Version /\ body = Chained(key, whole)
       ELSE Damages(key, whole, version, body)

Kept ==
    \E key \in KeyParts, check \in ProtectionModes, packed \in BOOLEAN,
       plain \in Plaintexts, random \in Byte, damage \in {"none", "altered", "cut"} :
        \E version, body :
            KeptAs(origin, stored, key, check, packed, plain, random, damage, version, body)

CryptInv ==
    /\ keyParts = <<>> \/ keyParts \in KeyParts
    /\ protection \in ProtectionModes
    /\ stored # Nothing => Kept
    /\ PlainOrNothing

LEMMA ContentUsed ==
    ASSUME NEW plain \in Plaintexts, NEW packed \in BOOLEAN
    PROVE  ContentOf(packed, plain) \in Contents
  BY DEF ContentOf, Contents

LEMMA CryptInitial == Init => CryptInv
  BY DEF Init, CryptInv, ProtectionModes, PlainOrNothing

\* Only a decryption returns something.
LEMMA NothingReturned == returned = Nothing => PlainOrNothing
  BY DEF PlainOrNothing

LEMMA CryptEncrypt ==
    ASSUME CryptInv, NEW plain \in Plaintexts, NEW random \in Randoms, Encrypt(plain, random)
    PROVE  CryptInv'
<1>1. returned' = Nothing /\ keyParts' = keyParts /\ protection' = protection
  BY DEF Encrypt
<1>2. PlainOrNothing'
  BY <1>1 DEF PlainOrNothing
<1>3. CASE keyParts = <<>>
  <2>1. stored' = stored /\ origin' = origin
    BY <1>3 DEF Encrypt
  <2>2. Kept => Kept'
    BY <2>1 DEF Kept
  <2> QED
    BY <1>1, <1>2, <2>1, <2>2 DEF CryptInv
<1>4. CASE keyParts # <<>>
  <2> DEFINE packed == /\ compression # "Never"
                       /\ compression = "Auto" => Len(Compress(plain)) < Len(plain)
             ba == ContentOf(packed, plain)
             whole == Whole(random, protection, ba)
  <2>1. packed \in BOOLEAN
    OBVIOUS
  <2>2. /\ stored' = Cypher(Version, [compressed |-> packed, check |-> protection],
                            Chained(keyParts, whole))
        /\ origin' = [plain |-> plain, keyParts |-> keyParts, check |-> protection,
                      damage |-> "none"]
    BY <1>4 DEF Encrypt, ContentOf, Whole
  <2>3. keyParts \in KeyParts /\ protection \in ProtectionModes /\ random \in Byte
    BY <1>4, InputsAssumption DEF CryptInv
  <2> HIDE DEF packed
  <2>4. KeptAs(origin', stored', keyParts, protection, packed, plain, random, "none", Version,
               Chained(keyParts, whole))
    BY <2>2 DEF KeptAs
  <2> HIDE DEF ba, whole
  <2>5. Kept'
    BY <2>1, <2>3, <2>4 DEF Kept
  <2> QED
    BY <1>1, <1>2, <2>5 DEF CryptInv
<1> QED
  BY <1>3, <1>4

LEMMA CryptAlter ==
    ASSUME CryptInv, Alter
    PROVE  CryptInv'
<1>1. /\ returned' = Nothing /\ keyParts' = keyParts /\ protection' = protection
      /\ origin' = [origin EXCEPT !.damage = "altered"]
      /\ stored # Nothing /\ origin.damage = "none"
  BY DEF Alter, Damageable, Damaged, objectVars
<1>2. PICK key \in KeyParts, check \in ProtectionModes, packed \in BOOLEAN,
           plain \in Plaintexts, random \in Byte, damage \in {"none", "altered", "cut"} :
          \E version, body :
              KeptAs(origin, stored, key, check, packed, plain, random, damage, version, body)
  BY <1>1 DEF CryptInv, Kept
<1> DEFINE whole == Whole(random, check, ContentOf(packed, plain))
           made  == Chained(key, whole)
           flags == [compressed |-> packed, check |-> check]
<1>3. /\ origin = [plain |-> plain, keyParts |-> key, check |-> check, damage |-> damage]
      /\ damage = "none"
      /\ stored = Cypher(Version, flags, made)
  BY <1>1, <1>2 DEF KeptAs
<1>4. origin' = [plain |-> plain, keyParts |-> key, check |-> check, damage |-> "altered"]
  BY <1>1, <1>3
<1>5. whole \in Seq(Byte) /\ Len(whole) \in Nat
  BY ContentUsed, WholeBytes
<1> HIDE DEF whole
<1>6. made \in [1 .. Len(whole) -> Byte] /\ Len(made) = Len(whole)
  BY <1>5, ChainedBytes, Sequence
<1>7. \E version, body : stored' = Cypher(version, flags, body) /\ Damages(key, whole, version, body)
  <2>1. CASE stored' = [stored EXCEPT !.version = 0]
    <3>1. stored' = Cypher(0, flags, made) /\ 0 # Version /\ Len(made) \in Nat
      BY <1>3, <1>5, <1>6, <2>1 DEF Cypher, Version
    <3> QED
      BY <3>1 DEF Damages
  <2>2. ASSUME NEW i \in 1 .. Len(stored.body), NEW b \in Byte,
               b # stored.body[i], stored' = [stored EXCEPT !.body[i] = b]
        PROVE  \E version, body :
                   stored' = Cypher(version, flags, body) /\ Damages(key, whole, version, body)
    <3> DEFINE body == [made EXCEPT ![i] = b]
    <3>1. stored.body = made
      BY <1>3 DEF Cypher
    <3>2. i \in 1 .. Len(whole) /\ b # made[i]
      BY <1>6, <2>2, <3>1
    <3>3. body \in [1 .. Len(whole) -> Byte] /\ Tampered(Unchained(key, body), Len(whole), whole)
      BY <1>5, <3>2, AlteredTampers
    <3>4. stored' = Cypher(Version, flags, body)
      BY <1>3, <2>2 DEF Cypher
    <3>5. Len(whole) \in 1 .. Len(whole)
      BY <1>5, <3>2
    <3> HIDE DEF body
    <3>6. Damages(key, whole, Version, body)
      BY <3>3, <3>5 DEF Damages
    <3> QED
      BY <3>4, <3>6
  <2> QED
    BY <2>1, <2>2 DEF Alter, Damaged
<1>8. Kept'
  <2>1. PICK version, body : stored' = Cypher(version, flags, body) /\ Damages(key, whole, version, body)
    BY <1>7
  <2>2. KeptAs(origin', stored', key, check, packed, plain, random, "altered", version, body)
    BY <1>4, <2>1 DEF KeptAs, whole
  <2> QED
    BY <2>2 DEF Kept
<1>9. PlainOrNothing'
  BY <1>1 DEF PlainOrNothing
<1> QED
  BY <1>1, <1>8, <1>9 DEF CryptInv

LEMMA CryptCut ==
    ASSUME CryptInv, Cut
    PROVE  CryptInv'
<1>1. /\ returned' = Nothing /\ keyParts' = keyParts /\ protection' = protection
      /\ origin' = [origin EXCEPT !.damage = "cut"]
      /\ stored # Nothing /\ origin.damage = "none"
  BY DEF Cut, Damageable, Damaged, objectVars
<1>2. PICK key \in KeyParts, check \in ProtectionModes, packed \in BOOLEAN,
           plain \in Plaintexts, random \in Byte, damage \in {"none", "altered", "cut"} :
          \E version, body :
              KeptAs(origin, stored, key, check, packed, plain, random, damage, version, body)
  BY <1>1 DEF CryptInv, Kept
<1> DEFINE whole == Whole(random, check, ContentOf(packed, plain))
           made  == Chained(key, whole)
           flags == [compressed |-> packed, check |-> check]
<1>3. /\ origin = [plain |-> plain, keyParts |-> key, check |-> check, damage |-> damage]
      /\ damage = "none"
      /\ stored = Cypher(Version, flags, made)
  BY <1>1, <1>2 DEF KeptAs
<1>4. origin' = [plain |-> plain, keyParts |-> key, check |-> check, damage |-> "cut"]
  BY <1>1, <1>3
<1>5. whole \in Seq(Byte) /\ Len(whole) \in Nat
  BY ContentUsed, WholeBytes
<1> HIDE DEF whole
<1>6. Len(made) = Len(whole)
  BY <1>5, ChainedBytes, Sequence
<1>7. stored.body = made
  BY <1>3 DEF Cypher
<1>8. PICK len \in 0 .. Len(whole) - 1 : stored' = [stored EXCEPT !.body = SubSeq(@, 1, len)]
  BY <1>6, <1>7 DEF Cut, Damaged
<1> DEFINE body == SubSeq(made, 1, len)
<1>9. stored' = Cypher(Version, flags, body)
  BY <1>3, <1>8 DEF Cypher
<1>10. Damages(key, whole, Version, body)
  <2>1. CASE len = 0
    <3>1. body = <<>>
      BY <2>1
    <3> QED
      BY <3>1 DEF Damages
  <2>2. CASE len # 0
    <3>1. len \in 1 .. Len(whole) - 1 /\ len \in 1 .. Len(whole)
      BY <1>5, <2>2
    <3>2. body \in [1 .. len -> Byte] /\ Tampered(Unchained(key, body), len, whole)
      BY <1>5, <3>1, CutTampers
    <3> HIDE DEF body
    <3> QED
      BY <3>1, <3>2 DEF Damages
  <2> QED
    BY <2>1, <2>2
<1>11. Kept'
  <2> HIDE DEF body
  <2>1. KeptAs(origin', stored', key, check, packed, plain, random, "cut", Version, body)
    BY <1>4, <1>9, <1>10 DEF KeptAs, whole
  <2> QED
    BY <2>1 DEF Kept
<1>12. PlainOrNothing'
  BY <1>1 DEF PlainOrNothing
<1> QED
  BY <1>1, <1>11, <1>12 DEF CryptInv

LEMMA CryptDecrypt ==
    ASSUME CryptInv, Decrypt
    PROVE  CryptInv'
<1>1. /\ stored # Nothing
      /\ keyParts' = keyParts /\ protection' = protection /\ stored' = stored /\ origin' = origin
  BY DEF Decrypt
<1>2. PICK key \in KeyParts, check \in ProtectionModes, packed \in BOOLEAN,
           plain \in Plaintexts, random \in Byte, damage \in {"none", "altered", "cut"} :
          \E version, body :
              KeptAs(origin, stored, key, check, packed, plain, random, damage, version, body)
  BY <1>1 DEF CryptInv, Kept
<1>3. PICK version, body :
          KeptAs(origin, stored, key, check, packed, plain, random, damage, version, body)
  BY <1>2
<1> DEFINE content == ContentOf(packed, plain)
           whole   == Whole(random, check, content)
           made    == Chained(key, whole)
           size    == CheckSize(check)
           ba      == Tail(Unchained(key, body))
           first   == SubSeq(ba, 1, size)
           rest    == SubSeq(ba, size + 1, Len(ba))
<1>4. /\ origin.plain = plain /\ origin.keyParts = key
      /\ origin.check = check /\ origin.damage = damage
      /\ stored.version = version /\ stored.body = body
      /\ stored.flags.compressed = packed /\ stored.flags.check = check
      /\ IF damage = "none" THEN version = Version /\ body = made ELSE Damages(key, whole, version, body)
  BY <1>3 DEF KeptAs, Cypher
<1>5. content \in Contents
  BY ContentUsed
<1>6. whole \in Seq(Byte) /\ Len(whole) \in Nat \ {0}
  BY <1>5, WholeBytes
<1>7. key # <<>>
  BY InputsAssumption DEF KeyParts
<1> HIDE DEF content, whole, made, size, ba, first, rest
<1>8. ASSUME keyParts = key, damage = "none"
      PROVE  returned' = plain /\ lastError' = "NoError"
  <2>1. made \in [1 .. Len(whole) -> Byte] /\ Len(body) = Len(whole)
    BY <1>4, <1>6, <1>8, ChainedBytes, Sequence DEF made
  <2>2. ~ (SizeOf(stored) < 3)
    BY <1>4, <1>6, <2>1 DEF SizeOf
  <2>3. Unpack(stored)
    BY <1>4, <1>7, <1>8, <2>2 DEF Decrypt
  <2>4. ~ (Len(ba) < size) /\ first = CheckOf(check, content) /\ rest = content
    <3>1. body = made
      BY <1>4, <1>8
    <3> QED
      BY <1>5, <3>1, ReadBack, ZenonT(40) DEF ba, made, whole, size, first, rest
  <2>5. lastError' = "NoError" /\ returned' = IF packed THEN Uncompress(rest) ELSE rest
    BY <1>4, <1>8, <2>3, <2>4 DEF Unpack, ba, size, first, rest
  <2> QED
    BY <2>4, <2>5, QtAssumption DEF content, ContentOf
<1>9. ASSUME keyParts = key, damage # "none", check = "Hash"
      PROVE  returned' = <<>> \/ Collides(rest, content)
  <2>1. CASE body = <<>>
    <3>1. SizeOf(stored) = 2
      BY <1>4, <2>1 DEF SizeOf
    <3> QED
      BY <1>7, <1>9, <3>1 DEF Decrypt, Fail
  <2>2. CASE version # Version /\ Len(body) \in Nat
    <3>1. SizeOf(stored) \in Nat
      BY <1>4, <2>2 DEF SizeOf
    <3> QED
      BY <1>4, <1>7, <1>9, <2>2, <3>1 DEF Decrypt, Fail
  <2>3. ASSUME version = Version, NEW len \in 1 .. Len(whole),
               body \in [1 .. len -> Byte], Tampered(Unchained(key, body), len, whole)
        PROVE  returned' = <<>> \/ Collides(rest, content)
    <3>1. len \in Nat \ {0} /\ len \in 0 .. Len(whole) /\ Len(body) = len
      BY <1>6, <2>3, Sequence
    <3>2. Unchained(key, body) \in [1 .. len -> Byte]
      BY <1>6, <2>3, <3>1, Decoded, Zenon
    <3>3. whole = Whole(random, "Hash", content)
      BY <1>9 DEF whole
    <3>4. size = HashSize /\ CheckOf("Hash", rest) = Hash(rest)
      BY <1>9 DEF size, CheckSize, CheckOf
    <3>5. Len(ba) < size \/ first # Hash(rest) \/ Collides(rest, content)
      BY <1>5, <2>3, <3>1, <3>2, <3>3, <3>4, Detected DEF ba, first, rest
    <3>6. ~ (SizeOf(stored) < 3)
      BY <1>4, <3>1 DEF SizeOf
    <3>7. Unpack(stored)
      BY <1>4, <1>7, <1>9, <2>3, <3>6 DEF Decrypt
    <3> QED
      BY <1>4, <1>9, <3>4, <3>5, <3>7 DEF Unpack, Fail, ba, size, first, rest
  <2> QED
    BY <1>4, <1>9, <2>1, <2>2, <2>3 DEF Damages
<1>10. PlainOrNothing'
  <2>1. Encrypted' = content
    BY <1>1, <1>4 DEF Encrypted, content, ContentOf
  <2>2. ASSUME keyParts = key, check = "Hash" PROVE Found' = rest
    BY <1>1, <1>4, <2>2 DEF Found, rest, ba, size, CheckSize
  <2> QED
    BY <1>1, <1>4, <1>8, <1>9, <2>1, <2>2 DEF PlainOrNothing, SameKey
<1>11. Kept'
  BY <1>1 DEF CryptInv, Kept
<1> QED
  BY <1>1, <1>10, <1>11 DEF CryptInv

LEMMA CryptStep == CryptInv /\ [Next]_vars => CryptInv'
<1> SUFFICES ASSUME CryptInv, [Next]_vars PROVE CryptInv'
  OBVIOUS
<1>1. ASSUME NEW key \in Keys, SetKey(key) PROVE CryptInv'
  <2>1. /\ keyParts' = Split(key) /\ returned' = Nothing /\ protection' = protection
        /\ stored' = stored /\ origin' = origin
    BY <1>1 DEF SetKey
  <2>2. keyParts' \in KeyParts
    BY <2>1, SplitType, InputsAssumption DEF KeyParts
  <2> QED
    BY <2>1, <2>2 DEF CryptInv, Kept, PlainOrNothing
<1>2. ASSUME NEW mode \in CompressionModes, SetCompressionMode(mode) PROVE CryptInv'
  <2>1. /\ keyParts' = keyParts /\ returned' = Nothing /\ protection' = protection
        /\ stored' = stored /\ origin' = origin
    BY <1>2 DEF SetCompressionMode
  <2> QED
    BY <2>1 DEF CryptInv, Kept, PlainOrNothing
<1>3. ASSUME NEW mode \in ProtectionModes, SetIntegrityProtectionMode(mode) PROVE CryptInv'
  <2>1. /\ keyParts' = keyParts /\ returned' = Nothing /\ protection' = mode
        /\ stored' = stored /\ origin' = origin
    BY <1>3 DEF SetIntegrityProtectionMode
  <2> QED
    BY <2>1 DEF CryptInv, Kept, PlainOrNothing
<1>4. CASE \E plain \in Plaintexts, random \in Randoms : Encrypt(plain, random)
  BY <1>4, CryptEncrypt
<1>5. CASE Decrypt
  BY <1>5, CryptDecrypt
<1>6. CASE Alter
  BY <1>6, CryptAlter
<1>7. CASE Cut
  BY <1>7, CryptCut
<1>8. CASE UNCHANGED vars
  BY <1>8 DEF CryptInv, Kept, PlainOrNothing, SameKey, Found, Encrypted, vars, objectVars
<1> QED
  BY <1>1, <1>2, <1>3, <1>4, <1>5, <1>6, <1>7, <1>8 DEF Next

\* For bytes of any width up to eight bits, and keys, plaintexts, checksums and hashes of
\* any length; decompression inverts compression (SimpleCrypt.cpp:82-139, 176-248).
THEOREM PlainIsReturnedOrNothing == QtSpec => []PlainOrNothing
<1>1. QtInit => CryptInv
  BY CryptInitial DEF QtInit
<1>2. CryptInv /\ [QtNext]_<<vars, netVars>> => CryptInv'
  <2>1. [QtNext]_<<vars, netVars>> => [Next]_vars
    BY DEF QtNext, UseCrypt, UseNet
  <2> QED
    BY <2>1, CryptStep
<1>3. CryptInv => PlainOrNothing
  BY DEF CryptInv
<1> QED
  BY <1>1, <1>2, <1>3, PTL DEF QtSpec

=============================================================================

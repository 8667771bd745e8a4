--------------------------- MODULE QNetworkAddress ---------------------------
(***************************************************************************)
(* QNetworkAddress::calculate: from an address and a netmask, the number   *)
(* of the network, its broadcast address, and the list of all addresses    *)
(* from the one up to the other.                                           *)
(*                                                                         *)
(* An address is its four octets, highest first.  A text is the address it *)
(* stands for, Empty, or Unreadable to inet_aton.                          *)
(***************************************************************************)
EXTENDS Octets, Sequences

CONSTANTS
    OctetValues,  \* bound: the values of an octet (256 in the code)
    Texts,        \* what ip is set to
    Gateways,     \* what gateway is set to
    Netmasks,     \* what netmask is set to
    Empty, Unreadable  \* QtLibrary!NetAssumption is what is assumed of these

Octets == 0 .. OctetValues - 1
Addresses == [1 .. 4 -> Octets]

VARIABLES
    ip, gateway, netmask,  \* the fields calculate() reads
    networkNumber, broadcast, allAddresses,  \* the fields it writes
    n                      \* n1 to n4, while its loop runs

vars == <<ip, gateway, netmask, networkNumber, broadcast, allAddresses, n>>

Zero == [i \in 1 .. 4 |-> 0]
NotRunning == <<>>

\* inet_aton leaves the cleared structure alone when it cannot read the text.
inet_aton(text) == IF text \in {Empty, Unreadable} THEN Zero ELSE text

Masked(a, b) == [i \in 1 .. 4 |-> And(a[i], b[i])]
Filled(a, b) == [i \in 1 .. 4 |-> Or(a[i], OctetValues - 1 - b[i])]

Init ==
    /\ ip = Empty /\ gateway = Empty /\ netmask = Empty
    /\ networkNumber = Zero /\ broadcast = Zero
    /\ allAddresses = <<>>
    /\ n = NotRunning

Own(i, g) == inet_aton(IF i # Empty THEN i ELSE g)

\* The fields are set, as allInterfaces does, and calculate() begins.
Calculate(i, g, m) ==
    LET network == Masked(Own(i, g), inet_aton(m))
    IN  /\ n = NotRunning
        /\ ip' = i /\ gateway' = g /\ netmask' = m
        /\ networkNumber' = network
        /\ broadcast' = Filled(network, inet_aton(m))
        /\ allAddresses' = <<>>
        /\ n' = network

\* Mutant of Successor: the carry stops at the third octet.
SuccessorTwoOctets(a) ==
    IF a[4] < OctetValues - 1 THEN [a EXCEPT ![4] = @ + 1]
    ELSE [a EXCEPT ![3] = @ + 1, ![4] = 0]

\* n4++, and the carries.  n1 may run over.
Successor(a) ==
    LET carry == CHOOSE k \in 1 .. 4 :
                    /\ \A i \in k + 1 .. 4 : a[i] = OctetValues - 1
                    /\ k = 1 \/ a[k] # OctetValues - 1
    IN  [i \in 1 .. 4 |-> IF i < carry THEN a[i] ELSE IF i = carry THEN a[i] + 1 ELSE 0]

\* One turn of the loop.
NextAddress ==
    /\ n # NotRunning /\ n # broadcast
    /\ allAddresses' = Append(allAddresses, n)
    /\ n' = Successor(n)
    /\ UNCHANGED <<ip, gateway, netmask, networkNumber, broadcast>>

EndOfLoop ==
    /\ n = broadcast
    /\ n' = NotRunning
    /\ UNCHANGED <<ip, gateway, netmask, networkNumber, broadcast, allAddresses>>

Next ==
    \/ \E i \in Texts, g \in Gateways, m \in Netmasks : Calculate(i, g, m)
    \/ NextAddress
    \/ EndOfLoop

Spec == Init /\ [][Next]_vars

-----------------------------------------------------------------------------

Number(a) == ((a[1] * OctetValues + a[2]) * OctetValues + a[3]) * OctetValues + a[4]

\* Ones followed by zeros.
Contiguous(mask) ==
    \E k \in 1 .. 4 :
        /\ \A i \in 1 .. k - 1 : mask[i] = OctetValues - 1
        /\ \A i \in k + 1 .. 4 : mask[i] = 0
        /\ OctetValues - mask[k] \in Weights \cup OctetSizes

Subnet == {a \in Addresses : Masked(a, inet_aton(netmask)) = Masked(Own(ip, gateway), inet_aton(netmask))}

Listed == {allAddresses[k] : k \in 1 .. Len(allAddresses)}

\* calculate() lists every address of the subnet but the last, once and in order; for a
\* netmask with a hole the list runs through other subnets' addresses too, and without
\* a netmask through all there are.  The loop, which compares texts for equality, never
\* steps over the broadcast address (QNetworkAddress.cpp:38-75).
AddressesRight ==
    /\ n # NotRunning => n \in Addresses /\ Number(n) <= Number(broadcast)
    /\ n = NotRunning /\ netmask # Empty =>
          /\ Len(allAddresses) = Number(broadcast) - Number(networkNumber)
          /\ \A k \in 1 .. Len(allAddresses) :
                Number(allAddresses[k]) = Number(networkNumber) + k - 1
          /\ Subnet \subseteq Listed \cup {broadcast}
          /\ Contiguous(inet_aton(netmask)) =>
                Listed = Subnet \ {broadcast}

=============================================================================

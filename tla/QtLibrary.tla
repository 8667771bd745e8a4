------------------------------ MODULE QtLibrary ------------------------------
(***************************************************************************)
(* The two classes of the C++ library that compute, in one program: it     *)
(* uses a SimpleCrypt object or a QNetworkAddress object.  They share      *)
(* nothing, so one is left as constructed while the other is used.         *)
(***************************************************************************)
EXTENDS SimpleCrypt

CONSTANTS OctetValues, Texts, Gateways, Netmasks, Empty, Unreadable

VARIABLES ip, gateway, netmask, networkNumber, broadcast, allAddresses, n

netVars == <<ip, gateway, netmask, networkNumber, broadcast, allAddresses, n>>

Net == INSTANCE QNetworkAddress

\* An octet has one to eight bits, and a text is an address or none.
ASSUME NetAssumption ==
    /\ OctetValues \in OctetSizes
    /\ Texts \cup Gateways \cup Netmasks \subseteq Net!Addresses \cup {Empty, Unreadable}

QtInit == Init /\ Net!Init

UseCrypt == netmask = Empty /\ Next /\ UNCHANGED netVars
UseNet   == keyParts = <<>> /\ Net!Next /\ UNCHANGED vars

QtNext == UseCrypt \/ UseNet

QtSpec == QtInit /\ [][QtNext]_<<vars, netVars>>

\* The addresses listed are those of the subnet (QNetworkAddress!AddressesRight).
AddressesRight == Net!AddressesRight

=============================================================================

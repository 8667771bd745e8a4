---------------------------- MODULE MCServerPool ----------------------------
(***************************************************************************)
(* Finite instances of ServerPool for TLC.                                 *)
(***************************************************************************)
EXTENDS ServerPool, TLC

CONSTANTS c1, c2, c3

TwoClients   == {c1, c2}
ThreeClients == {c1, c2, c3}
NoClients    == {}
LastClient   == {c3}
OneTls       == {c2}

\* Plain clients are interchangeable.  Used by the safety runs only.
PlainSymmetry == Permutations(Clients \ TlsClients)

=============================================================================

-------------------------- MODULE MCForwardServer ---------------------------
(***************************************************************************)
(* Finite instances of ForwardServer for TLC.                              *)
(***************************************************************************)
EXTENDS ForwardServer, TLC

CONSTANTS c1, c2

OneClient  == {c1}
TwoClients == {c1, c2}
NoClients  == {}
OneTls     == {c1}

\* A remote end closes its socket; writing to it then resets the connection.
JustCloses   == {"gone"}
AnyDeparture == {"shut", "gone", "reset"}

\* Chunks each end may send: one from the client is enough for the thread from
\* the server to find the flag up.
OneRequest == [e \in Ends |-> IF e = "client" THEN 1 ELSE 0]

PlainSymmetry == Permutations(Clients \ TlsClients)

=============================================================================

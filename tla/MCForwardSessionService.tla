---------------------- MODULE MCForwardSessionService -----------------------
(***************************************************************************)
(* One connection against the service it implements, for TLC.              *)
(***************************************************************************)
EXTENDS ForwardSessionService

CONSTANTS c1

OneClient == {c1}

AnyDeparture == {"shut", "gone", "reset"}

\* Chunks each end may send.
One   == [e \in Ends |-> 1]
Three == [e \in Ends |-> 3]

=============================================================================

--------------------------- MODULE MCHttpConnection ---------------------------
(***************************************************************************)
(* A finite instance of HttpConnection for TLC.                            *)
(***************************************************************************)
EXTENDS HttpConnection

\* Pieces each remote end may send: a body, or data in both directions.
TwoEach == [e \in Ends |-> 2]

=============================================================================

------------------------- MODULE MCEncryptedForward -------------------------
(***************************************************************************)
(* A finite instance of EncryptedForward for TLC.                          *)
(***************************************************************************)
EXTENDS EncryptedForward

CONSTANT c1

OneConnection == {c1}

=============================================================================

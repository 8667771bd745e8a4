--------------------------- MODULE MCLogRotation ---------------------------
(***************************************************************************)
(* A finite instance of LogRotation for TLC.  A message of 3 is longer    *)
(* than a file may be.                                                     *)
(***************************************************************************)
EXTENDS LogRotation

CONSTANTS t1, t2

TwoCallers == {t1, t2}

ShortAndLong == {1, 3}

=============================================================================

-------------------------------- MODULE MCFiles --------------------------------
(***************************************************************************)
(* The app's files for TLC: two in one directory, one in the other.        *)
(***************************************************************************)
EXTENDS Files

CONSTANTS d1, d2, a, b

MCOriginals == {<<d1, a>>, <<d1, b>>, <<d2, a>>}
=============================================================================

----------------------------- MODULE MCZipWriter -----------------------------
(***************************************************************************)
(* Instances of ZipWriter for TLC.                                         *)
(***************************************************************************)
EXTENDS ZipWriter

\* The mode and the width of the descriptor hardly meet: three of the six.
MCKinds ==
    {[mode |-> "deflate", zip64 |-> FALSE], [mode |-> "store", zip64 |-> TRUE],
     [mode |-> "raw", zip64 |-> FALSE]}
=============================================================================

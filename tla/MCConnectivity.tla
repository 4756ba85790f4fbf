--------------------------- MODULE MCConnectivity ---------------------------
(* Instances of Supervision for TLC; the bounds are in the .cfg files.     *)
EXTENDS Supervision, TLC
=============================================================================

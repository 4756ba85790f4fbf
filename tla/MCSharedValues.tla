--------------------------- MODULE MCSharedValues ---------------------------
(* Instances of SharedValues for TLC; the bounds are in the .cfg files.    *)
EXTENDS SharedValues, TLC
=============================================================================

------------------------- MODULE MCBmp280Registers -------------------------
(* Instances of Bmp280Registers for TLC; the bounds are in the .cfg files. *)
EXTENDS Bmp280Registers, TLC
=============================================================================

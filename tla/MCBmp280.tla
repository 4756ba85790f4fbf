------------------------------ MODULE MCBmp280 ------------------------------
(* Instances of Bmp280 with Bmp280Readings for TLC; the bounds are in the  *)
(* .cfg files.                                                             *)
EXTENDS Bmp280Readings, TLC
=============================================================================

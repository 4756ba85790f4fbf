---------------------------- MODULE MCSensorUarts ---------------------------
(* Instances of SensorUarts for TLC; the bounds are in the .cfg files.     *)
EXTENDS SensorUarts, TLC
=============================================================================

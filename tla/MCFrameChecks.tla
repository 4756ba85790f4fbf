---------------------------- MODULE MCFrameChecks ----------------------------
(* Instances of FrameChecks for TLC; the bounds are in the .cfg files.     *)
EXTENDS FrameChecks, TLC
=============================================================================

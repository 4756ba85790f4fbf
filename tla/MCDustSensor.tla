---------------------------- MODULE MCDustSensor ----------------------------
(* Instances of DustSensor for TLC; the bounds are in the .cfg files.      *)
EXTENDS DustSensor, TLC

\* One topic of a serial sensor and one of the BMP280, in the order of
\* sendMQTTupdate.
MCSource == <<"dust", "bmp">>
=============================================================================

------------------------- MODULE PublishedRegisters -------------------------
(***************************************************************************)
(* What the shared values promise the subscriber of the MQTT topics: each  *)
(* sensor has one register that takes a whole sample at a time, and what   *)
(* is published for a topic is what the register of the topic's sensor     *)
(* held at one moment since the last publication.                          *)
(***************************************************************************)
EXTENDS Naturals

CONSTANTS Sensors, TopicIds,
          Source     \* the sensor of each topic

VARIABLES register,   \* the number of each sensor's latest sample
          looked,     \* what the sender has read and not announced yet
          announced   \* the sample last published for each topic, as a set

registerVars == <<register, looked, announced>>

Init ==
  /\ register = [s \in Sensors |-> 0]
  /\ looked = {}
  /\ announced = [t \in TopicIds |-> {}]

Update(s) ==
  /\ register' = [register EXCEPT ![s] = @ + 1]
  /\ UNCHANGED <<looked, announced>>

Look(t) ==
  /\ looked = {}
  /\ looked' = {[topic |-> t, sample |-> register[Source[t]]]}
  /\ UNCHANGED <<register, announced>>

Announce(reading) ==
  /\ looked = {reading}
  /\ looked' = {}
  /\ announced' = [announced EXCEPT ![reading.topic] = {reading.sample}]
  /\ UNCHANGED register

Restart == Init'

Next ==
  \/ \E s \in Sensors : Update(s)
  \/ \E t \in TopicIds : Look(t)
  \/ \E reading \in looked : Announce(reading)
  \/ Restart

Spec == Init /\ [][Next]_registerVars
=============================================================================

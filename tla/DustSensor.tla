----------------------------- MODULE DustSensor -----------------------------
(***************************************************************************)
(* The whole program: the three sensor tasks and the connectivity side,    *)
(* down to the last value the broker has of each topic.  A sensor's values *)
(* are one register, written and looked at in one step: SharedValues       *)
(* implements that (PublishedRegisters).  The drivers leave a measurement  *)
(* or, after a read that went wrong, values that are none: zeros, or data  *)
(* of another read.  `updated', which could tell them apart, is never read.*)
(***************************************************************************)
EXTENDS Connectivity

CONSTANTS
  Source,            \* the sensor whose value each topic of an update carries
  MaxReadFailures    \* bound: reads of the serial sensors that go wrong

SerialSensors == {"dust", "co2"}
TopicIds      == 1 .. NumTopics

ASSUME SourceAssumption == Source \in [TopicIds -> SerialSensors \cup {"bmp"}]
ASSUME ReadFailureAssumption == MaxReadFailures \in Nat

\* The sensors an update asks for; the others touch nothing of it.
Sensors == {Source[t] : t \in TopicIds}

VARIABLES
  memory,            \* "unmeasured" or "measured", for each sensor's values
  value,             \* what sendMQTTupdate has printed of them, or "none"
  broker,            \* external: the last value of each topic
  read_failures

sensorVars  == <<memory, value, broker, read_failures>>
programVars == <<vars, sensorVars>>

\* The broker keeps a value through the restarts of the chip; `boot' says
\* after how many of them it was published.
Nothing == [value |-> "nothing", boot |-> 0]

ProgramInit ==
  /\ Init
  /\ memory = [s \in Sensors |-> "unmeasured"]
  /\ value = "none"
  /\ broker = [t \in TopicIds |-> Nothing]
  /\ read_failures = 0
-----------------------------------------------------------------------------
\* One round of a sensor's task, from the read to the semaphore's return.
Measure(s) ==
  /\ memory' = [memory EXCEPT ![s] = "measured"]
  /\ UNCHANGED <<vars, value, broker, read_failures>>

\* A serial sensor did not answer, or not correctly: the driver reports
\* success all the same.  (The BMP280's task aborts instead: Restart.)
ReadFails(s) ==
  /\ s \in SerialSensors
  /\ read_failures < MaxReadFailures
  /\ read_failures' = read_failures + 1
  /\ memory' = [memory EXCEPT ![s] = "unmeasured"]
  /\ UNCHANGED <<vars, value, broker>>

sensor_task(s) == Measure(s) \/ ReadFails(s)

\* Mutant: every topic is printed from the structure of the first.
LoadValue_WrongSensor ==
  /\ mqtt_pc = "publish" /\ value = "none"
  /\ value' = memory[Source[1]]
  /\ UNCHANGED <<vars, memory, broker, read_failures>>

\* sendMQTTupdate prints the value of the topic it is at ...
LoadValue ==
  /\ mqtt_pc = "publish" /\ value = "none"
  /\ value' = memory[Source[topic + 1]]
  /\ UNCHANGED <<vars, memory, broker, read_failures>>

Deliver ==
  broker' = [broker EXCEPT ![topic + 1] = [value |-> value, boot |-> reboots]]


\* ... and publishes it at QoS 0: without a session, or without a network
\* under it, the value is lost.
PublishValue ==
  /\ value # "none"
  /\ Publish
  /\ value' = "none"
  /\ IF client = "connected" /\ LinkUp THEN Deliver ELSE UNCHANGED broker
  /\ UNCHANGED <<wifiVars, reboots, memory, read_failures>>

\* Everything else the Wi-Fi and MQTT sides do leaves the values alone.
Communicate ==
  /\ WifiStep \/ (MqttStep /\ ~Publish)
  /\ UNCHANGED sensorVars

\* All tasks lose their state together; the broker does not.
Restart ==
  /\ Reboot
  /\ memory' = [s \in Sensors |-> "unmeasured"]
  /\ value' = "none"
  /\ UNCHANGED <<broker, read_failures>>

ProgramNext ==
  \/ \E s \in Sensors : sensor_task(s)
  \/ LoadValue \/ PublishValue \/ Communicate \/ Restart

ProgramSpec ==
  /\ ProgramInit /\ [][ProgramNext]_programVars
  /\ Fairness
  /\ \A s \in Sensors : WF_programVars(Measure(s))
-----------------------------------------------------------------------------
\* A topic is settled when its sensor has been measured, the broker's value is
\* a measurement of the running program, and no other is about to be published.
Settled(t) ==
  /\ memory[Source[t]] = "measured"
  /\ broker[t] = [value |-> "measured", boot |-> reboots]
  /\ value # "none" /\ topic + 1 = t => value = "measured"

\* Only a read of its own sensor that fails, or a restart, unsettles a topic:
\* no update does, whatever it printed before, no failure of another sensor
\* and nothing that happens to the Wi-Fi or the client meanwhile.
OnlyFailuresUnsettle ==
  [][\A t \in TopicIds :
       Settled(t) => Settled(t)' \/ ReadFails(Source[t]) \/ Restart]_programVars

=============================================================================

---------------------------- MODULE ProgramProofs ----------------------------
(***************************************************************************)
(* Proofs about what is built on Connectivity, for every value of the      *)
(* constants: seen through the history variable of Supervision, it         *)
(* implements MqttSession; and the whole program of DustSensor implements  *)
(* it, fairness included.                                                  *)
(***************************************************************************)
EXTENDS Supervision, DustSensor, ConnectivityProofs
-----------------------------------------------------------------------------
(* Supervision.                                                            *)

\* Where there is no reason to stop the client, the bits that would stop it
\* are not set, or a request is about to be cleared unserved; what was decided
\* for a reason still has it; an update starts with the first topic.
ReasonInv ==
  /\ excused \in {TRUE, FALSE}
  /\ \/ excused
     \/ /\ WIFI_CONNECTED_BIT \in eg_app_status
        /\ \/ MQTT_MUST_DISCONNECT_BIT \notin eg_app_status
           \/ mqtt_pc \in {"start", "set_connected", "cycle_end"}
  /\ mqtt_pc \in {"stop", "stopping"} => excused
  /\ mqtt_pc # "publish" => topic = 0

SupervisedStep == [SupervisedNext]_supervisedVars
SessionStep == [Session!Next]_Session!sessionVars

\* The steps of the handlers and of the driver change nothing of the MQTT side
\* but the bits, and those of mqtt_task and the client never the Wi-Fi bit.
LEMMA OthersKeepMqtt ==
  ASSUME WifiStep
  PROVE  UNCHANGED <<mqtt_pc, topic, client, client_event, reboots>>
  BY DEF WifiStep, mqttVars

LEMMA MqttKeepsWifiBit ==
  ASSUME MqttStep
  PROVE  /\ WIFI_CONNECTED_BIT \in eg_app_status' <=>
              WIFI_CONNECTED_BIT \in eg_app_status
         /\ reboots' = reboots
  BY DEF MqttStep, MqttNext, mqtt_task, mqtt_init, WaitBits,
         stop_mqtt_client, ClearStatus, start_mqtt_client, SetConnected, Publish,
         CycleEnd, MqttClient, mqtt_event_handler, ClientConnects, ClientFails,
         ClientLosesSession, ClientAborts, ClientReconnects, ClientStops,
         ClientMoves, WIFI_CONNECTED_BIT, MQTT_CONNECTED_BIT,
         MQTT_MUST_DISCONNECT_BIT, xEventGroupSetBits, xEventGroupClearBits

\* Without a disturbance the bits that stop a client do not come up.
LEMMA Undisturbed ==
  ASSUME ~Disturbed
  PROVE  /\ WIFI_CONNECTED_BIT \in eg_app_status =>
              WIFI_CONNECTED_BIT \in eg_app_status'
         /\ MQTT_MUST_DISCONNECT_BIT \in eg_app_status' =>
              MQTT_MUST_DISCONNECT_BIT \in eg_app_status
  BY DEF Disturbed
-----------------------------------------------------------------------------
LEMMA InitReason == SupervisedInit => ReasonInv
  BY DEF SupervisedInit, Init, MqttInit, ReasonInv

LEMMA NextReason ==
  ASSUME TypeOK, MqttInv, ReasonInv, SupervisedStep
  PROVE  ReasonInv' /\ SessionStep
<1>. USE DEF ReasonInv, Session!sessionVars, NextPublication
<1>0. topic \in 0 .. NumTopics - 1 /\ NumTopics \in Nat \ {0}
  BY TopicAssumption DEF TypeOK, MqttTypeOK
<1>1. CASE UNCHANGED supervisedVars
  BY <1>1 DEF supervisedVars, vars, mqttVars, SessionStep
<1>2. CASE SupervisedNext /\ Reboot
  <2>1. /\ excused' = TRUE /\ client' = "stopped" /\ topic' = 0
        /\ mqtt_pc' = "init"
    BY <1>2, RebootAssumption
       DEF SupervisedNext, Reboot, MqttReset, Disturbed, TypeOK
  <2>. QED
    BY <2>1 DEF SessionStep, Session!Next, Session!Restart
<1>3. CASE SupervisedNext /\ WifiStep
  <2>1. UNCHANGED <<mqtt_pc, topic, client>> /\ ~DecidesToStart
    BY <1>3, OthersKeepMqtt DEF DecidesToStart
  <2>2. excused' = IF Disturbed THEN TRUE ELSE excused
    BY <1>3, <2>1 DEF SupervisedNext
  <2>3. CASE Disturbed
    BY <2>1, <2>2, <2>3 DEF SessionStep, Session!Next, Session!Disturb
  <2>4. CASE ~Disturbed
    BY <2>1, <2>2, <2>4, Undisturbed DEF SessionStep
  <2>. QED
    BY <2>3, <2>4
<1>4. CASE SupervisedNext /\ MqttStep
  <2>1. /\ WIFI_CONNECTED_BIT \in eg_app_status' <=>
             WIFI_CONNECTED_BIT \in eg_app_status
        /\ reboots' = reboots
    BY <1>4, MqttKeepsWifiBit
  <2>2. /\ excused' = IF Disturbed THEN TRUE
                      ELSE IF DecidesToStart THEN FALSE ELSE excused
        /\ Disturbed <=>
             MQTT_MUST_DISCONNECT_BIT \in eg_app_status' \ eg_app_status
    BY <1>4, <2>1 DEF SupervisedNext, Disturbed
  <2>3. CASE WaitBits
    <3>1. /\ UNCHANGED <<eg_app_status, topic, client>>
          /\ mqtt_pc = "wait" /\ mqtt_pc' = NextStep(eg_app_status)
          /\ ~Disturbed
      BY <2>2, <2>3 DEF WaitBits
    <3>2. CASE MustStop(eg_app_status)
      <4>0. mqtt_pc' = "stop"
        BY <3>1, <3>2 DEF NextStep, MustStop, MustStart, MustSend
      <4>1. mqtt_pc' = "stop" /\ excused
        BY <3>1, <3>2, <4>0 DEF MustStop
      <4>2. excused' = excused
        BY <2>2, <3>1, <4>1 DEF DecidesToStart
      <4>3. ReasonInv'
        BY <3>1, <4>1, <4>2
      <4>4. NextPublication' = NextPublication
        BY <3>1, <4>1
      <4>5. SessionStep
        BY <3>1, <4>2, <4>4 DEF SessionStep
      <4>. QED
        BY <4>3, <4>5
    <3>3. CASE ~MustStop(eg_app_status) /\ MustStart(eg_app_status)
      <4>0. mqtt_pc' = "start"
        BY <3>1, <3>3 DEF NextStep, MustStop, MustStart, MustSend
      <4>1. mqtt_pc' = "start" /\ excused' = FALSE
        BY <2>2, <3>1, <4>0 DEF DecidesToStart
      <4>2. WIFI_CONNECTED_BIT \in eg_app_status'
        BY <3>1, <3>3 DEF MustStart
      <4>3. ReasonInv'
        BY <3>1, <4>1, <4>2
      <4>4. NextPublication' = 0 /\ NextPublication = 0
        BY <3>1, <4>1
      <4>. QED
        BY <3>1, <4>1, <4>3, <4>4 DEF SessionStep, Session!Next, Session!Settle
    <3>4. CASE /\ ~MustStop(eg_app_status) /\ ~MustStart(eg_app_status)
               /\ MustSend(eg_app_status)
      <4>0. mqtt_pc' = "publish"
        BY <3>1, <3>4 DEF NextStep, MustStop, MustStart, MustSend
      <4>1. mqtt_pc' = "publish" /\ excused' = excused
        BY <2>2, <3>1, <4>0 DEF DecidesToStart
      <4>2. client # "stopped"
        BY <3>1, <3>4 DEF MqttInv, NoConnectedBitWithoutClient, MustSend
      <4>3. ReasonInv'
        BY <3>1, <4>1
      <4>4. NextPublication = 0 /\ NextPublication' = 1
        BY <3>1, <4>1
      <4>5. SessionStep
        BY <3>1, <4>1, <4>2, <4>4
           DEF SessionStep, Session!Next, Session!BeginUpdate
      <4>. QED
        BY <4>3, <4>5
    <3>5. CASE /\ ~MustStop(eg_app_status) /\ ~MustStart(eg_app_status)
               /\ ~MustSend(eg_app_status)
      <4>1. mqtt_pc' = "cycle_end" /\ excused' = excused
        BY <2>2, <3>1, <3>5 DEF NextStep, DecidesToStart
      <4>2. ReasonInv'
        BY <3>1, <4>1
      <4>3. NextPublication' = NextPublication
        BY <3>1, <4>1
      <4>4. SessionStep
        BY <3>1, <4>1, <4>3 DEF SessionStep
      <4>. QED
        BY <4>2, <4>4
    <3>. QED
      BY <3>2, <3>3, <3>4, <3>5
  <2>4. CASE ~WaitBits
    <3>1. ~DecidesToStart
      BY <1>4, <2>4 DEF DecidesToStart, MqttStep, MqttNext, mqtt_task, MqttClient,
           mqtt_init, stop_mqtt_client, ClearStatus, start_mqtt_client,
           SetConnected, Publish, CycleEnd, mqtt_event_handler, ClientConnects,
           ClientFails, ClientLosesSession, ClientAborts, ClientReconnects,
           ClientStops
    <3>2. excused' = IF Disturbed THEN TRUE ELSE excused
      BY <2>2, <3>1
    <3>3. CASE mqtt_event_handler
      <4>1. UNCHANGED <<mqtt_pc, topic, client>>
        BY <3>3 DEF mqtt_event_handler
      <4>2. CASE Disturbed
        BY <3>2, <4>1, <4>2 DEF SessionStep, Session!Next, Session!Disturb
      <4>3. CASE ~Disturbed
        BY <2>1, <2>2, <3>2, <4>1, <4>3 DEF SessionStep
      <4>. QED
        BY <4>2, <4>3
    <3>4. CASE ~mqtt_event_handler
      <4>0. /\ MQTT_MUST_DISCONNECT_BIT \in eg_app_status' =>
                 MQTT_MUST_DISCONNECT_BIT \in eg_app_status
            /\ CycleEnd => MQTT_MUST_DISCONNECT_BIT \notin eg_app_status'
        BY <1>4, <2>4, <3>4
           DEF MqttStep, MqttNext, mqtt_task, mqtt_init, stop_mqtt_client,
               ClearStatus, start_mqtt_client, SetConnected, Publish, CycleEnd,
               MqttClient, ClientConnects, ClientFails, ClientLosesSession,
               ClientAborts, ClientReconnects, ClientStops, ClientMoves,
               MQTT_CONNECTED_BIT, MQTT_MUST_DISCONNECT_BIT, xEventGroupSetBits,
               xEventGroupClearBits
      <4>1. excused' = excused
        BY <2>2, <3>2, <4>0
      <4>2. CASE mqtt_init \/ stop_mqtt_client \/ ClearStatus \/ SetConnected
                 \/ CycleEnd
        <5>1. UNCHANGED <<topic, client>> /\ mqtt_pc # "publish"
              /\ mqtt_pc' # "publish"
          BY <4>2 DEF mqtt_init, stop_mqtt_client, ClearStatus, SetConnected,
                      CycleEnd
        <5>2. mqtt_pc' \in {"stop", "stopping"} => excused
          BY <4>2 DEF mqtt_init, stop_mqtt_client, ClearStatus, SetConnected,
                      CycleEnd
        <5>3. MQTT_MUST_DISCONNECT_BIT \notin eg_app_status' \/ excused
              \/ mqtt_pc' \in {"start", "set_connected", "cycle_end"}
          BY <4>0, <4>2 DEF mqtt_init, stop_mqtt_client, ClearStatus,
                            SetConnected, CycleEnd
        <5>. QED
          BY <2>1, <4>0, <4>1, <5>1, <5>2, <5>3 DEF SessionStep
      <4>3. CASE start_mqtt_client
        <5>1. /\ mqtt_pc = "start" /\ mqtt_pc' = "set_connected"
              /\ UNCHANGED <<eg_app_status, topic>>
              /\ client' = IF client = "stopped" THEN "connecting" ELSE client
          BY <4>3 DEF start_mqtt_client
        <5>2. SessionStep
          BY <4>1, <5>1 DEF SessionStep, Session!Next, Session!Start
        <5>. QED
          BY <4>1, <5>1, <5>2
      <4>4. CASE Publish
        <5>1. /\ mqtt_pc = "publish" /\ topic' = (topic + 1) % NumTopics
              /\ mqtt_pc' = IF topic' = 0 THEN "cycle_end" ELSE "publish"
              /\ UNCHANGED <<eg_app_status, client>>
          BY <4>4 DEF Publish
        <5>2. /\ topic + 1 < NumTopics => topic' = topic + 1 /\ topic' # 0
              /\ topic + 1 = NumTopics => topic' = 0
              /\ topic + 1 <= NumTopics
          BY <1>0, <5>1
        <5>3. client # "stopped"
          BY <5>1 DEF MqttInv
        <5>4. NextPublication' = IF NextPublication < NumTopics
                                   THEN NextPublication + 1 ELSE 0
          BY <1>0, <5>1, <5>2
        <5>5. NextPublication \in 1 .. NumTopics
          BY <1>0, <5>1, <5>2
        <5>6. SessionStep
          BY <4>1, <5>1, <5>3, <5>4, <5>5
             DEF SessionStep, Session!Next, Session!PublishNext
        <5>7. ReasonInv'
          BY <4>1, <5>1
        <5>. QED
          BY <5>6, <5>7
      <4>5. CASE ClientStops
        <5>1. /\ mqtt_pc = "stopping" /\ mqtt_pc' = "clear_status"
              /\ client # "stopped" /\ client' = "stopped"
              /\ UNCHANGED <<eg_app_status, topic>>
          BY <4>5 DEF ClientStops, ClientMoves
        <5>. QED
          BY <4>1, <5>1 DEF SessionStep, Session!Next, Session!Stop
      <4>6. CASE ClientConnects(LinkUp) \/ ClientFails(LinkUp)
                 \/ ClientLosesSession(LinkUp) \/ ClientAborts
                 \/ ClientReconnects
        <5>1. /\ client # "stopped" /\ client' # "stopped"
              /\ UNCHANGED <<eg_app_status, topic, mqtt_pc>>
          BY <4>6 DEF ClientConnects, ClientFails, ClientLosesSession,
                      ClientAborts, ClientReconnects, ClientMoves
        <5>. QED
          BY <4>1, <5>1 DEF SessionStep
      <4>. QED
        BY <1>4, <2>4, <3>4, <4>2, <4>3, <4>4, <4>5, <4>6
           DEF MqttStep, MqttNext, mqtt_task, MqttClient
    <3>. QED
      BY <3>3, <3>4
  <2>. QED
    BY <2>3, <2>4
<1>. QED
  BY <1>1, <1>2, <1>3, <1>4 DEF SupervisedStep, SupervisedNext, Next

-----------------------------------------------------------------------------
\* ImplementsSession: for every number of topics, retries, faults and reboots
\* a client is stopped only for a disturbance since the last decision to start
\* it, and an update goes through all topics on a client that keeps running.
THEOREM SessionImplemented == SupervisedSpec => ImplementsSession
<1>1. SupervisedInit => Session!Init
  BY DEF SupervisedInit, Init, MqttInit, Session!Init, NextPublication
<1>2. SupervisedInit /\ [][SupervisedNext]_supervisedVars => Spec
  <2>1. SupervisedInit => Init
    BY DEF SupervisedInit
  <2>2. [SupervisedNext]_supervisedVars => [Next]_vars
    BY DEF SupervisedNext, supervisedVars
  <2>. QED
    BY <2>1, <2>2, PTL DEF Spec
<1>3. SupervisedInit => ReasonInv
  BY InitReason
<1>4. TypeOK /\ MqttInv /\ ReasonInv /\ [SupervisedNext]_supervisedVars =>
        ReasonInv' /\ [Session!Next]_Session!sessionVars
  BY NextReason DEF SupervisedStep, SessionStep
<1>. QED
  BY <1>1, <1>2, <1>3, <1>4, TypeCorrect, MqttInvariant, PTL
     DEF SupervisedSpec, ImplementsSession, Session!Spec

-----------------------------------------------------------------------------
(* DustSensor.                                                             *)

LEMMA ProgramStep == [ProgramNext]_programVars => [Next]_vars
<1>1. ASSUME NEW s \in Sensors, sensor_task(s) PROVE UNCHANGED vars
  BY <1>1, Zenon DEF sensor_task, Measure, ReadFails
<1>2. LoadValue => UNCHANGED vars
  BY Zenon DEF LoadValue
<1>3. PublishValue => Next
  BY Zenon DEF PublishValue, Next, MqttStep, MqttNext, mqtt_task
<1>4. Communicate => Next
  BY Zenon DEF Communicate, Next
<1>5. Restart => Next
  BY Zenon DEF Restart, Next
<1>6. UNCHANGED programVars => UNCHANGED vars
  BY Zenon DEF programVars
<1>. QED
  BY <1>1, <1>2, <1>3, <1>4, <1>5, <1>6, Zenon DEF ProgramNext

\* The whole program does to the event group, the station and the client what
\* Connectivity says, with its fairness: what holds of Connectivity holds of
\* the program, also what is only model-checked there.
THEOREM ProgramImplementsConnectivity == ProgramSpec => FairSpec
<1>1. ProgramInit => Init
  BY DEF ProgramInit
<1>. QED
  BY <1>1, ProgramStep, PTL DEF ProgramSpec, FairSpec, Spec

\* So its safety does.
THEOREM ProgramSafe ==
  ProgramSpec =>
    [](/\ TypeOK /\ PublishOnRunningClient /\ NoConnectedBitWithoutClient
       /\ ConnectOnlyWhenIdle /\ RetriesBounded /\ FailMeansOffline
       /\ WifiBitTracksLink /\ SessionIsShown)
BY ProgramImplementsConnectivity, TypeCorrect, PublishSafe, ConnectedBitSafe,
   ConnectSafe, RetriesAreBounded, FailIsFinal, WifiBitRight, SessionShown, PTL
   DEF FairSpec

\* The types of what the sensors and the updates have left.
Samples == {"unmeasured", "measured"}

SensorsTypeOK ==
  /\ memory \in [Sensors -> Samples]
  /\ value \in Samples \cup {"none"}
  /\ broker \in [TopicIds -> [value : Samples \cup {"nothing"}, boot : Nat]]
  /\ read_failures \in 0 .. MaxReadFailures

LEMMA SourceOfTopic ==
  /\ \A t \in TopicIds : Source[t] \in Sensors
  /\ \A s \in Sensors : \E t \in TopicIds : s = Source[t]
  /\ topic \in 0 .. NumTopics - 1 => topic + 1 \in TopicIds
<1>1. topic \in 0 .. NumTopics - 1 => topic + 1 \in TopicIds
  BY TopicAssumption, SMT DEF TopicIds
<1>. QED
  BY <1>1, Zenon DEF Sensors

LEMMA SensorsInit == ProgramInit => SensorsTypeOK
<1>1. Nothing \in [value : Samples \cup {"nothing"}, boot : Nat]
  BY SMT DEF Nothing, Samples
<1>2. 0 \in 0 .. MaxReadFailures
  BY ReadFailureAssumption, SMT
<1>. QED
  BY <1>1, <1>2, Zenon DEF ProgramInit, SensorsTypeOK, Samples

LEMMA SensorsStep ==
  ASSUME TypeOK, SensorsTypeOK, [ProgramNext]_programVars
  PROVE  SensorsTypeOK'
<1>0. topic + 1 \in TopicIds /\ Source[topic + 1] \in Sensors /\ reboots \in Nat
  <2>1. topic \in 0 .. NumTopics - 1 /\ reboots \in Nat
    BY RebootAssumption, SMT DEF TypeOK, MqttTypeOK
  <2>. QED
    BY <2>1, SourceOfTopic, Zenon
<1>1. ASSUME NEW s \in Sensors, sensor_task(s) PROVE SensorsTypeOK'
  <2>1. CASE Measure(s)
    BY <2>1, Zenon DEF Measure, SensorsTypeOK, Samples
  <2>2. CASE ReadFails(s)
    <3>1. read_failures' \in 0 .. MaxReadFailures
      BY <2>2, ReadFailureAssumption, SMT DEF ReadFails, SensorsTypeOK
    <3>. QED
      BY <2>2, <3>1, Zenon DEF ReadFails, SensorsTypeOK, Samples
  <2>. QED
    BY <1>1, <2>1, <2>2, Zenon DEF sensor_task
<1>2. CASE LoadValue
  BY <1>0, <1>2, Zenon DEF LoadValue, SensorsTypeOK
<1>3. CASE PublishValue
  <2>1. broker' = broker \/ Deliver
    BY <1>3, Zenon DEF PublishValue
  <2>2. value \in Samples
    BY <1>3, Zenon DEF PublishValue, SensorsTypeOK
  <2>3. [value |-> value, boot |-> reboots]
          \in [value : Samples \cup {"nothing"}, boot : Nat]
    BY <1>0, <2>2, SMT
  <2>4. broker' \in [TopicIds -> [value : Samples \cup {"nothing"}, boot : Nat]]
    BY <2>1, <2>3, Zenon DEF Deliver, SensorsTypeOK
  <2>. QED
    BY <1>3, <2>4, Zenon DEF PublishValue, SensorsTypeOK
<1>4. CASE Communicate
  BY <1>4, Zenon DEF Communicate, sensorVars, SensorsTypeOK
<1>5. CASE Restart
  BY <1>5, Zenon DEF Restart, SensorsTypeOK, Samples
<1>6. CASE UNCHANGED programVars
  BY <1>6, Zenon DEF programVars, sensorVars, SensorsTypeOK
<1>. QED
  BY <1>1, <1>2, <1>3, <1>4, <1>5, <1>6, Zenon DEF ProgramNext

\* Only a publication and a restart move to another topic.
LEMMA CommunicateKeepsTopic == Communicate => UNCHANGED <<topic, reboots>>
<1>1. WifiStep => UNCHANGED <<topic, reboots>>
  BY OthersKeepMqtt, Zenon
<1>2. MqttStep /\ ~Publish => UNCHANGED <<topic, reboots>>
  BY Zenon DEF MqttStep, MqttNext, mqtt_task, mqtt_init, WaitBits, stop_mqtt_client,
         ClearStatus, start_mqtt_client, SetConnected, CycleEnd,
         MqttClient, mqtt_event_handler, ClientConnects, ClientFails,
         ClientLosesSession, ClientAborts, ClientReconnects, ClientStops, ClientMoves
<1>. QED
  BY <1>1, <1>2, Zenon DEF Communicate

LEMMA SettledStep ==
  ASSUME TypeOK, SensorsTypeOK, [ProgramNext]_programVars,
         NEW t \in TopicIds, Settled(t), ~ ReadFails(Source[t]), ~ Restart
  PROVE  Settled(t)'
<1>0. Source[t] \in Sensors
  BY SourceOfTopic, Zenon
<1>1. ASSUME NEW s \in Sensors, Measure(s) PROVE Settled(t)'
  <2>1. memory'[Source[t]] = "measured"
    BY <1>0, <1>1, Zenon DEF Measure, SensorsTypeOK, Settled
  <2>. QED
    BY <1>1, <2>1, Zenon DEF Measure, vars, mqttVars, Settled
<1>2. ASSUME NEW s \in Sensors, ReadFails(s) PROVE Settled(t)'
  <2>1. s # Source[t]
    BY <1>2, Zenon
  <2>2. memory'[Source[t]] = memory[Source[t]]
    BY <1>0, <1>2, <2>1, Zenon DEF ReadFails, SensorsTypeOK
  <2>. QED
    BY <1>2, <2>2, Zenon DEF ReadFails, vars, mqttVars, Settled
<1>3. CASE LoadValue
  <2>1. value' = memory[Source[topic + 1]] /\ UNCHANGED <<topic, reboots, memory, broker>>
    BY <1>3, Zenon DEF LoadValue, vars, mqttVars
  <2>. QED
    BY <2>1, Zenon DEF Settled
<1>4. CASE PublishValue
  <2>1. /\ value # "none" /\ value' = "none" /\ UNCHANGED <<reboots, memory>>
        /\ broker' = broker \/ Deliver
    BY <1>4, Zenon DEF PublishValue
  <2>2. broker'[t] = [value |-> "measured", boot |-> reboots]
    <3>1. CASE topic + 1 = t
      BY <2>1, <3>1, Zenon DEF Deliver, SensorsTypeOK, Settled
    <3>2. CASE topic + 1 # t
      BY <2>1, <3>2, Zenon DEF Deliver, SensorsTypeOK, Settled
    <3>. QED
      BY <3>1, <3>2
  <2>. QED
    BY <2>1, <2>2, Zenon DEF Settled
<1>5. CASE Communicate
  <2>1. UNCHANGED <<topic, reboots, memory, value, broker>>
    BY <1>5, CommunicateKeepsTopic, Zenon DEF Communicate, sensorVars
  <2>. QED
    BY <2>1, Zenon DEF Settled
<1>6. CASE UNCHANGED programVars
  <2>1. UNCHANGED <<topic, reboots, memory, value, broker>>
    BY <1>6, Zenon DEF programVars, sensorVars, vars, mqttVars
  <2>. QED
    BY <2>1, Zenon DEF Settled
<1>. QED
  BY <1>1, <1>2, <1>3, <1>4, <1>5, <1>6, Zenon DEF ProgramNext, sensor_task

\* OnlyFailuresUnsettle: for any number of topics, sensors, faults and restarts
\* a broker that has the running program's measurement of a topic keeps one,
\* until that topic's own sensor fails or the program restarts.
THEOREM SettledStays == ProgramSpec => OnlyFailuresUnsettle
<1>. DEFINE A == \A t \in TopicIds :
                   Settled(t) => Settled(t)' \/ ReadFails(Source[t]) \/ Restart
<1>1. ProgramSpec => []TypeOK
  BY ProgramSafe, PTL
<1>2. TypeOK /\ SensorsTypeOK /\ [ProgramNext]_programVars => SensorsTypeOK'
  BY SensorsStep
<1>3. ProgramSpec => []SensorsTypeOK
  BY <1>1, <1>2, SensorsInit, PTL DEF ProgramSpec
<1>4. TypeOK /\ SensorsTypeOK /\ [ProgramNext]_programVars => [A]_programVars
  BY SettledStep
<1>. QED
  BY <1>1, <1>3, <1>4, PTL DEF ProgramSpec, OnlyFailuresUnsettle
=============================================================================

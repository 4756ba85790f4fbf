------------------------------ MODULE MqttTask ------------------------------
(***************************************************************************)
(* mqtt.c: mqtt_task, which supervises the esp-mqtt client from the bits   *)
(* of eg_app_status, and mqtt_event_handler, which the client's own task   *)
(* calls for each event.  Each call that touches the event group or the    *)
(* client is one step, so the handlers may run between any two of them.    *)
(* The client is external: it connects, fails and reconnects by itself     *)
(* from esp_mqtt_client_start to esp_mqtt_client_stop, dispatches its      *)
(* events synchronously, and stop waits for its task to end.  Two          *)
(* assumptions about it: esp_mqtt_client_init returns a client, so that    *)
(* the NULL check of stop_mqtt_client never applies, and                   *)
(* esp_mqtt_client_start of a stopped client, whose result mqtt.c ignores, *)
(* succeeds.                                                               *)
(***************************************************************************)
EXTENDS AppStatus, Naturals

CONSTANTS
  NumTopics,         \* topics of one update; 5 in sendMQTTupdate
  MaxBrokerFaults    \* bound: how often a healthy session breaks

ASSUME TopicAssumption == NumTopics \in Nat \ {0}
ASSUME BrokerFaultAssumption == MaxBrokerFaults \in Nat

VARIABLES
  mqtt_pc,        \* the call mqtt_task makes next
  topic,          \* publications made in the current sendMQTTupdate
  client,         \* external: the esp-mqtt client
  client_event,   \* the event its task is dispatching
  broker_faults

mqttVars == <<mqtt_pc, topic, client, client_event, broker_faults>>

MqttSteps    == {"init", "wait", "stop", "stopping", "clear_status", "start",
                 "set_connected", "publish", "cycle_end"}
ClientStates == {"stopped", "connecting", "connected", "aborting", "backoff"}
ClientEvents == {"none", "CONNECTED", "DISCONNECTED", "ERROR"}

MqttTypeOK ==
  /\ mqtt_pc \in MqttSteps
  /\ topic \in 0 .. NumTopics - 1
  /\ client \in ClientStates
  /\ client_event \in ClientEvents
  /\ broker_faults \in 0 .. MaxBrokerFaults

MqttInit ==
  /\ mqtt_pc = "init"
  /\ topic = 0
  /\ client = "stopped"
  /\ client_event = "none"
  /\ broker_faults = 0

MqttReset ==
  /\ mqtt_pc' = "init"
  /\ topic' = 0
  /\ client' = "stopped"
  /\ client_event' = "none"
  /\ UNCHANGED broker_faults
-----------------------------------------------------------------------------
(* mqtt_task *)

mqtt_init ==
  /\ mqtt_pc = "init"
  /\ mqtt_pc' = "wait"
  /\ UNCHANGED <<eg_app_status, topic, client, client_event, broker_faults>>

\* Mutant: only a request stops the client, not the loss of the Wi-Fi.
MustStop_OnRequestOnly(bits) ==
  {MQTT_CONNECTED_BIT, MQTT_MUST_DISCONNECT_BIT} \subseteq bits

\* The three guards of the loop body, over the bits the wait returned.
MustStop(bits) ==
  /\ MQTT_CONNECTED_BIT \in bits
  /\ \/ MQTT_MUST_DISCONNECT_BIT \in bits
     \/ WIFI_CONNECTED_BIT \notin bits

MustStart(bits) ==
  /\ WIFI_CONNECTED_BIT \in bits
  /\ MQTT_CONNECTED_BIT \notin bits

MustSend(bits) ==
  /\ {MQTT_CONNECTED_BIT, WIFI_CONNECTED_BIT} \subseteq bits
  /\ MQTT_MUST_DISCONNECT_BIT \notin bits

NextStep(bits) == CASE MustStop(bits)  -> "stop"
                    [] MustStart(bits) -> "start"
                    [] MustSend(bits)  -> "publish"
                    [] OTHER           -> "cycle_end"

\* xEventGroupWaitBits: returns the bits when MUST_DISCONNECT is set or after
\* MQTT_DELAY, whichever comes first, and leaves them as they are.
WaitBits ==
  /\ mqtt_pc = "wait"
  /\ mqtt_pc' = NextStep(eg_app_status)
  /\ UNCHANGED <<eg_app_status, topic, client, client_event, broker_faults>>

\* stop_mqtt_client: the call fails at once on a client that is not running.
stop_mqtt_client ==
  /\ mqtt_pc = "stop"
  /\ mqtt_pc' = IF client = "stopped" THEN "clear_status" ELSE "stopping"
  /\ UNCHANGED <<eg_app_status, topic, client, client_event, broker_faults>>

\* Mutant: the connected bit is not cleared with the request.
ClearStatus_KeepsConnected ==
  /\ mqtt_pc = "clear_status"
  /\ xEventGroupClearBits({MQTT_MUST_DISCONNECT_BIT})
  /\ mqtt_pc' = "cycle_end"
  /\ UNCHANGED <<topic, client, client_event, broker_faults>>

ClearStatus ==
  /\ mqtt_pc = "clear_status"
  /\ xEventGroupClearBits({MQTT_CONNECTED_BIT, MQTT_MUST_DISCONNECT_BIT})
  /\ mqtt_pc' = "cycle_end"
  /\ UNCHANGED <<topic, client, client_event, broker_faults>>

\* start_mqtt_client: the call fails, unnoticed, on a running client.
start_mqtt_client ==
  /\ mqtt_pc = "start"
  /\ client' = IF client = "stopped" THEN "connecting" ELSE client
  /\ mqtt_pc' = "set_connected"
  /\ UNCHANGED <<eg_app_status, topic, client_event, broker_faults>>

SetConnected ==
  /\ mqtt_pc = "set_connected"
  /\ xEventGroupSetBits({MQTT_CONNECTED_BIT})
  /\ mqtt_pc' = "cycle_end"
  /\ UNCHANGED <<topic, client, client_event, broker_faults>>

\* Mutant: the next update goes on where the last one ended.
Publish_NoReset ==
  /\ mqtt_pc = "publish"
  /\ topic' = topic + 1
  /\ mqtt_pc' = IF topic' = NumTopics THEN "cycle_end" ELSE "publish"
  /\ UNCHANGED <<eg_app_status, client, client_event, broker_faults>>

\* One esp_mqtt_client_publish of sendMQTTupdate, at QoS 0: it reaches the
\* broker if the client is connected and is lost otherwise.
Publish ==
  /\ mqtt_pc = "publish"
  /\ topic' = (topic + 1) % NumTopics
  /\ mqtt_pc' = IF topic' = 0 THEN "cycle_end" ELSE "publish"
  /\ UNCHANGED <<eg_app_status, client, client_event, broker_faults>>

\* Mutant: the end of a cycle forgets the session as well.
CycleEnd_ClearsBoth ==
  /\ mqtt_pc = "cycle_end"
  /\ xEventGroupClearBits({MQTT_CONNECTED_BIT, MQTT_MUST_DISCONNECT_BIT})
  /\ mqtt_pc' = "wait"
  /\ UNCHANGED <<topic, client, client_event, broker_faults>>

\* Mutant: a request that could not be served stays for the next cycle.
CycleEnd_KeepsRequest ==
  /\ mqtt_pc = "cycle_end"
  /\ mqtt_pc' = "wait"
  /\ UNCHANGED <<eg_app_status, topic, client, client_event, broker_faults>>

CycleEnd ==
  /\ mqtt_pc = "cycle_end"
  /\ xEventGroupClearBits({MQTT_MUST_DISCONNECT_BIT})
  /\ mqtt_pc' = "wait"
  /\ UNCHANGED <<topic, client, client_event, broker_faults>>

mqtt_task ==
  \/ mqtt_init \/ WaitBits \/ stop_mqtt_client \/ ClearStatus
  \/ start_mqtt_client \/ SetConnected \/ Publish \/ CycleEnd
-----------------------------------------------------------------------------
\* mqtt_event_handler, called with the event its client's task dispatches.
mqtt_event_handler ==
  /\ client_event # "none"
  /\ client_event' = "none"
  /\ \/ /\ client_event = "CONNECTED"
        /\ xEventGroupSetBits({MQTT_CONNECTED_BIT})
     \/ /\ client_event = "DISCONNECTED"
        /\ xEventGroupClearBits({MQTT_CONNECTED_BIT})
     \/ /\ client_event = "ERROR"
        /\ xEventGroupSetBits({MQTT_MUST_DISCONNECT_BIT})
  /\ UNCHANGED <<mqtt_pc, topic, client, broker_faults>>
-----------------------------------------------------------------------------
(* The client's task: external.  It changes state, dispatches the event of *)
(* the change, and only then goes on.  `up' says whether the station has   *)
(* an address; without one every attempt fails, with one a failure is a    *)
(* broker fault.                                                           *)

BrokerFault(up) ==
  IF up THEN /\ broker_faults < MaxBrokerFaults
             /\ broker_faults' = broker_faults + 1
        ELSE UNCHANGED broker_faults

ClientMoves(from, to, event) ==
  /\ client_event = "none"
  /\ client \in from
  /\ client' = to
  /\ client_event' = event
  /\ UNCHANGED <<eg_app_status, topic>>

ClientConnects(up) ==
  /\ up
  /\ ClientMoves({"connecting"}, "connected", "CONNECTED")
  /\ UNCHANGED <<mqtt_pc, broker_faults>>

ClientFails(up) ==
  /\ ClientMoves({"connecting", "connected"}, "aborting", "ERROR")
  /\ BrokerFault(up)
  /\ UNCHANGED mqtt_pc

\* The session ends without an error, e.g. the broker closes it.
ClientLosesSession(up) ==
  /\ ClientMoves({"connected"}, "backoff", "DISCONNECTED")
  /\ BrokerFault(up)
  /\ UNCHANGED mqtt_pc

ClientAborts ==
  /\ ClientMoves({"aborting"}, "backoff", "DISCONNECTED")
  /\ UNCHANGED <<mqtt_pc, broker_faults>>

ClientReconnects ==
  /\ mqtt_pc # "stopping"
  /\ ClientMoves({"backoff"}, "connecting", "none")
  /\ UNCHANGED <<mqtt_pc, broker_faults>>

\* The task notices the stop request, ends, and lets stop_mqtt_client return.
ClientStops ==
  /\ mqtt_pc = "stopping"
  /\ ClientMoves(ClientStates \ {"stopped"}, "stopped", "none")
  /\ mqtt_pc' = "clear_status"
  /\ UNCHANGED broker_faults

MqttClient(up) ==
  \/ mqtt_event_handler
  \/ ClientConnects(up) \/ ClientFails(up) \/ ClientLosesSession(up)
  \/ ClientAborts \/ ClientReconnects \/ ClientStops

MqttNext(up) == mqtt_task \/ MqttClient(up)
=============================================================================

---------------------------- MODULE Connectivity ----------------------------
(***************************************************************************)
(* The Wi-Fi side and the MQTT side together, over the event group they    *)
(* share, and the reboot that any failed ESP_ERROR_CHECK causes.           *)
(***************************************************************************)
EXTENDS WifiStation, MqttTask

CONSTANT MaxReboots            \* bound: aborts of the program

ASSUME RebootAssumption == MaxReboots \in Nat

VARIABLE reboots

vars == <<eg_app_status, wifiVars, mqttVars, reboots>>

TypeOK ==
  /\ eg_app_status \subseteq StatusBits
  /\ WifiTypeOK
  /\ MqttTypeOK
  /\ reboots \in 0 .. MaxReboots

Init == AppStatusInit /\ WifiInit /\ MqttInit /\ reboots = 0

\* ESP_ERROR_CHECK aborts on an error and the panic handler restarts the
\* chip: nothing in RAM survives, and the sessions die with their sockets.
Reboot ==
  /\ reboots < MaxReboots
  /\ reboots' = reboots + 1
  /\ eg_app_status' = {}
  /\ WifiReset
  /\ MqttReset

LinkUp == station = "online"

WifiStep == WifiNext /\ UNCHANGED <<mqttVars, reboots>>
MqttStep == MqttNext(LinkUp) /\ UNCHANGED <<wifiVars, reboots>>

Next == WifiStep \/ MqttStep \/ Reboot

Spec == Init /\ [][Next]_vars
-----------------------------------------------------------------------------
(* Fairness.  The scheduler runs every task that is ready: network_task,   *)
(* the event loop, mqtt_task (whose wait ends after MQTT_DELAY at the      *)
(* latest) and the client's task.  The driver completes an association     *)
(* and the DHCP exchange unless a fault stops it, and an attempt of the    *)
(* client without a network times out.  Nothing is assumed of faults, and  *)
(* a connected client need not notice that its network is gone.            *)

ClientTimesOut == client = "connecting" /\ ~LinkUp /\ ClientFails(LinkUp)

Fairness ==
  /\ WF_vars(network_task /\ UNCHANGED <<mqttVars, reboots>>)
  /\ WF_vars(wifi_event_handler /\ UNCHANGED <<mqttVars, reboots>>)
  /\ WF_vars(StationAssociates /\ UNCHANGED <<mqttVars, reboots>>)
  /\ WF_vars(StationGetsAddress /\ UNCHANGED <<mqttVars, reboots>>)
  /\ WF_vars(mqtt_task /\ UNCHANGED <<wifiVars, reboots>>)
  /\ WF_vars(mqtt_event_handler /\ UNCHANGED <<wifiVars, reboots>>)
  /\ WF_vars(ClientConnects(LinkUp) /\ UNCHANGED <<wifiVars, reboots>>)
  /\ WF_vars(ClientTimesOut /\ UNCHANGED <<wifiVars, reboots>>)
  /\ WF_vars(ClientAborts /\ UNCHANGED <<wifiVars, reboots>>)
  /\ WF_vars(ClientReconnects /\ UNCHANGED <<wifiVars, reboots>>)
  /\ WF_vars(ClientStops /\ UNCHANGED <<wifiVars, reboots>>)

FairSpec == Spec /\ Fairness
-----------------------------------------------------------------------------
(* Safety *)

\* sendMQTTupdate publishes only on a client that has been started and not
\* stopped since: between the wait that saw MQTT_CONNECTED_BIT and the last
\* publication no other task can have left mqtt_client without its task.
PublishOnRunningClient ==
  mqtt_pc = "publish" => client # "stopped"

\* The other half of that argument: a client that is not running shows as
\* MQTT_CONNECTED_BIT only while mqtt_task is between esp_mqtt_client_stop
\* and the clearing of the bit; no late event of the client sets it again.
NoConnectedBitWithoutClient ==
  client = "stopped" /\ MQTT_CONNECTED_BIT \in eg_app_status
    => mqtt_pc = "clear_status"

\* esp_wifi_connect is asked for only when the driver is idle: at most one
\* start or disconnection event is unanswered, nothing but a late LOST_IP
\* follows it in the queue, and nothing connects behind its back.
Triggers == {"STA_START", "STA_DISCONNECTED"}

OnlyLostIpLeft == \A i \in DOMAIN event_queue : event_queue[i] = "LOST_IP"

ConnectOnlyWhenIdle ==
  /\ \A i \in DOMAIN event_queue :
       event_queue[i] \in Triggers =>
         /\ station = "idle" /\ handling = "none"
         /\ \A j \in DOMAIN event_queue : j > i => event_queue[j] = "LOST_IP"
  /\ handling # "none" => OnlyLostIpLeft /\ station = "idle"

\* The 8-bit retry counter stays at or below the maximum: it never wraps and
\* starts the retries over.
RetriesBounded == wifi_connect_retry_counter <= WIFI_CONNECT_MAXIMUM_RETRY

\* Once the handler has given up, no address is left in the queue that could
\* claim a connection: WIFI_FAIL_BIT and WIFI_CONNECTED_BIT exclude each other
\* and the driver stays idle until a reboot.
FailMeansOffline ==
  WIFI_FAIL_BIT \in eg_app_status =>
    /\ WIFI_CONNECTED_BIT \notin eg_app_status
    /\ station = "idle"
    /\ OnlyLostIpLeft

\* Once the handler has answered every event but a late LOST_IP, the Wi-Fi bit
\* shows what became of the station: an address implies the bit, and the bit
\* an association.  More cannot be said, as IP_EVENT_STA_LOST_IP leaves the bit
\* alone.
WifiBitTracksLink ==
  OnlyLostIpLeft /\ handling = "none" =>
    /\ station = "online" => WIFI_CONNECTED_BIT \in eg_app_status
    /\ WIFI_CONNECTED_BIT \in eg_app_status
         => station \in {"associated", "online"}

\* A session whose event the handler has taken shows as MQTT_CONNECTED_BIT,
\* whatever mqtt_task set or cleared meanwhile: no update is withheld from a
\* connected client and no connected client is started again.
SessionIsShown ==
  client = "connected" /\ client_event = "none"
    => MQTT_CONNECTED_BIT \in eg_app_status
-----------------------------------------------------------------------------
(* Liveness *)

\* A disconnection is answered: a started station that is idle is connecting
\* again, or has given up for good.
IdleStationRetriesOrFails ==
  station = "idle" ~>
    station # "idle" \/ WIFI_FAIL_BIT \in eg_app_status

\* MQTT_CONNECTED_BIT and the client disagree only for a while, in spite of the
\* bit being set before the session exists and on clients already running.
ConnectedBitReconciles ==
  MQTT_CONNECTED_BIT \in eg_app_status /\ client # "connected"
    ~> MQTT_CONNECTED_BIT \notin eg_app_status \/ client = "connected"

\* Losing the Wi-Fi takes the MQTT status down even when the request bit of
\* the same disconnection has been cleared unserved at the end of a cycle and
\* the client itself has noticed nothing.
WifiLossEndsMqtt ==
  WIFI_CONNECTED_BIT \notin eg_app_status
      /\ MQTT_CONNECTED_BIT \in eg_app_status
    ~> \/ WIFI_CONNECTED_BIT \in eg_app_status
       \/ MQTT_CONNECTED_BIT \notin eg_app_status

\* Once faults and reboots stop, as the bounds make them, updates reach the
\* broker again and again, unless the retries ran out and the station is off
\* the air for good.
PublishDelivered == Publish /\ client = "connected"

UpdatesFlowUnlessGivenUp ==
  \/ <>[](WIFI_FAIL_BIT \in eg_app_status)
  \/ []<><<PublishDelivered>>_vars
=============================================================================

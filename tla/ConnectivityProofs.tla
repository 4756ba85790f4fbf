------------------------- MODULE ConnectivityProofs -------------------------
(***************************************************************************)
(* Proofs about Connectivity for every value of its constants: type        *)
(* correctness and the safety invariants of both sides of the event group. *)
(***************************************************************************)
EXTENDS Connectivity, SequenceTheorems, TLAPS

\* What the MQTT side keeps true: where mqtt_task stands decides whether the
\* client's task can exist, and a task that does not exist dispatches nothing.
MqttInv ==
  /\ NoConnectedBitWithoutClient
  /\ client = "stopped" => client_event = "none"
  /\ mqtt_pc \in {"stop", "stopping", "set_connected", "publish"}
       => client # "stopped"
  /\ mqtt_pc \in {"init", "clear_status"} => client = "stopped"
  /\ SessionIsShown
  /\ client_event \in {"DISCONNECTED", "ERROR"} => client # "connected"

\* What the Wi-Fi side keeps true besides its three invariants: nothing moves,
\* nor does a timer run, before network_task, the connected bit is off while a disconnection is
\* being handled, and STA_START finds the counter at zero.
WifiInv ==
  /\ ConnectOnlyWhenIdle
  /\ RetriesBounded
  /\ FailMeansOffline
  /\ network_pc = "init" <=> station = "off"
  /\ station = "off" =>
       /\ event_queue = <<>> /\ wifi_connect_retry_counter = 0
       /\ ip_lost_timer = FALSE
  /\ handling # "none" => WIFI_CONNECTED_BIT \notin eg_app_status
  /\ WIFI_FAIL_BIT \in eg_app_status => handling = "none"
  /\ \A i \in DOMAIN event_queue :
       event_queue[i] = "STA_START" => wifi_connect_retry_counter = 0

\* What relates the station to its bit while events are on their way: an
\* address is shown or about to be, and a bit that is set, or about to be, is
\* right or about to be cleared.
Queued(event) == \E i \in DOMAIN event_queue : event_queue[i] = event

LinkInv ==
  /\ station = "online" => WIFI_CONNECTED_BIT \in eg_app_status \/ Queued("GOT_IP")
  /\ WIFI_CONNECTED_BIT \in eg_app_status \/ Queued("GOT_IP")
       => station \in {"associated", "online"} \/ Queued("STA_DISCONNECTED")
-----------------------------------------------------------------------------
\* Taking the head of a queue shifts the other events one place down.
LEMMA TailOfQueue ==
  ASSUME NEW S, NEW q \in Seq(S), q # <<>>
  PROVE  /\ Tail(q) \in Seq(S)
         /\ Len(Tail(q)) = Len(q) - 1
         /\ 1 \in DOMAIN q /\ Head(q) = q[1]
         /\ \A i \in DOMAIN Tail(q) : i + 1 \in DOMAIN q /\ Tail(q)[i] = q[i+1]
  BY HeadTailProperties, LenProperties

\* Appending an event leaves the others where they are.
LEMMA AppendToQueue ==
  ASSUME NEW S, NEW q \in Seq(S), NEW e \in S
  PROVE  /\ Append(q, e) \in Seq(S)
         /\ Len(Append(q, e)) = Len(q) + 1
         /\ \A i \in DOMAIN Append(q, e) :
              \/ i \in DOMAIN q /\ Append(q, e)[i] = q[i]
              \/ i = Len(q) + 1 /\ Append(q, e)[i] = e
  BY AppendProperties, LenProperties

\* The uint8_t counter stays a byte, and only 255 wraps.
LEMMA CounterIsAByte ==
  ASSUME NEW n \in 0 .. 255
  PROVE  /\ (n + 1) % 256 \in 0 .. 255
         /\ n < 255 => (n + 1) % 256 = n + 1
  OBVIOUS

-----------------------------------------------------------------------------
\* Every variable of the composed system keeps its type.
THEOREM TypeCorrect == Spec => []TypeOK
<1>. USE DEF TypeOK, WifiTypeOK, MqttTypeOK, StatusBits
<1>1. Init => TypeOK
  <2>. SUFFICES ASSUME Init PROVE TypeOK
    OBVIOUS
  <2>. USE DEF Init
  <2>1. eg_app_status \subseteq StatusBits
    BY DEF AppStatusInit
  <2>2. WifiTypeOK
    <3>1. ip_lost_timer \in BOOLEAN
      BY Zenon DEF WifiInit
    <3>2. /\ network_pc \in NetworkSteps /\ station \in StationStates
          /\ event_queue \in Seq(WifiEvents) /\ handling \in HandlerSteps
          /\ wifi_connect_retry_counter \in 0 .. 255
          /\ link_faults \in 0 .. MaxLinkFaults
      BY EmptySeq, LinkFaultAssumption
         DEF WifiInit, StationStates, HandlerSteps, NetworkSteps
    <3>. QED
      BY <3>1, <3>2, Zenon
  <2>3. MqttTypeOK
    BY BrokerFaultAssumption, TopicAssumption
       DEF MqttInit, MqttSteps, ClientStates, ClientEvents
  <2>4. reboots \in 0 .. MaxReboots
    BY RebootAssumption
  <2>. QED
    BY <2>1, <2>2, <2>3, <2>4
<1>2. TypeOK /\ [Next]_vars => TypeOK'
  <2>. SUFFICES ASSUME TypeOK, [Next]_vars PROVE TypeOK'
    OBVIOUS
  <2>1. CASE WifiStep
    <3>1. UNCHANGED <<mqttVars, reboots>>
      BY <2>1 DEF WifiStep
    <3>. USE <3>1 DEF mqttVars
    <3>2. CASE network_task
      BY <3>2, AppendToQueue
         DEF network_task, StationStates, WifiEvents, NetworkSteps
    <3>3. CASE wifi_event_handler
      <4>1. event_queue' \in Seq(WifiEvents)
        BY <3>3, TailOfQueue
           DEF wifi_event_handler, StaStart, StaDisconnected, RequestDisconnect,
               Reconnect, GiveUp, GotIp, LostIp, Dispatch
      <4>2. wifi_connect_retry_counter' \in 0 .. 255
        <5>1. wifi_connect_retry_counter' \in
                {0, wifi_connect_retry_counter,
                 (wifi_connect_retry_counter + 1) % 256}
          BY <3>3
             DEF wifi_event_handler, StaStart, StaDisconnected,
                 RequestDisconnect, Reconnect, GiveUp, GotIp, LostIp,
                 ConnectAndCount
        <5>. QED
          BY <5>1, CounterIsAByte
      <4>3. /\ eg_app_status' \subseteq StatusBits
            /\ station' \in StationStates
            /\ handling' \in HandlerSteps
            /\ UNCHANGED <<network_pc, ip_lost_timer, link_faults>>
        BY <3>3
           DEF wifi_event_handler, StaStart, StaDisconnected, RequestDisconnect,
               Reconnect, GiveUp, GotIp, LostIp, ConnectAndCount,
               xEventGroupSetBits, xEventGroupClearBits, StationStates,
               HandlerSteps
      <4>. QED
        BY <4>1, <4>2, <4>3
    <3>4. CASE WifiDriver
      <4>1. \/ UNCHANGED event_queue
            \/ \E e \in WifiEvents : event_queue' = Append(event_queue, e)
        BY <3>4
           DEF WifiDriver, StationAssociates, StationGetsAddress,
               StationLosesAddress, StationDrops, IpLostTimerEnds, WifiEvents
      <4>3. event_queue' \in Seq(WifiEvents)
        BY <4>1, AppendToQueue
      <4>2. /\ station' \in StationStates
            /\ link_faults' \in 0 .. MaxLinkFaults
            /\ UNCHANGED <<eg_app_status, network_pc, handling,
                          wifi_connect_retry_counter>>
        BY <3>4, LinkFaultAssumption
           DEF WifiDriver, StationAssociates, StationGetsAddress,
               StationLosesAddress, StationDrops, IpLostTimerEnds, LinkFault,
               StationStates
      <4>4. ip_lost_timer' \in BOOLEAN
        BY <3>4, Zenon
           DEF WifiDriver, StationAssociates, StationGetsAddress,
               StationLosesAddress, StationDrops, IpLostTimerEnds
      <4>. QED
        BY <4>2, <4>3, <4>4, Zenon
    <3>. QED
      BY <2>1, <3>2, <3>3, <3>4 DEF WifiStep, WifiNext
  <2>2. CASE MqttStep
    <3>1. UNCHANGED <<wifiVars, reboots>>
      BY <2>2 DEF MqttStep
    <3>. USE <3>1 DEF wifiVars
    <3>2. CASE mqtt_task
      BY <3>2, TopicAssumption
         DEF mqtt_task, mqtt_init, WaitBits, NextStep, stop_mqtt_client, ClearStatus,
             start_mqtt_client, SetConnected, Publish, CycleEnd, MqttSteps,
             ClientStates, xEventGroupSetBits, xEventGroupClearBits,
             MQTT_CONNECTED_BIT
    <3>3. CASE mqtt_event_handler
      BY <3>3 DEF mqtt_event_handler, ClientEvents, xEventGroupSetBits,
                  xEventGroupClearBits, MQTT_CONNECTED_BIT, MQTT_MUST_DISCONNECT_BIT
    <3>4. CASE \/ ClientConnects(LinkUp) \/ ClientFails(LinkUp)
               \/ ClientLosesSession(LinkUp) \/ ClientAborts
               \/ ClientReconnects \/ ClientStops
      BY <3>4, BrokerFaultAssumption
         DEF ClientConnects, ClientFails, ClientLosesSession, ClientAborts,
             ClientReconnects, ClientStops, ClientMoves, BrokerFault, MqttSteps,
             ClientStates, ClientEvents
    <3>. QED
      BY <2>2, <3>2, <3>3, <3>4 DEF MqttStep, MqttNext, MqttClient
  <2>3. CASE Reboot
    <3>1. ip_lost_timer' \in BOOLEAN
      BY <2>3, Zenon DEF Reboot, WifiReset
    <3>2. /\ eg_app_status' \subseteq StatusBits
          /\ network_pc' \in NetworkSteps /\ station' \in StationStates
          /\ event_queue' \in Seq(WifiEvents) /\ handling' \in HandlerSteps
          /\ wifi_connect_retry_counter' \in 0 .. 255
          /\ link_faults' \in 0 .. MaxLinkFaults
      BY <2>3, EmptySeq
         DEF Reboot, WifiReset, StationStates, HandlerSteps, NetworkSteps
    <3>3. MqttTypeOK' /\ reboots' \in 0 .. MaxReboots
      BY <2>3, RebootAssumption, TopicAssumption
         DEF Reboot, MqttReset, MqttSteps, ClientStates, ClientEvents
    <3>. QED
      BY <3>1, <3>2, <3>3, Zenon
  <2>4. CASE UNCHANGED vars
    BY <2>4 DEF vars, wifiVars, mqttVars
  <2>. QED
    BY <2>1, <2>2, <2>3, <2>4 DEF Next
<1>. QED
  BY <1>1, <1>2, PTL DEF Spec

-----------------------------------------------------------------------------
\* MqttInv is inductive: the connected bit is set only by mqtt_task after a
\* start and by an event of a client that is running, and a client stops only
\* under the control of mqtt_task, which then clears the bit.
THEOREM MqttInvariant == Spec => []MqttInv
<1>. USE DEF MqttInv, NoConnectedBitWithoutClient, SessionIsShown, MQTT_CONNECTED_BIT,
             MQTT_MUST_DISCONNECT_BIT, xEventGroupSetBits, xEventGroupClearBits
<1>1. Init => MqttInv
  BY DEF Init, AppStatusInit, MqttInit
<1>2. TypeOK /\ MqttInv /\ [Next]_vars => MqttInv'
  <2>. SUFFICES ASSUME TypeOK, MqttInv, [Next]_vars PROVE MqttInv'
    OBVIOUS
  <2>1. CASE WifiStep
    <3>1. UNCHANGED <<mqtt_pc, client, client_event>>
      BY <2>1 DEF WifiStep, mqttVars
    <3>2. "MQTT_CONNECTED" \in eg_app_status' <=> "MQTT_CONNECTED" \in eg_app_status
      BY <2>1 DEF WifiStep, WifiNext, network_task, wifi_event_handler, StaStart,
                  StaDisconnected, RequestDisconnect, Reconnect, GiveUp, GotIp,
                  LostIp, WifiDriver, StationAssociates, StationGetsAddress,
                  StationLosesAddress, StationDrops, IpLostTimerEnds,
                  WIFI_CONNECTED_BIT, WIFI_FAIL_BIT
    <3>. QED
      BY <3>1, <3>2
  <2>2. CASE MqttStep
    <3>1. CASE mqtt_init
      BY <3>1 DEF mqtt_init
    <3>2. CASE WaitBits
      <4>1. mqtt_pc' \in {"stop", "start", "publish", "cycle_end"}
        BY <3>2 DEF WaitBits, NextStep
      <4>2. mqtt_pc' \in {"stop", "publish"} => "MQTT_CONNECTED" \in eg_app_status
        BY <3>2 DEF WaitBits, NextStep, MustStop, MustStart, MustSend
      <4>. QED
        BY <3>2, <4>1, <4>2 DEF WaitBits
    <3>3. CASE stop_mqtt_client
      BY <3>3 DEF stop_mqtt_client
    <3>4. CASE ClearStatus
      BY <3>4 DEF ClearStatus
    <3>5. CASE start_mqtt_client
      BY <3>5 DEF start_mqtt_client
    <3>6. CASE SetConnected
      BY <3>6 DEF SetConnected
    <3>7. CASE Publish
      BY <3>7 DEF Publish
    <3>8. CASE CycleEnd
      BY <3>8 DEF CycleEnd
    <3>9. CASE mqtt_event_handler
      BY <3>9 DEF mqtt_event_handler
    <3>10. CASE ClientConnects(LinkUp) \/ ClientFails(LinkUp)
                \/ ClientLosesSession(LinkUp) \/ ClientAborts \/ ClientReconnects
      BY <3>10 DEF ClientConnects, ClientFails, ClientLosesSession, ClientAborts,
                   ClientReconnects, ClientMoves
    <3>11. CASE ClientStops
      BY <3>11 DEF ClientStops, ClientMoves
    <3>. QED
      BY <2>2, <3>1, <3>2, <3>3, <3>4, <3>5, <3>6, <3>7, <3>8, <3>9, <3>10, <3>11
         DEF MqttStep, MqttNext, mqtt_task, MqttClient
  <2>3. CASE Reboot
    BY <2>3 DEF Reboot, MqttReset
  <2>4. CASE UNCHANGED vars
    BY <2>4 DEF vars, mqttVars
  <2>. QED
    BY <2>1, <2>2, <2>3, <2>4 DEF Next
<1>. QED
  BY <1>1, <1>2, TypeCorrect, PTL DEF Spec

\* sendMQTTupdate never publishes on a client that is not running.
THEOREM PublishSafe == Spec => []PublishOnRunningClient
<1>1. MqttInv => PublishOnRunningClient
  BY DEF MqttInv, PublishOnRunningClient
<1>. QED
  BY <1>1, MqttInvariant, PTL

\* A connected client whose event has been handled shows in the status bits.
THEOREM SessionShown == Spec => []SessionIsShown
<1>1. MqttInv => SessionIsShown
  BY DEF MqttInv
<1>. QED
  BY <1>1, MqttInvariant, PTL

\* The connected bit outlives the client only until mqtt_task clears it.
THEOREM ConnectedBitSafe == Spec => []NoConnectedBitWithoutClient
<1>1. MqttInv => NoConnectedBitWithoutClient
  BY DEF MqttInv
<1>. QED
  BY <1>1, MqttInvariant, PTL

-----------------------------------------------------------------------------
\* WifiInv is inductive.  A start or disconnection event marks the moment the
\* driver goes idle; it leaves that state only when the handler, having taken
\* that event, connects again; so only the timer's event can follow it, the
\* events never pile up and the counter is compared with the maximum before
\* each increment.
THEOREM WifiInvariant == Spec => []WifiInv
<1>. USE DEF WifiInv, ConnectOnlyWhenIdle, Triggers, RetriesBounded, FailMeansOffline,
             OnlyLostIpLeft
<1>1. Init => WifiInv
  <2>. SUFFICES ASSUME Init PROVE WifiInv
    OBVIOUS
  <2>1. DOMAIN event_queue = {}
    BY DEF Init, WifiInit
  <2>. QED
    BY <2>1, RetryAssumption DEF Init, WifiInit, AppStatusInit
<1>2. TypeOK /\ WifiInv /\ [Next]_vars => WifiInv'
  <2>. SUFFICES ASSUME TypeOK, WifiInv, [Next]_vars PROVE WifiInv'
    OBVIOUS
  <2>. USE DEF WIFI_CONNECTED_BIT, WIFI_FAIL_BIT, xEventGroupSetBits,
               xEventGroupClearBits
  <2>0. /\ event_queue \in Seq(WifiEvents)
        /\ wifi_connect_retry_counter \in 0 .. 255
        /\ DOMAIN event_queue = 1 .. Len(event_queue)
        /\ Len(event_queue) \in Nat
    BY LenProperties DEF TypeOK, WifiTypeOK
  <2>1. ASSUME NEW event, Dispatch(event)
        PROVE  /\ event_queue # <<>> /\ handling = "none"
               /\ Len(event_queue') = Len(event_queue) - 1
               /\ DOMAIN event_queue' = 1 .. Len(event_queue')
               /\ 1 \in DOMAIN event_queue /\ event_queue[1] = event
               /\ event_queue' \in Seq(WifiEvents)
               /\ \A i \in DOMAIN event_queue' :
                    /\ i + 1 \in DOMAIN event_queue
                    /\ event_queue'[i] = event_queue[i + 1]
               /\ network_pc # "init" /\ station # "off"
               /\ WIFI_FAIL_BIT \in eg_app_status =>
                    event = "LOST_IP" /\ OnlyLostIpLeft'
    BY <2>0, <2>1, TailOfQueue, LenProperties DEF Dispatch
  <2>2. ASSUME NEW event \in Triggers, Dispatch(event)
        PROVE  /\ OnlyLostIpLeft' /\ station = "idle"
               /\ WIFI_FAIL_BIT \notin eg_app_status
    <3>1. 1 \in DOMAIN event_queue /\ event_queue[1] = event
      BY <2>1, <2>2
    <3>2. /\ station = "idle"
          /\ \A j \in DOMAIN event_queue : j > 1 => event_queue[j] = "LOST_IP"
      BY <2>2, <3>1
    <3>3. ASSUME NEW i \in DOMAIN event_queue' PROVE event_queue'[i] = "LOST_IP"
      <4>1. /\ i + 1 \in DOMAIN event_queue /\ event_queue'[i] = event_queue[i + 1]
            /\ i \in 1 .. Len(event_queue') /\ event_queue' \in Seq(WifiEvents)
        BY <2>1, <2>2
      <4>2. i + 1 > 1
        BY <4>1, LenProperties
      <4>. QED
        BY <3>2, <4>1, <4>2
    <3>. QED
      BY <2>1, <2>2, <3>2, <3>3
  <2>3. ASSUME NEW e \in WifiEvents, event_queue' = Append(event_queue, e)
        PROVE  /\ Len(event_queue') = Len(event_queue) + 1
               /\ \A i \in DOMAIN event_queue' :
                    \/ i \in DOMAIN event_queue /\ event_queue'[i] = event_queue[i]
                    \/ i = Len(event_queue') /\ event_queue'[i] = e
    BY <2>0, <2>3, AppendToQueue
  <2>4. CASE network_task
    <3>1. event_queue = <<>> /\ DOMAIN event_queue = {} /\ Len(event_queue) = 0
      BY <2>4, <2>0 DEF network_task
    <3>2. \A i \in DOMAIN event_queue' : i = 1
      BY <2>4, <2>3, <3>1 DEF network_task, WifiEvents
    <3>. QED
      BY <2>4, <3>1, <3>2 DEF network_task
  <2>5. CASE StaStart
    <3>1. OnlyLostIpLeft' /\ station = "idle" /\ WIFI_FAIL_BIT \notin eg_app_status
      BY <2>5, <2>2 DEF StaStart
    <3>2. wifi_connect_retry_counter = 0
      BY <2>5, <2>1 DEF StaStart
    <3>3. wifi_connect_retry_counter' = 1
      BY <2>5, <3>2, CounterIsAByte DEF StaStart, ConnectAndCount
    <3>. QED
      BY <2>5, <2>1, <3>1, <3>3, RetryAssumption DEF StaStart, ConnectAndCount
  <2>6. CASE StaDisconnected
    <3>1. OnlyLostIpLeft' /\ station = "idle" /\ WIFI_FAIL_BIT \notin eg_app_status
      BY <2>6, <2>2 DEF StaDisconnected
    <3>. QED
      BY <2>6, <2>1, <3>1 DEF StaDisconnected
  <2>7. CASE RequestDisconnect
    BY <2>7 DEF RequestDisconnect, MQTT_MUST_DISCONNECT_BIT
  <2>8. CASE Reconnect
    <3>1. wifi_connect_retry_counter' = wifi_connect_retry_counter + 1
      BY <2>8, <2>0, CounterIsAByte, RetryAssumption DEF Reconnect, ConnectAndCount
    <3>2. OnlyLostIpLeft /\ OnlyLostIpLeft'
      BY <2>8, <2>0 DEF Reconnect
    <3>. QED
      BY <2>8, <2>0, <3>1, <3>2, RetryAssumption DEF Reconnect, ConnectAndCount
  <2>9. CASE GiveUp
    BY <2>9 DEF GiveUp
  <2>10. CASE GotIp \/ LostIp
    <3>1. PICK event \in WifiEvents : Dispatch(event)
      BY <2>10 DEF GotIp, LostIp, WifiEvents
    <3>2. ASSUME NEW i \in DOMAIN event_queue', event_queue'[i] \in Triggers
          PROVE  /\ station = "idle" /\ handling = "none"
                 /\ \A j \in DOMAIN event_queue' :
                      j > i => event_queue'[j] = "LOST_IP"
      <4>1. /\ i + 1 \in DOMAIN event_queue /\ event_queue[i + 1] \in Triggers
            /\ i \in 1 .. Len(event_queue')
        BY <2>1, <3>1, <3>2
      <4>2. /\ station = "idle" /\ handling = "none"
            /\ \A j \in DOMAIN event_queue :
                 j > i + 1 => event_queue[j] = "LOST_IP"
        BY <4>1
      <4>3. ASSUME NEW j \in DOMAIN event_queue', j > i
            PROVE  event_queue'[j] = "LOST_IP"
        <5>1. /\ j \in 1 .. Len(event_queue') /\ j + 1 \in DOMAIN event_queue
              /\ event_queue'[j] = event_queue[j + 1]
          BY <2>1, <3>1
        <5>2. j + 1 > i + 1
          BY <4>1, <4>3, <5>1
        <5>. QED
          BY <4>2, <5>1, <5>2
      <4>. QED
        BY <4>2, <4>3
    <3>3. \A i \in DOMAIN event_queue' :
            event_queue'[i] = "STA_START" => wifi_connect_retry_counter = 0
      BY <2>1, <3>1
    <3>. QED
      BY <2>10, <2>1, <3>1, <3>2, <3>3, RetryAssumption DEF GotIp, LostIp
  <2>11. CASE StationAssociates
    BY <2>11 DEF StationAssociates
  <2>12. CASE StationGetsAddress \/ StationDrops
    <3>1. /\ station \notin {"idle", "off"} /\ station' # "off"
          /\ handling = "none"
          /\ UNCHANGED <<eg_app_status, network_pc, handling,
                        wifi_connect_retry_counter>>
      BY <2>12 DEF StationGetsAddress, StationDrops
    <3>2. \A i \in DOMAIN event_queue : event_queue[i] \notin Triggers
      BY <3>1
    <3>3. \A i \in DOMAIN event_queue' :
            event_queue'[i] \in Triggers =>
              /\ event_queue'[i] = "STA_DISCONNECTED"
              /\ i = Len(event_queue') /\ station' = "idle"
      BY <2>12, <2>3, <3>2
         DEF StationGetsAddress, StationDrops, WifiEvents
    <3>4. event_queue' \in Seq(WifiEvents)
      BY <2>0, <2>12, AppendToQueue DEF StationGetsAddress, StationDrops, WifiEvents
    <3>5. \A i, j \in DOMAIN event_queue' :
            event_queue'[i] \in Triggers => ~ (j > i)
      BY <3>3, <3>4, LenProperties
    <3>. QED
      BY <3>1, <3>3, <3>5
  <2>15. CASE StationLosesAddress
    BY <2>15 DEF StationLosesAddress
  <2>16. CASE IpLostTimerEnds /\ station = "online"
    BY <2>16 DEF IpLostTimerEnds
  <2>17. CASE IpLostTimerEnds /\ station # "online"
    <3>1. /\ station \notin {"off"} /\ ip_lost_timer' = FALSE
          /\ event_queue' = Append(event_queue, "LOST_IP")
          /\ UNCHANGED <<eg_app_status, network_pc, station, handling,
                        wifi_connect_retry_counter>>
      BY <2>17 DEF IpLostTimerEnds
    <3>2. \A i \in DOMAIN event_queue' :
            \/ i \in DOMAIN event_queue /\ event_queue'[i] = event_queue[i]
            \/ event_queue'[i] = "LOST_IP"
      BY <2>3, <3>1 DEF WifiEvents
    <3>3. OnlyLostIpLeft => OnlyLostIpLeft'
      BY <3>2
    <3>4. ASSUME NEW i \in DOMAIN event_queue', event_queue'[i] \in Triggers
          PROVE  /\ station = "idle" /\ handling = "none"
                 /\ \A j \in DOMAIN event_queue' :
                      j > i => event_queue'[j] = "LOST_IP"
      BY <3>2, <3>4
    <3>5. \A i \in DOMAIN event_queue' :
            event_queue'[i] = "STA_START" => wifi_connect_retry_counter = 0
      BY <3>2
    <3>. QED
      BY <3>1, <3>3, <3>4, <3>5
  <2>13. CASE MqttStep \/ UNCHANGED vars
    <3>1. UNCHANGED wifiVars
      BY <2>13 DEF MqttStep, vars
    <3>2. \A bit \in {WIFI_CONNECTED_BIT, WIFI_FAIL_BIT} :
            bit \in eg_app_status' <=> bit \in eg_app_status
      BY <2>13 DEF MqttStep, MqttNext, mqtt_task, mqtt_init, WaitBits,
           stop_mqtt_client, ClearStatus, start_mqtt_client, SetConnected, Publish,
           CycleEnd, MqttClient, mqtt_event_handler, ClientConnects, ClientFails,
           ClientLosesSession, ClientAborts, ClientReconnects, ClientStops,
           ClientMoves, vars, MQTT_CONNECTED_BIT, MQTT_MUST_DISCONNECT_BIT
    <3>. QED
      BY <3>1, <3>2 DEF wifiVars
  <2>14. CASE Reboot
    <3>1. event_queue' = <<>> /\ DOMAIN event_queue' = {}
      BY <2>14 DEF Reboot, WifiReset
    <3>. QED
      BY <2>14, <3>1, RetryAssumption DEF Reboot, WifiReset
  <2>. QED
    BY <2>4, <2>5, <2>6, <2>7, <2>8, <2>9, <2>10, <2>11, <2>12, <2>13, <2>14,
       <2>15, <2>16, <2>17
       DEF Next, WifiStep, WifiNext, wifi_event_handler, WifiDriver
<1>. QED
  BY <1>1, <1>2, TypeCorrect, PTL DEF Spec

\* esp_wifi_connect is never asked of a driver that is already connecting.
THEOREM ConnectSafe == Spec => []ConnectOnlyWhenIdle
<1>1. WifiInv => ConnectOnlyWhenIdle
  BY DEF WifiInv
<1>. QED
  BY <1>1, WifiInvariant, PTL

\* The retries are counted up to the maximum and the byte never wraps.
THEOREM RetriesAreBounded == Spec => []RetriesBounded
<1>1. WifiInv => RetriesBounded
  BY DEF WifiInv
<1>. QED
  BY <1>1, WifiInvariant, PTL

\* Having given up, the station is off the air and is not said to be on it.
THEOREM FailIsFinal == Spec => []FailMeansOffline
<1>1. WifiInv => FailMeansOffline
  BY DEF WifiInv
<1>. QED
  BY <1>1, WifiInvariant, PTL

-----------------------------------------------------------------------------
\* What is in a queue after one event has been appended.
LEMMA QueuedAfterAppend ==
  ASSUME NEW e \in WifiEvents, NEW f, event_queue \in Seq(WifiEvents),
         event_queue' = Append(event_queue, e)
  PROVE  Queued(f)' <=> Queued(f) \/ f = e
<1>1. /\ DOMAIN event_queue = 1 .. Len(event_queue) /\ Len(event_queue) \in Nat
      /\ DOMAIN event_queue' = 1 .. Len(event_queue) + 1
      /\ \A i \in DOMAIN event_queue : event_queue'[i] = event_queue[i]
      /\ event_queue'[Len(event_queue) + 1] = e
  BY AppendProperties, LenProperties
<1>2. DOMAIN event_queue' = DOMAIN event_queue \cup {Len(event_queue) + 1}
  BY <1>1
<1>. QED
  BY <1>1, <1>2 DEF Queued

\* What is in a queue before its head is taken.
LEMMA QueuedBeforeDispatch ==
  ASSUME NEW e, NEW f, event_queue \in Seq(WifiEvents), Dispatch(e)
  PROVE  Queued(f) <=> Queued(f)' \/ f = e
<1>. DEFINE q == event_queue
<1>1. q # <<>> /\ Head(q) = e /\ event_queue' = Tail(q)
  BY DEF Dispatch
<1>2. /\ DOMAIN q = 1 .. Len(q) /\ Len(q) \in Nat \ {0} /\ q[1] = e
      /\ DOMAIN event_queue' = 1 .. Len(q) - 1
      /\ \A i \in 1 .. Len(q) - 1 : event_queue'[i] = q[i + 1]
  BY <1>1, HeadTailProperties, LenProperties, EmptySeq
<1>3. ASSUME Queued(f), f # e PROVE Queued(f)'
  <2>1. PICK i \in 1 .. Len(q) : q[i] = f
    BY <1>2, <1>3 DEF Queued
  <2>2. i - 1 \in 1 .. Len(q) - 1 /\ (i - 1) + 1 = i
    BY <1>2, <1>3, <2>1
  <2>3. event_queue'[i - 1] = f
    BY <1>2, <2>1, <2>2
  <2>. QED
    BY <1>2, <2>2, <2>3 DEF Queued
<1>4. ASSUME Queued(f)' PROVE Queued(f)
  <2>1. PICK i \in 1 .. Len(q) - 1 : event_queue'[i] = f
    BY <1>2, <1>4 DEF Queued
  <2>2. i + 1 \in 1 .. Len(q) /\ q[i + 1] = f
    BY <1>2, <2>1
  <2>. QED
    BY <1>2, <2>2 DEF Queued
<1>5. f = e => Queued(f)
  BY <1>2 DEF Queued
<1>. QED
  BY <1>3, <1>4, <1>5

\* LinkInv is inductive relative to WifiInv: only LOST_IP follows a
\* disconnection in the queue, so no address is claimed after it, and none is
\* lost before.
THEOREM LinkInvariant == Spec => []LinkInv
<1>1. Init => LinkInv
  <2>1. ASSUME event_queue = <<>> PROVE ~Queued("GOT_IP")
    BY <2>1 DEF Queued
  <2>. QED
    BY <2>1 DEF Init, WifiInit, AppStatusInit, LinkInv
<1>2. TypeOK /\ WifiInv /\ LinkInv /\ [Next]_vars => LinkInv'
  <2>. SUFFICES ASSUME TypeOK, WifiInv, LinkInv, [Next]_vars PROVE LinkInv'
    OBVIOUS
  <2>. USE DEF LinkInv, WIFI_CONNECTED_BIT, xEventGroupSetBits, xEventGroupClearBits
  <2>0. /\ event_queue \in Seq(WifiEvents)
        /\ network_pc = "init" <=> station = "off"
        /\ station = "off" => event_queue = <<>>
        /\ handling # "none" =>
             /\ OnlyLostIpLeft /\ station = "idle"
             /\ WIFI_CONNECTED_BIT \notin eg_app_status
        /\ station = "off" => ip_lost_timer = FALSE
    BY DEF TypeOK, WifiTypeOK, WifiInv, ConnectOnlyWhenIdle
  <2>1. event_queue = <<>> => \A f : ~Queued(f)
    BY DEF Queued
  <2>2. /\ event_queue' = <<>> => \A f : ~Queued(f)'
        /\ OnlyLostIpLeft => \A f : f # "LOST_IP" => ~Queued(f)
        /\ OnlyLostIpLeft' => \A f : f # "LOST_IP" => ~Queued(f)'
    BY DEF Queued, OnlyLostIpLeft
  <2>3. event_queue' = event_queue => \A f : Queued(f)' <=> Queued(f)
    BY DEF Queued
  <2>4. ASSUME NEW e \in WifiEvents, event_queue' = Append(event_queue, e), NEW f
        PROVE  Queued(f)' <=> Queued(f) \/ f = e
    BY <2>0, <2>4, QueuedAfterAppend
  <2>5. ASSUME NEW e, Dispatch(e), NEW f
        PROVE  Queued(f) <=> Queued(f)' \/ f = e
    BY <2>0, <2>5, QueuedBeforeDispatch
  <2>6. ASSUME NEW e \in Triggers, Dispatch(e)
        PROVE  station = "idle" /\ OnlyLostIpLeft'
    <3>1. /\ event_queue # <<>> /\ Head(event_queue) = e
          /\ event_queue' = Tail(event_queue)
      BY <2>6 DEF Dispatch
    <3>2. /\ 1 \in DOMAIN event_queue /\ event_queue[1] = e
          /\ DOMAIN event_queue' \subseteq Nat \ {0}
          /\ \A i \in DOMAIN event_queue' :
               /\ i + 1 \in DOMAIN event_queue
               /\ event_queue'[i] = event_queue[i + 1]
      BY <2>0, <3>1, TailOfQueue, LenProperties
    <3>3. /\ station = "idle"
          /\ \A j \in DOMAIN event_queue : j > 1 => event_queue[j] = "LOST_IP"
      BY <2>6, <3>2 DEF WifiInv, ConnectOnlyWhenIdle
    <3>4. \A i \in DOMAIN event_queue' : i + 1 > 1
      BY <3>2
    <3>. QED
      BY <3>2, <3>3, <3>4 DEF OnlyLostIpLeft
  <2>7. CASE network_task
    BY <2>7, <2>0, <2>1, <2>4 DEF network_task, WifiEvents
  <2>8. CASE StaStart
    <3>1. station = "idle" /\ OnlyLostIpLeft'
      BY <2>8, <2>6 DEF StaStart, Triggers
    <3>2. /\ ~Queued("STA_DISCONNECTED")' /\ ~Queued("GOT_IP")'
          /\ ~Queued("STA_DISCONNECTED") /\ ~Queued("GOT_IP")
      BY <2>8, <2>2, <2>5, <3>1 DEF StaStart
    <3>. QED
      BY <2>8, <3>1, <3>2 DEF StaStart, ConnectAndCount
  <2>9. CASE StaDisconnected
    <3>1. OnlyLostIpLeft' /\ station = "idle"
      BY <2>9, <2>6 DEF StaDisconnected, Triggers
    <3>. QED
      BY <2>9, <2>2, <3>1 DEF StaDisconnected
  <2>10. CASE RequestDisconnect \/ Reconnect \/ GiveUp
    <3>1. /\ OnlyLostIpLeft /\ event_queue' = event_queue
          /\ station' \in {"idle", "connecting"}
          /\ "WIFI_CONNECTED" \notin eg_app_status'
      BY <2>10, <2>0 DEF RequestDisconnect, Reconnect, GiveUp, ConnectAndCount,
                         MQTT_MUST_DISCONNECT_BIT, WIFI_FAIL_BIT
    <3>2. OnlyLostIpLeft'
      BY <3>1 DEF OnlyLostIpLeft
    <3>. QED
      BY <2>2, <3>1, <3>2
  <2>11. CASE GotIp
    <3>1. /\ Queued("GOT_IP")
          /\ Queued("STA_DISCONNECTED") <=> Queued("STA_DISCONNECTED")'
      BY <2>11, <2>5 DEF GotIp
    <3>. QED
      BY <2>11, <3>1 DEF GotIp
  <2>12. CASE LostIp
    <3>1. /\ Queued("GOT_IP") <=> Queued("GOT_IP")'
          /\ Queued("STA_DISCONNECTED") <=> Queued("STA_DISCONNECTED")'
      BY <2>12, <2>5 DEF LostIp
    <3>. QED
      BY <2>12, <3>1 DEF LostIp
  <2>13. CASE StationAssociates
    BY <2>13, <2>3 DEF StationAssociates
  <2>14. CASE StationGetsAddress
    <3>1. /\ Queued("GOT_IP")'
          /\ Queued("STA_DISCONNECTED")' <=> Queued("STA_DISCONNECTED")
      BY <2>14, <2>4 DEF StationGetsAddress, WifiEvents
    <3>. QED
      BY <2>14, <3>1 DEF StationGetsAddress
  <2>15. CASE StationLosesAddress
    <3>1. /\ Queued("GOT_IP")' <=> Queued("GOT_IP")
          /\ Queued("STA_DISCONNECTED")' <=> Queued("STA_DISCONNECTED")
      BY <2>15, <2>3 DEF StationLosesAddress
    <3>. QED
      BY <2>15, <3>1 DEF StationLosesAddress
  <2>19. CASE IpLostTimerEnds
    <3>1. /\ Queued("GOT_IP")' <=> Queued("GOT_IP")
          /\ Queued("STA_DISCONNECTED")' <=> Queued("STA_DISCONNECTED")
      BY <2>19, <2>3, <2>4 DEF IpLostTimerEnds, WifiEvents
    <3>. QED
      BY <2>19, <3>1 DEF IpLostTimerEnds
  <2>16. CASE StationDrops
    <3>1. Queued("STA_DISCONNECTED")'
      BY <2>16, <2>4 DEF StationDrops, WifiEvents
    <3>. QED
      BY <2>16, <3>1 DEF StationDrops
  <2>17. CASE MqttStep \/ UNCHANGED vars
    <3>1. UNCHANGED <<station, event_queue>>
      BY <2>17 DEF MqttStep, vars, wifiVars
    <3>2. "WIFI_CONNECTED" \in eg_app_status' <=> "WIFI_CONNECTED" \in eg_app_status
      BY <2>17 DEF MqttStep, MqttNext, mqtt_task, mqtt_init, WaitBits,
           stop_mqtt_client, ClearStatus, start_mqtt_client, SetConnected, Publish,
           CycleEnd, MqttClient, mqtt_event_handler, ClientConnects, ClientFails,
           ClientLosesSession, ClientAborts, ClientReconnects, ClientStops,
           ClientMoves, vars, MQTT_CONNECTED_BIT, MQTT_MUST_DISCONNECT_BIT
    <3>. QED
      BY <2>3, <3>1, <3>2
  <2>18. CASE Reboot
    BY <2>18, <2>2 DEF Reboot, WifiReset
  <2>. QED
    BY <2>7, <2>8, <2>9, <2>10, <2>11, <2>12, <2>13, <2>14, <2>15, <2>16, <2>17,
       <2>18, <2>19 DEF Next, WifiStep, WifiNext, wifi_event_handler, WifiDriver
<1>. QED
  BY <1>1, <1>2, TypeCorrect, WifiInvariant, PTL DEF Spec

\* The Wi-Fi bit and the station agree once every event has been handled.
THEOREM WifiBitRight == Spec => []WifiBitTracksLink
<1>1. LinkInv => WifiBitTracksLink
  BY DEF LinkInv, WifiBitTracksLink, OnlyLostIpLeft, Queued
<1>. QED
  BY <1>1, LinkInvariant, PTL
=============================================================================

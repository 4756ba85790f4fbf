---------------------------- MODULE WifiStation ----------------------------
(***************************************************************************)
(* wifi.c: network_task, which starts the Wi-Fi driver, and                *)
(* wifi_event_handler, which the default event loop runs for each posted   *)
(* event, one after the other.  The handler of a disconnection touches the *)
(* shared event group twice, so it takes three steps here and mqtt_task    *)
(* may run between them.  The driver itself is external: it moves `station'*)
(* and posts the events the handler switches on.  An assumption about it:  *)
(* esp_wifi_connect, whose result wifi.c ignores, starts an attempt        *)
(* whenever the station is idle.                                           *)
(***************************************************************************)
EXTENDS AppStatus, Naturals, Sequences

CONSTANTS
  WIFI_CONNECT_MAXIMUM_RETRY,   \* 100 in wifi.c
  MaxLinkFaults                 \* bound: how often the air interface fails

ASSUME RetryAssumption == WIFI_CONNECT_MAXIMUM_RETRY \in 1 .. 255
ASSUME LinkFaultAssumption == MaxLinkFaults \in Nat

VARIABLES
  network_pc,                   \* the step network_task makes next
  station,                      \* external: what the driver is doing
  event_queue,                  \* the default event loop's queue
  handling,                     \* where in the STA_DISCONNECTED case we are
  wifi_connect_retry_counter,   \* uint8_t
  ip_lost_timer,                \* external: esp_netif's 120 s timer runs
  link_faults

wifiVars == <<network_pc, station, event_queue, handling,
              wifi_connect_retry_counter, ip_lost_timer, link_faults>>

StationStates == {"off", "idle", "connecting", "associated", "online"}
WifiEvents    == {"STA_START", "STA_DISCONNECTED", "GOT_IP", "LOST_IP"}
NetworkSteps  == {"init", "sleep"}
HandlerSteps  == {"none", "request_disconnect", "retry"}

WifiTypeOK ==
  /\ network_pc \in NetworkSteps
  /\ station \in StationStates
  /\ event_queue \in Seq(WifiEvents)
  /\ handling \in HandlerSteps
  /\ wifi_connect_retry_counter \in 0 .. 255
  /\ ip_lost_timer \in BOOLEAN
  /\ link_faults \in 0 .. MaxLinkFaults

WifiInit ==
  /\ network_pc = "init"
  /\ station = "off"
  /\ event_queue = <<>>
  /\ handling = "none"
  /\ wifi_connect_retry_counter = 0
  /\ ip_lost_timer = FALSE
  /\ link_faults = 0

\* An abort: RAM and the driver start afresh.
WifiReset ==
  /\ network_pc' = "init"
  /\ station' = "off"
  /\ event_queue' = <<>>
  /\ handling' = "none"
  /\ wifi_connect_retry_counter' = 0
  /\ ip_lost_timer' = FALSE
  /\ UNCHANGED link_faults
-----------------------------------------------------------------------------
\* network_task: NVS, driver and handlers are set up, then esp_wifi_start
\* posts STA_START; the task only sleeps afterwards.
network_task ==
  /\ network_pc = "init"
  /\ network_pc' = "sleep"
  /\ station' = "idle"
  /\ event_queue' = Append(event_queue, "STA_START")
  /\ UNCHANGED <<eg_app_status, handling, wifi_connect_retry_counter,
                 ip_lost_timer, link_faults>>
-----------------------------------------------------------------------------
(* wifi_event_handler *)

Dispatch(event) ==
  /\ handling = "none"
  /\ event_queue # <<>>
  /\ Head(event_queue) = event
  /\ event_queue' = Tail(event_queue)

\* esp_wifi_connect() followed by the increment of the uint8_t counter.
ConnectAndCount ==
  /\ station' = "connecting"
  /\ wifi_connect_retry_counter' = (wifi_connect_retry_counter + 1) % 256

StaStart ==
  /\ Dispatch("STA_START")
  /\ ConnectAndCount
  /\ UNCHANGED <<eg_app_status, network_pc, handling, ip_lost_timer,
                 link_faults>>

\* Mutant: the handler clears the other bit.
StaDisconnected_WrongBit ==
  /\ Dispatch("STA_DISCONNECTED")
  /\ xEventGroupClearBits({WIFI_FAIL_BIT})
  /\ handling' = "request_disconnect"
  /\ UNCHANGED <<network_pc, station, wifi_connect_retry_counter,
                 ip_lost_timer, link_faults>>

StaDisconnected ==
  /\ Dispatch("STA_DISCONNECTED")
  /\ xEventGroupClearBits({WIFI_CONNECTED_BIT})
  /\ handling' = "request_disconnect"
  /\ UNCHANGED <<network_pc, station, wifi_connect_retry_counter,
                 ip_lost_timer, link_faults>>

RequestDisconnect ==
  /\ handling = "request_disconnect"
  /\ xEventGroupSetBits({MQTT_MUST_DISCONNECT_BIT})
  /\ handling' = "retry"
  /\ UNCHANGED <<network_pc, station, event_queue,
                 wifi_connect_retry_counter, ip_lost_timer, link_faults>>

\* Mutant: the retries are compared one too late.
Reconnect_OneMore ==
  /\ handling = "retry"
  /\ wifi_connect_retry_counter <= WIFI_CONNECT_MAXIMUM_RETRY
  /\ ConnectAndCount
  /\ handling' = "none"
  /\ UNCHANGED <<eg_app_status, network_pc, event_queue, ip_lost_timer,
                 link_faults>>

Reconnect ==
  /\ handling = "retry"
  /\ wifi_connect_retry_counter < WIFI_CONNECT_MAXIMUM_RETRY
  /\ ConnectAndCount
  /\ handling' = "none"
  /\ UNCHANGED <<eg_app_status, network_pc, event_queue, ip_lost_timer,
                 link_faults>>

\* Mutant: gives up without a word.
GiveUp_Silent ==
  /\ handling = "retry"
  /\ wifi_connect_retry_counter >= WIFI_CONNECT_MAXIMUM_RETRY
  /\ handling' = "none"
  /\ UNCHANGED <<eg_app_status, network_pc, station, event_queue,
                 wifi_connect_retry_counter, ip_lost_timer, link_faults>>

\* Mutant: the else is lost, the handler connects after giving up.
GiveUp_ConnectsToo ==
  /\ handling = "retry"
  /\ wifi_connect_retry_counter >= WIFI_CONNECT_MAXIMUM_RETRY
  /\ xEventGroupSetBits({WIFI_FAIL_BIT})
  /\ ConnectAndCount
  /\ handling' = "none"
  /\ UNCHANGED <<network_pc, event_queue, ip_lost_timer, link_faults>>

GiveUp ==
  /\ handling = "retry"
  /\ wifi_connect_retry_counter >= WIFI_CONNECT_MAXIMUM_RETRY
  /\ xEventGroupSetBits({WIFI_FAIL_BIT})
  /\ handling' = "none"
  /\ UNCHANGED <<network_pc, station, event_queue,
                 wifi_connect_retry_counter, ip_lost_timer, link_faults>>

GotIp ==
  /\ Dispatch("GOT_IP")
  /\ wifi_connect_retry_counter' = 0
  /\ xEventGroupSetBits({WIFI_CONNECTED_BIT})
  /\ UNCHANGED <<network_pc, station, handling, ip_lost_timer, link_faults>>

\* Mutant: a lost address is answered with a new connection.
LostIp_Reconnects ==
  /\ Dispatch("LOST_IP")
  /\ ConnectAndCount
  /\ UNCHANGED <<eg_app_status, network_pc, handling, ip_lost_timer,
                 link_faults>>

\* The case of IP_EVENT_STA_LOST_IP only writes a log line.
LostIp ==
  /\ Dispatch("LOST_IP")
  /\ UNCHANGED <<eg_app_status, network_pc, station, handling,
                 wifi_connect_retry_counter, ip_lost_timer, link_faults>>

wifi_event_handler ==
  \/ StaStart \/ StaDisconnected \/ RequestDisconnect
  \/ Reconnect \/ GiveUp \/ GotIp \/ LostIp
-----------------------------------------------------------------------------
(* The driver and the DHCP client: external.  Every attempt that is asked  *)
(* for ends in an address or in STA_DISCONNECTED, after which the driver   *)
(* waits for the next esp_wifi_connect.                                    *)

StationAssociates ==
  /\ station = "connecting"
  /\ station' = "associated"
  /\ UNCHANGED <<eg_app_status, network_pc, event_queue, handling,
                 wifi_connect_retry_counter, ip_lost_timer, link_faults>>

StationGetsAddress ==
  /\ station = "associated"
  /\ station' = "online"
  /\ event_queue' = Append(event_queue, "GOT_IP")
  /\ UNCHANGED <<eg_app_status, network_pc, handling,
                 wifi_connect_retry_counter, ip_lost_timer, link_faults>>

LinkFault ==
  /\ link_faults < MaxLinkFaults
  /\ link_faults' = link_faults + 1

\* The driver's netif starts the timer when a valid address goes away.
StationLosesAddress ==
  /\ LinkFault
  /\ station = "online"
  /\ station' = "associated"
  /\ ip_lost_timer' = TRUE
  /\ UNCHANGED <<eg_app_status, network_pc, event_queue, handling,
                 wifi_connect_retry_counter>>

StationDrops ==
  /\ LinkFault
  /\ station \in {"connecting", "associated", "online"}
  /\ station' = "idle"
  /\ event_queue' = Append(event_queue, "STA_DISCONNECTED")
  /\ ip_lost_timer' = (ip_lost_timer \/ station = "online")
  /\ UNCHANGED <<eg_app_status, network_pc, handling,
                 wifi_connect_retry_counter>>

\* CONFIG_ESP_NETIF_IP_LOST_TIMER_INTERVAL later, whatever the station has
\* come to: the loss is posted unless there is an address again.
IpLostTimerEnds ==
  /\ ip_lost_timer
  /\ ip_lost_timer' = FALSE
  /\ event_queue' = IF station = "online" THEN event_queue
                    ELSE Append(event_queue, "LOST_IP")
  /\ UNCHANGED <<eg_app_status, network_pc, station, handling,
                 wifi_connect_retry_counter, link_faults>>

WifiDriver ==
  \/ StationAssociates \/ StationGetsAddress
  \/ StationLosesAddress \/ StationDrops \/ IpLostTimerEnds

WifiNext == network_task \/ wifi_event_handler \/ WifiDriver
=============================================================================

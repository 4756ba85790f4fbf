---------------------------- MODULE Supervision ----------------------------
(***************************************************************************)
(* Connectivity with a history variable, which no step depends on: whether *)
(* there is a reason to stop the client that mqtt_task decided to start.   *)
(* With it the program implements MqttSession.                             *)
(***************************************************************************)
EXTENDS Connectivity

VARIABLE excused

supervisedVars == <<vars, excused>>

\* The Wi-Fi is lost, a disconnection is requested, or the chip restarts.
Disturbed ==
  \/ WIFI_CONNECTED_BIT \in eg_app_status \ eg_app_status'
  \/ MQTT_MUST_DISCONNECT_BIT \in eg_app_status' \ eg_app_status
  \/ reboots' # reboots

DecidesToStart == mqtt_pc = "wait" /\ mqtt_pc' = "start"

SupervisedInit == Init /\ excused = TRUE

SupervisedNext ==
  /\ Next
  /\ excused' = IF Disturbed THEN TRUE
                ELSE IF DecidesToStart THEN FALSE ELSE excused

SupervisedSpec ==
  SupervisedInit /\ [][SupervisedNext]_supervisedVars /\ Fairness

NextPublication == IF mqtt_pc = "publish" THEN topic + 1 ELSE 0

Session == INSTANCE MqttSession WITH
  running <- client # "stopped",
  update  <- NextPublication

\* A request to disconnect that mqtt_task could not serve, or that a lost
\* session left behind, never stops a client started after it; and an update
\* once begun publishes every topic in order on a client that keeps running,
\* whatever the handlers do to the status bits meanwhile.
ImplementsSession == Session!Spec
=============================================================================

----------------------------- MODULE AppStatus -----------------------------
(***************************************************************************)
(* The FreeRTOS event group eg_app_status (dust_sensor.h, main.c): the     *)
(* only state the Wi-Fi side and the MQTT side of the program share.  The  *)
(* two FreeRTOS calls that change it are atomic, and are the operators     *)
(* below; every other module changes the group only through them.          *)
(***************************************************************************)

VARIABLE eg_app_status     \* the set of bits that are 1

WIFI_CONNECTED_BIT       == "WIFI_CONNECTED"
WIFI_FAIL_BIT            == "WIFI_FAIL"
MQTT_CONNECTED_BIT       == "MQTT_CONNECTED"
MQTT_MUST_DISCONNECT_BIT == "MQTT_MUST_DISCONNECT"

StatusBits == {WIFI_CONNECTED_BIT, WIFI_FAIL_BIT,
               MQTT_CONNECTED_BIT, MQTT_MUST_DISCONNECT_BIT}

xEventGroupSetBits(bits)   == eg_app_status' = eg_app_status \cup bits
xEventGroupClearBits(bits) == eg_app_status' = eg_app_status \ bits

\* app_main creates the group and clears it before any task exists.
AppStatusInit == eg_app_status = {}
=============================================================================

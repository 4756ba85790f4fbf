---------------------------- MODULE SensorUarts -----------------------------
(***************************************************************************)
(* The two serial drivers, pms7003.c and mhz19.c, as their tasks use them. *)
(* Each file declares `int _uart_num;' at file scope without static: the   *)
(* linker merges the two (as it must merge dust_values, which a header     *)
(* declares the same way), so both drivers share one variable and read it  *)
(* again at every call.  The serial driver of ESP-IDF and the sensors are  *)
(* external: a port has a driver or not, its transmitter reaches the       *)
(* sensors whose pins it was routed to last, its receiver listens to one.  *)
(***************************************************************************)
EXTENDS Naturals

CONSTANT MaxReboots            \* bound: aborts

ASSUME RebootAssumption == MaxReboots \in Nat

VARIABLES
  uart_num,      \* _uart_num
  driver_pc,     \* the call each driver makes next
  values,        \* what each driver's last reading was made of
  installed,     \* ports whose driver is installed
  tx_port,       \* the port each sensor's RX pin is fed from
  rx_sensor,     \* the sensor each port's receiver listens to
  rx_buffer,     \* the sensors whose answer each port has received
  reboots

Drivers == {"pms", "mhz"}
Ports   == {0, 1, 2}
NoPort  == 3                   \* of a sensor no port is routed to

\* The port each task names in its call of pms_init or mhz19_init.
OwnPort == [pms |-> 2, mhz |-> 1]

ownVars  == <<uart_num, driver_pc, values>>
portVars == <<installed, tx_port, rx_sensor, rx_buffer>>
vars     == <<ownVars, portVars, reboots>>

InitSteps    == {"set_num", "set_pin", "install"}
RequestSteps == {"passive", "flush", "write", "read"}

TypeOK ==
  /\ uart_num \in Ports
  /\ driver_pc \in [Drivers -> InitSteps \cup RequestSteps]
  /\ values \in [Drivers -> {"none", "own", "zero", "garbage"}]
  /\ installed \subseteq Ports
  /\ tx_port \in [Drivers -> Ports \cup {NoPort}]
  /\ rx_sensor \in [Ports -> Drivers \cup {"none"}]
  /\ rx_buffer \in [Ports -> SUBSET Drivers]
  /\ reboots \in 0 .. MaxReboots

Init ==
  /\ uart_num = 0
  /\ driver_pc = [d \in Drivers |-> "set_num"]
  /\ values = [d \in Drivers |-> "none"]
  /\ installed = {}
  /\ tx_port = [d \in Drivers |-> NoPort]
  /\ rx_sensor = [p \in Ports |-> "none"]
  /\ rx_buffer = [p \in Ports |-> {}]
  /\ reboots = 0

Reboot ==
  /\ reboots < MaxReboots
  /\ uart_num' = 0
  /\ driver_pc' = [d \in Drivers |-> "set_num"]
  /\ values' = [d \in Drivers |-> "none"]
  /\ installed' = {}
  /\ tx_port' = [d \in Drivers |-> NoPort]
  /\ rx_sensor' = [p \in Ports |-> "none"]
  /\ rx_buffer' = [p \in Ports |-> {}]
  /\ reboots' = reboots + 1

Goto(d, step) == driver_pc' = [driver_pc EXCEPT ![d] = step]
-----------------------------------------------------------------------------
(* pms_init and mhz19_init; none of their calls is checked.                *)

SetUartNum(d) ==
  /\ driver_pc[d] = "set_num"
  /\ uart_num' = OwnPort[d]
  /\ Goto(d, "set_pin")
  /\ UNCHANGED <<values, portVars, reboots>>

\* uart_set_pin with the pins of sensor d; a pin routed earlier to another
\* port is taken over, the port's transmitter keeps the pins it had.
SetPin(d) ==
  /\ driver_pc[d] = "set_pin"
  /\ tx_port' = [tx_port EXCEPT ![d] = uart_num]
  /\ rx_sensor' = [rx_sensor EXCEPT ![uart_num] = d]
  /\ Goto(d, "install")
  /\ UNCHANGED <<uart_num, values, installed, rx_buffer, reboots>>

\* Mutant: a driver that finds any port installed leaves it at that.
Install_Once(d) ==
  /\ driver_pc[d] = "install"
  /\ installed' = IF installed = {} THEN {uart_num} ELSE installed
  /\ Goto(d, IF d = "pms" THEN "passive" ELSE "flush")
  /\ UNCHANGED <<uart_num, values, tx_port, rx_sensor, rx_buffer, reboots>>

\* uart_driver_install fails, unnoticed, on a port that has its driver.
Install(d) ==
  /\ driver_pc[d] = "install"
  /\ installed' = installed \cup {uart_num}
  /\ Goto(d, IF d = "pms" THEN "passive" ELSE "flush")
  /\ UNCHANGED <<uart_num, values, tx_port, rx_sensor, rx_buffer, reboots>>
-----------------------------------------------------------------------------
(* Requests.                                                               *)

Reached(p) == {d \in Drivers : tx_port[d] = p}

\* pms_set_passive_mode: one write whose result is not looked at.
SetPassiveMode ==
  /\ driver_pc["pms"] = "passive"
  /\ Goto("pms", "flush")
  /\ UNCHANGED <<uart_num, values, portVars, reboots>>

Flush(d) ==
  /\ driver_pc[d] = "flush"
  /\ rx_buffer' = [rx_buffer EXCEPT ![uart_num] = {}]
  /\ Goto(d, "write")
  /\ UNCHANGED <<uart_num, values, installed, tx_port, rx_sensor, reboots>>

\* The read command of d reaches the sensors on the port; sensor d answers it
\* on every port that listens to it.
Write(d) ==
  /\ driver_pc[d] = "write"
  /\ uart_num \in installed
  /\ rx_buffer' = [p \in Ports |->
       IF d \in Reached(uart_num) /\ rx_sensor[p] = d /\ p \in installed
         THEN rx_buffer[p] \cup {d} ELSE rx_buffer[p]]
  /\ Goto(d, "read")
  /\ UNCHANGED <<uart_num, values, installed, tx_port, rx_sensor, reboots>>

\* uart_write_bytes returns -1 on a port without driver: the task aborts.
WriteFails(d) ==
  /\ driver_pc[d] = "write"
  /\ uart_num \notin installed
  /\ Reboot

\* The read loop.  It ends with d's own answer only if that is what the port
\* holds.  Without a driver uart_read_bytes returns -1, which is 255 in the
\* uint8_t count: the loop ends at once, and the checksum of whatever is on the
\* stack decides.
Read(d) ==
  /\ driver_pc[d] = "read"
  /\ \E v \in IF uart_num \notin installed   THEN {"garbage", "zero"}
              ELSE IF rx_buffer[uart_num] = {d} THEN {"own"}
              ELSE IF d \in rx_buffer[uart_num] THEN {"own", "zero"}
              ELSE {"zero"} :
       values' = [values EXCEPT ![d] = v]
  /\ rx_buffer' = [rx_buffer EXCEPT ![uart_num] = {}]
  /\ Goto(d, "flush")
  /\ UNCHANGED <<uart_num, installed, tx_port, rx_sensor, reboots>>

driver(d) ==
  \/ SetUartNum(d) \/ SetPin(d) \/ Install(d)
  \/ Flush(d) \/ Write(d) \/ WriteFails(d) \/ Read(d)

Next == SetPassiveMode \/ \E d \in Drivers : driver(d)

Spec == Init /\ [][Next]_vars
-----------------------------------------------------------------------------
Initialised(d) == driver_pc[d] \in RequestSteps

\* Whatever the order of the two initialisations, they leave the shared
\* variable at a port that has a driver and both directions of a sensor.
PortInUseWorks ==
  (\A d \in Drivers : Initialised(d)) =>
    /\ uart_num \in installed
    /\ Reached(uart_num) # {}
    /\ rx_sensor[uart_num] # "none"

\* So a request that fails, or that is answered with what was on the stack,
\* can only be one made while the other driver is still being initialised.
FailuresOnlyDuringBoot ==
  [][reboots' # reboots \/ (\E d \in Drivers : values'[d] = "garbage"
                                            /\ values[d] # "garbage")
       => \E d \in Drivers : ~Initialised(d)]_vars
-----------------------------------------------------------------------------
(* What the calls in dust.c and co2.c say: each driver was given a port of *)
(* its own, and its requests go to its sensor.                             *)

\* dust_sensor_task gives the dust sensor UART_NUM_2 and co2_sensor_task the
\* CO2 sensor UART_NUM_1: a request of an initialised driver is sent there.
RequestsOnOwnPort ==
  \A d \in Drivers : driver_pc[d] = "write" => uart_num = OwnPort[d]
=============================================================================

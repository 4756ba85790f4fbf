------------------------- MODULE SensorUartsProofs --------------------------
(***************************************************************************)
(* Proofs about SensorUarts: the order in which the two drivers set,       *)
(* route and install the port they share never leaves it half set up.      *)
(***************************************************************************)
EXTENDS SensorUarts, TLAPS

\* Some driver's own port is the one in use once a driver has set it, and what
\* is not done for that port is still ahead of that driver: it reads the shared
\* variable again at each step, and no other driver can change it any more
\* without taking over this obligation.
PortInv ==
  \/ uart_num = 0 /\ \A d \in Drivers : driver_pc[d] = "set_num"
  \/ \E d \in Drivers :
       /\ uart_num = OwnPort[d]
       /\ driver_pc[d] # "set_num"
       /\ driver_pc[d] # "set_pin" =>
            /\ rx_sensor[uart_num] # "none"
            /\ \E s \in Drivers : tx_port[s] = uart_num
       /\ driver_pc[d] \notin {"set_pin", "install"} => uart_num \in installed

\* Every variable keeps its type.
THEOREM TypeCorrect == Spec => []TypeOK
<1>. USE DEF TypeOK, Drivers, Ports, InitSteps, RequestSteps
<1>1. Init => TypeOK
  BY RebootAssumption DEF Init, NoPort
<1>2. TypeOK /\ [Next]_vars => TypeOK'
  <2>. SUFFICES ASSUME TypeOK, [Next]_vars PROVE TypeOK'
    OBVIOUS
  <2>1. CASE SetPassiveMode
    BY <2>1 DEF SetPassiveMode, Goto, portVars
  <2>2. ASSUME NEW d \in Drivers, driver(d) PROVE TypeOK'
    <3>1. CASE SetUartNum(d)
      BY <3>1 DEF SetUartNum, Goto, OwnPort, portVars
    <3>2. CASE SetPin(d)
      BY <3>2 DEF SetPin, Goto
    <3>3. CASE Install(d)
      BY <3>3 DEF Install, Goto
    <3>4. CASE Flush(d)
      BY <3>4 DEF Flush, Goto
    <3>5. CASE Write(d)
      BY <3>5 DEF Write, Goto
    <3>6. CASE WriteFails(d)
      BY <3>6, RebootAssumption DEF WriteFails, Reboot, NoPort
    <3>7. CASE Read(d)
      BY <3>7 DEF Read, Goto
    <3>. QED
      BY <2>2, <3>1, <3>2, <3>3, <3>4, <3>5, <3>6, <3>7 DEF driver
  <2>3. CASE UNCHANGED vars
    BY <2>3 DEF vars, ownVars, portVars
  <2>. QED
    BY <2>1, <2>2, <2>3 DEF Next
<1>. QED
  BY <1>1, <1>2, PTL DEF Spec

\* PortInv is inductive.
THEOREM PortInvariant == Spec => []PortInv
<1>. USE DEF PortInv, Drivers, Ports, OwnPort
<1>1. Init => PortInv
  BY DEF Init
<1>2. TypeOK /\ PortInv /\ [Next]_vars => PortInv'
  <2>. SUFFICES ASSUME TypeOK, PortInv, [Next]_vars PROVE PortInv'
    OBVIOUS
  <2>. USE DEF TypeOK, Goto
  <2>1. CASE SetPassiveMode
    BY <2>1 DEF SetPassiveMode, portVars
  <2>2. ASSUME NEW d \in Drivers, driver(d) PROVE PortInv'
    <3>1. CASE SetUartNum(d)
      BY <3>1 DEF SetUartNum
    <3>2. CASE SetPin(d)
      BY <3>2 DEF SetPin
    <3>3. CASE Install(d)
      BY <3>3 DEF Install
    <3>4. CASE Flush(d)
      BY <3>4 DEF Flush
    <3>5. CASE Write(d)
      BY <3>5 DEF Write
    <3>6. CASE WriteFails(d)
      BY <3>6 DEF WriteFails, Reboot
    <3>7. CASE Read(d)
      BY <3>7 DEF Read
    <3>. QED
      BY <2>2, <3>1, <3>2, <3>3, <3>4, <3>5, <3>6, <3>7 DEF driver
  <2>3. CASE UNCHANGED vars
    BY <2>3 DEF vars, ownVars, portVars
  <2>. QED
    BY <2>1, <2>2, <2>3 DEF Next
<1>. QED
  BY <1>1, <1>2, TypeCorrect, PTL DEF Spec

\* Both drivers initialised: the port in use has a driver and a sensor.
THEOREM PortWorks == Spec => []PortInUseWorks
<1>1. PortInv => PortInUseWorks
  BY DEF PortInv, PortInUseWorks, Initialised, Reached, Drivers, RequestSteps
<1>. QED
  BY <1>1, PortInvariant, PTL

\* Requests fail, and garbage is read, only until both are initialised.
THEOREM FailuresAreEarly == Spec => FailuresOnlyDuringBoot
<1>1. TypeOK /\ PortInv /\ [Next]_vars =>
        [reboots' # reboots \/ (\E d \in Drivers : values'[d] = "garbage"
                                                 /\ values[d] # "garbage")
           => \E d \in Drivers : ~Initialised(d)]_vars
  <2>. SUFFICES ASSUME TypeOK, PortInv, Next, \A d \in Drivers : Initialised(d)
                PROVE  /\ reboots' = reboots
                       /\ \A d \in Drivers :
                            values[d] # "garbage" => values'[d] # "garbage"
    OBVIOUS
  <2>1. uart_num \in installed
    BY DEF PortInv, Initialised, Drivers, RequestSteps
  <2>2. CASE SetPassiveMode
    BY <2>2 DEF SetPassiveMode
  <2>3. ASSUME NEW d \in Drivers, driver(d)
        PROVE  /\ reboots' = reboots
               /\ \A e \in Drivers :
                    values[e] # "garbage" => values'[e] # "garbage"
    <3>1. CASE Read(d)
      BY <2>1, <3>1 DEF Read, TypeOK
    <3>2. CASE SetUartNum(d) \/ SetPin(d) \/ Install(d) \/ Flush(d) \/ Write(d)
      BY <3>2 DEF SetUartNum, SetPin, Install, Flush, Write
    <3>. QED
      BY <2>1, <2>3, <3>1, <3>2 DEF driver, WriteFails
  <2>. QED
    BY <2>2, <2>3 DEF Next
<1>. QED
  BY <1>1, TypeCorrect, PortInvariant, PTL DEF Spec, FailuresOnlyDuringBoot
=============================================================================

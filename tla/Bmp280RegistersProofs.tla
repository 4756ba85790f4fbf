----------------------- MODULE Bmp280RegistersProofs -----------------------
(* Proofs about Bmp280Registers, for every set of settings asked for.      *)
EXTENDS Bmp280Registers, TLAPS
-----------------------------------------------------------------------------
(* A field of a byte, at bit 5, 2 or 0: what SET_BITS does to it and to    *)
(* the bits around it.                                                     *)

\* The three bits at position 5 take the value, the five below keep theirs.
LEMMA SetHighField ==
  ASSUME NEW x \in Byte, NEW v \in 0 .. 7
  PROVE  LET y == SET_BITS(x, [pos |-> 32, size |-> 8], v)
         IN  /\ y \in Byte
             /\ (y \div 32) % 8 = v
             /\ y % 32 = x % 32
BY DEF Byte, SET_BITS, GET_BITS

\* The three bits at position 2 take the value, those on both sides keep theirs.
LEMMA SetMiddleField ==
  ASSUME NEW x \in Byte, NEW v \in 0 .. 7
  PROVE  LET y == SET_BITS(x, [pos |-> 4, size |-> 8], v)
         IN  /\ y \in Byte
             /\ (y \div 4) % 8 = v
             /\ y \div 32 = x \div 32
             /\ y % 4 = x % 4
BY DEF Byte, SET_BITS, GET_BITS

\* The lowest bit takes the value, those above it keep theirs.
LEMMA SetLowestBit ==
  ASSUME NEW x \in Byte, NEW v \in 0 .. 1
  PROVE  LET y == SET_BITS(x, [pos |-> 1, size |-> 2], v)
         IN  /\ y \in Byte
             /\ (y \div 1) % 2 = v
             /\ y \div 4 = x \div 4
             /\ y \div 32 = x \div 32
BY DEF Byte, SET_BITS, GET_BITS

\* The two mode bits take the value, those above them keep theirs.
LEMMA SetModeBits ==
  ASSUME NEW x \in Byte, NEW v \in 0 .. 3
  PROVE  LET y == SET_BITS(x, [pos |-> 1, size |-> 4], v)
         IN  /\ y \in Byte
             /\ (y \div 1) % 4 = v
             /\ y \div 4 = x \div 4
             /\ y \div 32 = x \div 32
BY DEF Byte, SET_BITS, GET_BITS
-----------------------------------------------------------------------------
(* The two registers as conf_sensor writes them.                           *)

\* Both settings of ctrl_meas can be read back from what was computed for it,
\* and the mode bits are the old ones.
LEMMA MeasWritten ==
  ASSUME NEW x \in Byte, NEW t \in 0 .. 7, NEW p \in 0 .. 7
  PROVE  LET y == SET_BITS(SET_BITS(x, OS_TEMP, t), OS_PRES, p)
         IN  /\ y \in Byte
             /\ GET_BITS(OS_TEMP, y) = t
             /\ GET_BITS(OS_PRES, y) = p
             /\ GET_BITS(POWER_MODE, y) = GET_BITS(POWER_MODE, x)
<1> DEFINE y1 == SET_BITS(x, OS_TEMP, t)
           y2 == SET_BITS(y1, OS_PRES, p)
<1>1. y1 \in Byte /\ (y1 \div 32) % 8 = t /\ y1 % 32 = x % 32
  BY SetHighField DEF OS_TEMP
<1>2. y2 \in Byte /\ (y2 \div 4) % 8 = p /\ y2 \div 32 = y1 \div 32 /\ y2 % 4 = y1 % 4
  <2> HIDE DEF y1
  <2> QED BY <1>1, SetMiddleField DEF OS_PRES
<1>3. GET_BITS(POWER_MODE, y2) = GET_BITS(POWER_MODE, x)
  <2> HIDE DEF y1, y2
  <2>1. y1 % 4 = x % 4
    BY <1>1 DEF Byte
  <2>2. (y2 \div 1) % 4 = y2 % 4 /\ (x \div 1) % 4 = x % 4
    BY <1>2 DEF Byte
  <2> QED BY <1>2, <2>1, <2>2 DEF GET_BITS, POWER_MODE
<1> QED BY <1>1, <1>2, <1>3 DEF GET_BITS, OS_TEMP, OS_PRES

\* All three settings of config can be read back from what was computed for it.
LEMMA ConfigWritten ==
  ASSUME NEW x \in Byte, NEW o \in 0 .. 7, NEW f \in 0 .. 7, NEW e \in 0 .. 1
  PROVE  LET y == SET_BITS(SET_BITS(SET_BITS(x, STANDBY_DURN, o), FILTER, f),
                           SPI3_ENABLE, e)
         IN  /\ y \in Byte
             /\ GET_BITS(STANDBY_DURN, y) = o
             /\ GET_BITS(FILTER, y) = f
             /\ GET_BITS(SPI3_ENABLE, y) = e
<1> DEFINE y1 == SET_BITS(x, STANDBY_DURN, o)
           y2 == SET_BITS(y1, FILTER, f)
           y3 == SET_BITS(y2, SPI3_ENABLE, e)
<1>1. y1 \in Byte /\ (y1 \div 32) % 8 = o
  BY SetHighField DEF STANDBY_DURN
<1>2. y2 \in Byte /\ (y2 \div 4) % 8 = f /\ y2 \div 32 = y1 \div 32
  <2> HIDE DEF y1
  <2> QED BY <1>1, SetMiddleField DEF FILTER
<1>3. /\ y3 \in Byte /\ (y3 \div 1) % 2 = e
      /\ y3 \div 4 = y2 \div 4 /\ y3 \div 32 = y2 \div 32
  <2> HIDE DEF y2
  <2> QED BY <1>2, SetLowestBit DEF SPI3_ENABLE
<1> QED BY <1>1, <1>2, <1>3 DEF GET_BITS, STANDBY_DURN, FILTER, SPI3_ENABLE

\* The mode written is the mode read, and both settings of ctrl_meas stay.
LEMMA ModeWritten ==
  ASSUME NEW x \in Byte, NEW m \in Modes
  PROVE  LET y == SET_BITS(x, POWER_MODE, m)
         IN  /\ y \in Byte
             /\ GET_BITS(POWER_MODE, y) = m
             /\ GET_BITS(OS_TEMP, y) = GET_BITS(OS_TEMP, x)
             /\ GET_BITS(OS_PRES, y) = GET_BITS(OS_PRES, x)
<1>1. m \in 0 .. 3
  BY DEF Modes, SLEEP_MODE, FORCED_MODE, NORMAL_MODE
<1> QED BY <1>1, SetModeBits DEF GET_BITS, OS_TEMP, OS_PRES, POWER_MODE

\* What a chip that decodes 7 address bits makes of the bursts: with two data
\* bytes each register gets its own, with one config is left alone.
LEMMA BurstReceived ==
  ASSUME NEW b0 \in Byte, NEW b1 \in Byte, NEW old \in Byte
  PROVE  /\ Received(Burst(<<b0, b1>>, 2), 244, old) = b0
         /\ Received(Burst(<<b0, b1>>, 2), 245, old) = b1
         /\ Received(Burst(<<b0, b1>>, 1), 244, old) = b0
         /\ Received(Burst(<<b0, b1>>, 1), 245, old) = old
<1> DEFINE two == Burst(<<b0, b1>>, 2)
           one == Burst(<<b0, b1>>, 1)
<1>1. /\ DOMAIN two = 1 .. 4
      /\ two[1] = 116 /\ two[2] = b0 /\ two[3] = 117 /\ two[4] = b1
  BY DEF Burst, reg_addr
<1>2. DOMAIN one = 1 .. 2 /\ one[1] = 116 /\ one[2] = b0
  BY DEF Burst, reg_addr
<1> HIDE DEF two, one
<1>3. Received(two, 244, old) = b0
  <2>1. {k \in 1 .. 2 : 2 * k \in DOMAIN two /\ two[2 * k - 1] % 128 = 244 % 128} = {1}
    BY <1>1
  <2> QED BY <2>1, <1>1 DEF Received
<1>4. Received(two, 245, old) = b1
  <2>1. {k \in 1 .. 2 : 2 * k \in DOMAIN two /\ two[2 * k - 1] % 128 = 245 % 128} = {2}
    BY <1>1
  <2> QED BY <2>1, <1>1 DEF Received
<1>5. Received(one, 244, old) = b0
  <2>1. {k \in 1 .. 2 : 2 * k \in DOMAIN one /\ one[2 * k - 1] % 128 = 244 % 128} = {1}
    BY <1>2
  <2> QED BY <2>1, <1>2 DEF Received
<1>6. Received(one, 245, old) = old
  <2>1. {k \in 1 .. 2 : 2 * k \in DOMAIN one /\ one[2 * k - 1] % 128 = 245 % 128} = {}
    BY <1>2
  <2> QED BY <2>1 DEF Received
<1> QED BY <1>3, <1>4, <1>5, <1>6 DEF two, one

\* Whatever the registers hold, they say some settings.
LEMMA ConfOfType ==
  ASSUME NEW meas \in Byte, NEW cfg \in Byte
  PROVE  ConfOf(meas, cfg) \in Confs
<1>1. \A x \in Byte : /\ (x \div 32) % 8 \in 0 .. 7
                      /\ (x \div 4) % 8 \in 0 .. 7
                      /\ (x \div 1) % 2 \in 0 .. 1
  BY DEF Byte
<1> QED BY <1>1 DEF ConfOf, Confs, GET_BITS, OS_TEMP, OS_PRES, STANDBY_DURN,
                    FILTER, SPI3_ENABLE
-----------------------------------------------------------------------------
(* The invariant.  What conf_sensor leaves behind is right once the mode   *)
(* has been written too, so until then temp[0], which is written again,    *)
(* must hold the same settings as the register.  And the mode the chip was *)
(* found in is in temp[0] until the burst restores it: only if it was      *)
(* sleep the chip is bound to take config.                                 *)

SettingsOf(meas) ==
  /\ GET_BITS(OS_TEMP, meas) = conf.os_temp
  /\ GET_BITS(OS_PRES, meas) = conf.os_pres

SettingsStand ==
  pc = "write_mode" =>
    /\ SettingsOf(ctrl_meas) /\ SettingsOf(temp0)
    /\ found = SLEEP_MODE => /\ ConfOf(ctrl_meas, config) = conf
                             /\ ConfOf(temp0, config) = conf

FoundRemembered ==
  pc \in {"reset", "write_config"} => GET_BITS(POWER_MODE, temp0) = found

IInv == TypeOK /\ ConfIsTheChips /\ SettingsStand /\ FoundRemembered

\* The mode bits of a byte are one of four.
LEMMA ModeBitsType ==
  ASSUME NEW x \in Byte
  PROVE  GET_BITS(POWER_MODE, x) \in 0 .. 3
BY DEF Byte, GET_BITS, POWER_MODE

LEMMA InitInv == Init => IInv
<1> SUFFICES ASSUME Init PROVE IInv
  OBVIOUS
<1>1. 0 \in Byte /\ ConfOf(0, 0) \in Confs
  <2>1. 0 \in Byte
    BY DEF Byte
  <2> QED BY <2>1, ConfOfType
<1>2. Default \in Confs
  BY DEF Default, Confs
<1>3. TypeOK
  BY <1>1, <1>2 DEF Init, TypeOK, Modes, SLEEP_MODE
<1>4. ConfIsTheChips
  BY DEF Init, ConfIsTheChips, ConfOf
<1> QED BY <1>3, <1>4 DEF Init, IInv, SettingsStand, FoundRemembered

LEMMA NextInv == IInv /\ [Next]_vars => IInv'
<1> SUFFICES ASSUME IInv, [Next]_vars PROVE IInv'
  OBVIOUS
<1> USE DEF IInv, TypeOK, ConfIsTheChips, SettingsStand, SettingsOf,
            FoundRemembered, history
<1>0. GET_BITS(POWER_MODE, ctrl_meas) \in 0 .. 3
  BY ModeBitsType
<1>1. CASE bmp280_set_config
  <2>1. PICK c \in Wanted : conf_sensor(SLEEP_MODE, c)
    BY <1>1 DEF bmp280_set_config
  <2>2. c \in Confs
    <3>1. FieldValues \subseteq 0 .. 7 /\ {0, 1} \subseteq 0 .. 1
      BY ValueAssumption
    <3> QED BY <3>1 DEF Wanted, Confs
  <2> QED BY <1>0, <1>1, <2>1, <2>2
             DEF bmp280_set_config, conf_sensor, Modes, SLEEP_MODE
<1>2. CASE bmp280_set_power_mode
  BY <1>0, <1>2 DEF bmp280_set_power_mode, conf_sensor
<1>3. CASE SoftReset
  BY <1>3 DEF SoftReset, Byte
<1>4. CASE WriteConfig
  <2>1. /\ wanted.os_temp \in 0 .. 7 /\ wanted.os_pres \in 0 .. 7
        /\ wanted.odr \in 0 .. 7 /\ wanted.filter \in 0 .. 7
        /\ wanted.spi3w_en \in 0 .. 1
    BY DEF Confs
  <2>2. /\ ConfiguredMeas \in Byte
        /\ GET_BITS(OS_TEMP, ConfiguredMeas) = wanted.os_temp
        /\ GET_BITS(OS_PRES, ConfiguredMeas) = wanted.os_pres
        /\ GET_BITS(POWER_MODE, ConfiguredMeas) = GET_BITS(POWER_MODE, temp0)
    BY <2>1, MeasWritten DEF ConfiguredMeas
  <2>3. /\ ConfiguredConfig \in Byte
        /\ GET_BITS(STANDBY_DURN, ConfiguredConfig) = wanted.odr
        /\ GET_BITS(FILTER, ConfiguredConfig) = wanted.filter
        /\ GET_BITS(SPI3_ENABLE, ConfiguredConfig) = wanted.spi3w_en
    BY <2>1, ConfigWritten DEF ConfiguredConfig
  <2>4. /\ temp0' = ConfiguredMeas /\ temp1' = ConfiguredConfig
        /\ ctrl_meas' = ConfiguredMeas
        /\ \/ config' = ConfiguredConfig
           \/ /\ GET_BITS(POWER_MODE, ConfiguredMeas) # SLEEP_MODE
              /\ config' = config
    BY <1>4, <2>2, <2>3, BurstReceived DEF WriteConfig, Send
  <2>5. ConfOf(ConfiguredMeas, ConfiguredConfig) = wanted
    BY <2>2, <2>3 DEF ConfOf, Confs
  <2>6. found = SLEEP_MODE => config' = ConfiguredConfig
    BY <1>4, <2>2, <2>4 DEF WriteConfig
  <2>7. pc' \in {"write_mode", "idle"} /\ conf' = wanted
        /\ UNCHANGED <<wanted, wanted_mode, history>>
    BY <1>4 DEF WriteConfig
  <2>8. TypeOK'
    BY <2>2, <2>3, <2>4, <2>7
  <2>9. /\ GET_BITS(OS_TEMP, ctrl_meas)' = wanted.os_temp
        /\ GET_BITS(OS_PRES, ctrl_meas)' = wanted.os_pres
        /\ GET_BITS(OS_TEMP, temp0)' = wanted.os_temp
        /\ GET_BITS(OS_PRES, temp0)' = wanted.os_pres
        /\ found = SLEEP_MODE => /\ ConfOf(ctrl_meas, config)' = wanted
                                 /\ ConfOf(temp0, config)' = wanted
    BY <2>2, <2>4, <2>5, <2>6
  <2> QED BY <2>7, <2>8, <2>9
<1>5. CASE WriteMode
  <2> DEFINE written == SET_BITS(temp0, POWER_MODE, wanted_mode)
  <2>1. /\ written \in Byte
        /\ GET_BITS(OS_TEMP, written) = GET_BITS(OS_TEMP, temp0)
        /\ GET_BITS(OS_PRES, written) = GET_BITS(OS_PRES, temp0)
        /\ ConfOf(written, config) = ConfOf(temp0, config)
    BY ModeWritten DEF ConfOf
  <2> HIDE DEF written
  <2>2. temp0' = written /\ ctrl_meas' = written /\ config' = config
    BY <1>5, <2>1, BurstReceived DEF WriteMode, Send, written
  <2> QED BY <1>5, <2>1, <2>2 DEF WriteMode
<1>6. CASE ForcedMeasurementEnds
  <2> DEFINE asleep == SET_BITS(ctrl_meas, POWER_MODE, SLEEP_MODE)
  <2>1. /\ asleep \in Byte
        /\ GET_BITS(OS_TEMP, asleep) = GET_BITS(OS_TEMP, ctrl_meas)
        /\ GET_BITS(OS_PRES, asleep) = GET_BITS(OS_PRES, ctrl_meas)
        /\ ConfOf(asleep, config) = ConfOf(ctrl_meas, config)
    BY ModeWritten DEF ConfOf, Modes
  <2> HIDE DEF asleep
  <2>2. ctrl_meas' = asleep /\ UNCHANGED <<pc, config, temp0, conf, found>>
    BY <1>6 DEF ForcedMeasurementEnds, asleep
  <2> QED BY <1>6, <2>1, <2>2 DEF ForcedMeasurementEnds
<1>7. CASE UNCHANGED vars
  BY <1>7 DEF vars
<1> QED BY <1>1, <1>2, <1>3, <1>4, <1>5, <1>6, <1>7 DEF Next

\* TypeOK: both registers and temp[2] hold bytes, dev->conf holds settings.
THEOREM TypeCorrect == Spec => []TypeOK
<1>1. IInv => TypeOK
  BY DEF IInv
<1> QED BY <1>1, InitInv, NextInv, PTL DEF Spec

\* ConfIsTheChips, for any sequence of calls with any settings: between calls
\* dev->conf is what ctrl_meas is set to, and what config is set to if the last
\* call found the chip asleep.  One that was running may have ignored config.
THEOREM ConfAgrees == Spec => []ConfIsTheChips
<1>1. IInv => ConfIsTheChips
  BY DEF IInv
<1> QED BY <1>1, InitInv, NextInv, PTL DEF Spec
-----------------------------------------------------------------------------
(* The mode.  While conf_sensor is under way temp[0] remembers it for a    *)
(* chip that the reset has put to sleep, unless another mode is asked for. *)

ModeRemembered ==
  /\ pc \in {"reset", "write_config"} =>
       wanted_mode # SLEEP_MODE \/ asked = SLEEP_MODE
         \/ (GET_BITS(POWER_MODE, temp0) = NORMAL_MODE <=> asked = NORMAL_MODE)
  /\ pc # "idle" /\ wanted_mode # SLEEP_MODE => asked = wanted_mode
  /\ pc = "write_mode" => wanted_mode # SLEEP_MODE

\* ModeOutlivesResets, for any sequence of calls: once another mode than sleep
\* has been asked for, the chip measures in normal mode between calls exactly if
\* that was the mode, whatever resets the calls for other settings make.
THEOREM ModeKept == Spec => []ModeOutlivesResets
<1> DEFINE Inv == ModeOutlivesResets /\ ModeRemembered
<1>1. Init => Inv
  <2>1. (0 \div 1) % 4 = 0
    OBVIOUS
  <2> QED BY <2>1 DEF Init, ModeOutlivesResets, ModeRemembered, GET_BITS,
                      POWER_MODE, SLEEP_MODE, NORMAL_MODE
<1>2. IInv /\ Inv /\ [Next]_vars => Inv'
  <2> SUFFICES ASSUME IInv, Inv, [Next]_vars PROVE Inv'
    OBVIOUS
  <2> USE DEF ModeOutlivesResets, ModeRemembered, history
  <2>0. /\ temp0 \in Byte /\ temp1 \in Byte /\ ctrl_meas \in Byte /\ config \in Byte
        /\ wanted \in Confs /\ wanted_mode \in Modes
    BY DEF IInv, TypeOK
  <2>1. CASE bmp280_set_config
    BY <2>1 DEF bmp280_set_config, conf_sensor
  <2>2. CASE bmp280_set_power_mode
    BY <2>2 DEF bmp280_set_power_mode, conf_sensor
  <2>3. CASE SoftReset
    BY <2>3 DEF SoftReset
  <2>4. CASE WriteConfig
    <3>1. ConfiguredMeas \in Byte /\ ConfiguredConfig \in Byte
          /\ GET_BITS(POWER_MODE, ConfiguredMeas) = GET_BITS(POWER_MODE, temp0)
      BY <2>0, MeasWritten, ConfigWritten
         DEF ConfiguredMeas, ConfiguredConfig, Confs
    <3>2. temp0' = ConfiguredMeas /\ ctrl_meas' = ConfiguredMeas
      BY <2>0, <2>4, <3>1, BurstReceived DEF WriteConfig, Send
    <3> QED BY <2>4, <3>1, <3>2 DEF WriteConfig
  <2>5. CASE WriteMode
    <3> DEFINE written == SET_BITS(temp0, POWER_MODE, wanted_mode)
    <3>1. written \in Byte /\ GET_BITS(POWER_MODE, written) = wanted_mode
      BY <2>0, ModeWritten
    <3> HIDE DEF written
    <3>2. ctrl_meas' = written
      BY <2>0, <2>5, <3>1, BurstReceived DEF WriteMode, Send, written
    <3> QED BY <2>5, <3>1, <3>2 DEF WriteMode
  <2>6. CASE ForcedMeasurementEnds
    <3>1. GET_BITS(POWER_MODE, SET_BITS(ctrl_meas, POWER_MODE, SLEEP_MODE)) = SLEEP_MODE
      BY <2>0, ModeWritten DEF Modes
    <3>2. /\ GET_BITS(POWER_MODE, ctrl_meas) # NORMAL_MODE
          /\ GET_BITS(POWER_MODE, ctrl_meas') # NORMAL_MODE
      BY <2>6, <3>1 DEF ForcedMeasurementEnds, SLEEP_MODE, FORCED_MODE, NORMAL_MODE
    <3> QED BY <2>6, <3>2 DEF ForcedMeasurementEnds
  <2>7. CASE UNCHANGED vars
    BY <2>7 DEF vars
  <2> QED BY <2>1, <2>2, <2>3, <2>4, <2>5, <2>6, <2>7 DEF Next
<1>3. Inv => ModeOutlivesResets
  OBVIOUS
<1> QED BY <1>1, <1>2, <1>3, InitInv, NextInv, PTL DEF Spec
=============================================================================

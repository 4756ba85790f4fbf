--------------------------- MODULE Bmp280Registers ---------------------------
(***************************************************************************)
(* The settings registers of the BMP280 bit by bit, as the driver          *)
(* bmp280.c changes them: the bit-field macros of bmp280_defs.h, conf_     *)
(* sensor and the burst it sends through write_i2c_registers (bmp.c).  The *)
(* order and the failures of the transfers are in Bmp280; here every one   *)
(* succeeds.  The chip is external.                                        *)
(***************************************************************************)
EXTENDS Naturals

CONSTANT FieldValues     \* bound: the settings asked for

ASSUME ValueAssumption == FieldValues \subseteq 0 .. 7

Byte == 0 .. 255

VARIABLES
  pc,
  ctrl_meas, config,   \* external: the chip's two registers
  temp0, temp1,        \* temp[2] of conf_sensor
  wanted,              \* *conf of conf_sensor
  wanted_mode,         \* mode of conf_sensor
  conf,                \* dev->conf
  asked,               \* history: the mode last asked for
  found                \* history: the mode the last call found the chip in

history == <<asked, found>>
vars == <<pc, ctrl_meas, config, temp0, temp1, wanted, wanted_mode, conf,
          history>>
-----------------------------------------------------------------------------
(* Bit fields.  x & mask, shifted, is a division and a remainder.          *)

OS_TEMP      == [pos |-> 32, size |-> 8]
OS_PRES      == [pos |-> 4,  size |-> 8]
POWER_MODE   == [pos |-> 1,  size |-> 4]
STANDBY_DURN == [pos |-> 32, size |-> 8]
FILTER       == [pos |-> 4,  size |-> 8]
SPI3_ENABLE  == [pos |-> 1,  size |-> 2]

GET_BITS(field, x) == (x \div field.pos) % field.size

\* Mutant: the old value of the field is not cleared.
SET_BITS_NoClear(x, field, val) == x + (val % field.size) * field.pos

SET_BITS(x, field, val) ==
  x - GET_BITS(field, x) * field.pos + (val % field.size) * field.pos

Confs == [os_temp : 0 .. 7, os_pres : 0 .. 7, odr : 0 .. 7, filter : 0 .. 7,
          spi3w_en : 0 .. 1]

\* bmp280_get_config: what the registers say.
ConfOf(meas, cfg) ==
  [os_temp  |-> GET_BITS(OS_TEMP, meas),
   os_pres  |-> GET_BITS(OS_PRES, meas),
   odr      |-> GET_BITS(STANDBY_DURN, cfg),
   filter   |-> GET_BITS(FILTER, cfg),
   spi3w_en |-> GET_BITS(SPI3_ENABLE, cfg)]

SLEEP_MODE  == 0
FORCED_MODE == 1
NORMAL_MODE == 3
Modes       == {SLEEP_MODE, FORCED_MODE, NORMAL_MODE}
-----------------------------------------------------------------------------
TypeOK ==
  /\ pc \in {"idle", "reset", "write_config", "write_mode"}
  /\ ctrl_meas \in Byte /\ config \in Byte
  /\ temp0 \in Byte /\ temp1 \in Byte
  /\ wanted \in Confs
  /\ wanted_mode \in Modes
  /\ conf \in Confs
  /\ asked \in Modes
  /\ found \in 0 .. 3

Default == [os_temp |-> 0, os_pres |-> 0, odr |-> 0, filter |-> 0, spi3w_en |-> 0]

\* bmp280_init has reset the chip, bmp280_get_config has read it.
Init ==
  /\ pc = "idle"
  /\ ctrl_meas = 0 /\ config = 0
  /\ temp0 = 0 /\ temp1 = 0
  /\ wanted = Default
  /\ wanted_mode = SLEEP_MODE
  /\ conf = ConfOf(ctrl_meas, config)
  /\ asked = SLEEP_MODE
  /\ found = SLEEP_MODE

\* conf_sensor reads both registers back ...
conf_sensor(mode, c) ==
  /\ pc = "idle"
  /\ pc' = "reset"
  /\ temp0' = ctrl_meas /\ temp1' = config
  /\ wanted' = c
  /\ wanted_mode' = mode
  /\ found' = GET_BITS(POWER_MODE, ctrl_meas)
  /\ UNCHANGED <<ctrl_meas, config, conf>>

\* Settings a caller can ask for: those in FieldValues.
Wanted == [os_temp : FieldValues, os_pres : FieldValues, odr : FieldValues,
           filter : FieldValues, spi3w_en : {0, 1}]

bmp280_set_config ==
  /\ \E c \in Wanted : conf_sensor(SLEEP_MODE, c)
  /\ UNCHANGED asked

bmp280_set_power_mode ==
  \E mode \in Modes :
    /\ conf_sensor(mode, conf)
    /\ asked' = mode

\* ... resets the chip ...
SoftReset ==
  /\ pc = "reset"
  /\ pc' = "write_config"
  /\ ctrl_meas' = 0 /\ config' = 0
  /\ UNCHANGED <<temp0, temp1, wanted, wanted_mode, conf, history>>

\* ... writes both in one burst: bmp280_set_regs gives write_i2c_registers the
\* first address and, in temp_buff, what interleave_data makes of the rest.
reg_addr == <<244, 245>>     \* ctrl_meas 0xF4, config 0xF5

\* Mutant: the data bytes follow the first address one after the other.
Burst_NotInterleaved(reg_data, len) ==
  [i \in 1 .. 2 * len |-> IF i = 1 THEN reg_addr[1] % 128
                          ELSE IF i <= len + 1 THEN reg_data[i - 1] ELSE 0]

Burst(reg_data, len) ==
  [i \in 1 .. 2 * len |-> IF i % 2 = 1 THEN reg_addr[(i + 1) \div 2] % 128
                                       ELSE reg_data[i \div 2]]

\* External: the chip takes pairs of an address, of which it decodes 7 bits,
\* and a value.  A register a burst does not name keeps its value.
Received(burst, r, old) ==
  LET pairs == {k \in 1 .. 2 : 2 * k \in DOMAIN burst
                                 /\ burst[2 * k - 1] % 128 = r % 128}
  IN  IF pairs = {} THEN old ELSE burst[2 * CHOOSE k \in pairs : TRUE]

\* A chip that is not asleep may ignore what is written to config, also if it
\* was the byte before that put it into another mode.
Send(burst) ==
  /\ ctrl_meas' = Received(burst, 244, ctrl_meas)
  /\ \/ config' = Received(burst, 245, config)
     \/ GET_BITS(POWER_MODE, ctrl_meas') # SLEEP_MODE /\ config' = config

\* Mutant: the register is put together from nothing.
ConfiguredMeas_NoMode ==
  SET_BITS(SET_BITS(0, OS_TEMP, wanted.os_temp), OS_PRES, wanted.os_pres)

ConfiguredMeas ==
  SET_BITS(SET_BITS(temp0, OS_TEMP, wanted.os_temp), OS_PRES, wanted.os_pres)
ConfiguredConfig ==
  SET_BITS(SET_BITS(SET_BITS(temp1, STANDBY_DURN, wanted.odr),
                    FILTER, wanted.filter),
           SPI3_ENABLE, wanted.spi3w_en)

WriteConfig ==
  /\ pc = "write_config"
  /\ temp0' = ConfiguredMeas
  /\ temp1' = ConfiguredConfig
  /\ Send(Burst(<<temp0', temp1'>>, 2))
  /\ conf' = wanted
  /\ pc' = IF wanted_mode # SLEEP_MODE THEN "write_mode" ELSE "idle"
  /\ UNCHANGED <<wanted, wanted_mode, history>>

\* ... and, for another mode than sleep, the first once more.
WriteMode ==
  /\ pc = "write_mode"
  /\ temp0' = SET_BITS(temp0, POWER_MODE, wanted_mode)
  /\ Send(Burst(<<temp0', temp1>>, 1))
  /\ pc' = "idle"
  /\ UNCHANGED <<temp1, wanted, wanted_mode, conf, history>>

\* External: a forced measurement ends and the chip is asleep.
ForcedMeasurementEnds ==
  /\ GET_BITS(POWER_MODE, ctrl_meas) = FORCED_MODE
  /\ ctrl_meas' = SET_BITS(ctrl_meas, POWER_MODE, SLEEP_MODE)
  /\ UNCHANGED <<pc, config, temp0, temp1, wanted, wanted_mode, conf, history>>

Next ==
  \/ bmp280_set_config \/ bmp280_set_power_mode
  \/ SoftReset \/ WriteConfig \/ WriteMode
  \/ ForcedMeasurementEnds

Spec == Init /\ [][Next]_vars
-----------------------------------------------------------------------------
\* Between calls dev->conf is what the chip is set to, on which
\* bmp280_set_power_mode relies when it writes all settings once more: for
\* ctrl_meas always, for config if the last call found the chip asleep.  If it
\* did not, line 783 restores the old mode with the first byte of the burst and
\* writes config to a chip that may ignore it.
ConfIsTheChips ==
  pc = "idle" =>
    /\ GET_BITS(OS_TEMP, ctrl_meas) = conf.os_temp
    /\ GET_BITS(OS_PRES, ctrl_meas) = conf.os_pres
    /\ found = SLEEP_MODE => ConfOf(ctrl_meas, config) = conf

\* Settings may be changed on a running chip, the reset inside conf_sensor
\* notwithstanding: once another mode than sleep has been asked for, the chip
\* measures in normal mode between calls exactly if that was the mode.
ModeOutlivesResets ==
  pc = "idle" /\ asked # SLEEP_MODE =>
    (GET_BITS(POWER_MODE, ctrl_meas) = NORMAL_MODE <=> asked = NORMAL_MODE)
-----------------------------------------------------------------------------
(* What bmp280.h says of bmp280_set_power_mode.                            *)

\* "This API writes the power mode", and BMP280_SLEEP_MODE is one of those it
\* lists (bmp280.h:168-171): a chip that was asked to sleep does not go on
\* measuring.
AskedToSleepSleeps ==
  pc = "idle" /\ asked = SLEEP_MODE =>
    GET_BITS(POWER_MODE, ctrl_meas) # NORMAL_MODE
=============================================================================

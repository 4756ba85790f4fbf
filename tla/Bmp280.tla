------------------------------- MODULE Bmp280 -------------------------------
(***************************************************************************)
(* The pressure sensor: bmp_task (press.c) with the driver it calls,       *)
(* bmp.c and Bosch's bmp280.c, over an I2C bus.  A step is one transfer    *)
(* and what the driver does with its result.  The chip is external and is  *)
(* not powered off when the program restarts: it keeps its registers.      *)
(***************************************************************************)
EXTENDS Naturals

CONSTANTS
  ChipIgnoresBit7,    \* external: does the chip decode 7 address bits only?
  TICK_MS,            \* portTICK_PERIOD_MS; 10 with CONFIG_FREERTOS_HZ=100
  MaxFaults           \* bound: failed transfers and implausible readings

ASSUME ChipAssumption  == ChipIgnoresBit7 \in BOOLEAN
ASSUME TickAssumption  == TICK_MS \in Nat \ {0}
ASSUME FaultAssumption == MaxFaults \in Nat

VARIABLES
  task_pc,     \* the transfer bmp_task makes next
  try_count,   \* of bmp280_init
  mode,        \* what soft_reset is part of: bmp280_init or conf_sensor(mode)
  temp,        \* the registers conf_sensor has read back
  calib_param, \* of struct bmp280_dev: is it the chip's?
  conf,        \* of struct bmp280_dev: the settings the driver remembers
  raw,         \* the data bmp_fill_values has read last
  chip,        \* external: its settings and its power mode
  data,        \* external: its data registers
  waited,      \* ms spent in delay_ms, at least, since the last soft reset
  faults

dev  == <<calib_param, conf>>
task == <<try_count, mode, temp, dev, raw, waited>>
vars == <<task_pc, task, chip, data, faults>>

Steps    == {"install", "chip_id", "soft_reset", "calib", "get_config",
             "read_back", "write_config", "write_mode", "sample", "store"}
Settings == {"reset", "wanted"}    \* of one register
Modes    == {"sleep", "normal"}
Chips    == [meas : Settings, config : Settings, mode : Modes]

Data     == {"reset", "converted"}

SOFT_RESET_ADDR == 224   \* 0xE0
CTRL_MEAS_ADDR  == 244   \* 0xF4

BMP_TASK_DELAY      == 10000    \* ms
FIRST_CONVERSION_MS == 44       \* external: with the settings bmp_init wants

TypeOK ==
  /\ task_pc \in Steps
  /\ try_count \in 1 .. 5
  /\ mode \in {"init"} \cup Modes
  /\ temp \in Chips
  /\ calib_param \in {"unset", "read"}
  /\ conf \in [meas : Settings, config : Settings]
  /\ raw \in {"none"} \cup Data
  /\ chip \in Chips
  /\ data \in Data
  /\ waited \in Nat
  /\ faults \in 0 .. MaxFaults

ResetConf  == [meas |-> "reset", config |-> "reset"]
WantedConf == [meas |-> "wanted", config |-> "wanted"]

\* The chip with these settings in this power mode, and the settings of a chip.
ChipWith(settings, m) == [meas |-> settings.meas, config |-> settings.config,
                          mode |-> m]
SettingsOf(c)         == [meas |-> c.meas, config |-> c.config]

ResetChip == ChipWith(ResetConf, "sleep")

StartTask ==
  /\ task_pc' = "install"
  /\ try_count' = 5
  /\ mode' = "init"
  /\ temp' = ResetChip
  /\ calib_param' = "unset"
  /\ conf' = ResetConf
  /\ raw' = "none"
  /\ waited' = 0

Init ==
  /\ task_pc = "install"
  /\ try_count = 5
  /\ mode = "init"
  /\ temp = ResetChip
  /\ calib_param = "unset"
  /\ conf = ResetConf
  /\ raw = "none"
  /\ \/ chip = ResetChip /\ data = "reset"
     \/ chip = ChipWith(WantedConf, "normal") /\ data \in Data
  /\ waited = 0
  /\ faults = 0
-----------------------------------------------------------------------------
(* The bus and the clock.                                                  *)

\* Static memory is zero and bmp_init assigns every other member it needs, so
\* dev->intf is BMP280_SPI_INTF; bmp280_set_regs then masks the address.
intf == "SPI"
MaskedAddr(a) == IF intf = "SPI" THEN a % 128 ELSE a

\* External: does a write to address a reach register r of the chip?
Reaches(a, r) == a = r \/ (ChipIgnoresBit7 /\ a % 128 = r % 128)

\* A write that succeeds moves the chip to `new' if it reaches register r.
Write(r, new) == chip' = IF Reaches(MaskedAddr(r), r) THEN new ELSE chip

\* vTaskDelay(n) ends with the n-th tick from now, the first of which may be
\* just ahead.
DelayMs(ms) == LET ticks == ms \div TICK_MS
               IN  IF ticks = 0 THEN 0 ELSE (ticks - 1) * TICK_MS

\* External: a reset that arrives leaves no data, 0x80000 for both values.
Reset == /\ Write(SOFT_RESET_ADDR, ResetChip)
         /\ data' = IF Reaches(MaskedAddr(SOFT_RESET_ADDR), SOFT_RESET_ADDR)
                      THEN "reset" ELSE data

Fault == faults < MaxFaults /\ faults' = faults + 1

\* A call that fails makes bmp_init or bmp_fill_values return ESP_FAIL, the
\* ESP_ERROR_CHECK around it aborts, and the program starts over.
Abort == Fault /\ StartTask
-----------------------------------------------------------------------------
(* bmp_init *)

InstallDriver ==
  /\ task_pc = "install"
  /\ \/ /\ task_pc' = "chip_id"
        /\ UNCHANGED <<task, faults>>
     \/ Abort
  /\ UNCHANGED <<chip, data>>

\* Mutant: bmp280_init reads the calibration without resetting the chip.
ReadChipId_NoReset ==
  /\ task_pc = "chip_id"
  /\ task_pc' = "calib"
  /\ UNCHANGED <<task, chip, data, faults>>

\* bmp280_init has found the id of a BMP280.
ReadChipId ==
  /\ task_pc = "chip_id"
  /\ task_pc' = "soft_reset"
  /\ UNCHANGED <<task, chip, data, faults>>

\* Mutant: one try too many.
RetryChipId_OneMore ==
  /\ task_pc = "chip_id"
  /\ \/ /\ try_count > 0
        /\ try_count' = try_count - 1
        /\ Fault
        /\ UNCHANGED <<task_pc, mode, temp, dev, raw, waited>>
     \/ try_count = 0 /\ Abort
  /\ UNCHANGED <<chip, data>>

\* The read fails, or the id is not one of a BMP280.
RetryChipId ==
  /\ task_pc = "chip_id"
  /\ \/ /\ try_count > 1
        /\ try_count' = try_count - 1
        /\ Fault
        /\ UNCHANGED <<task_pc, mode, temp, dev, raw, waited>>
     \/ try_count = 1 /\ Abort
  /\ UNCHANGED <<chip, data>>

\* Mutant: the break after the calibration is lost, the chip is reset again.
SoftReset_NoBreak ==
  /\ task_pc = "soft_reset"
  /\ Reset
  /\ IF mode = "init"
       THEN task_pc' = "chip_id" /\ waited' = DelayMs(2) + DelayMs(200)
       ELSE task_pc' = "write_config" /\ waited' = DelayMs(2)
  /\ UNCHANGED <<try_count, mode, temp, dev, raw, faults>>

\* bmp280_soft_reset, in bmp280_init and in each conf_sensor.
SoftReset ==
  /\ task_pc = "soft_reset"
  /\ Reset
  /\ IF mode = "init"
       THEN task_pc' = "calib" /\ waited' = DelayMs(2) + DelayMs(200)
       ELSE task_pc' = "write_config" /\ waited' = DelayMs(2)
  /\ UNCHANGED <<try_count, mode, temp, dev, raw, faults>>

\* get_calib_param and the end of bmp280_init.
ReadCalib ==
  /\ task_pc = "calib"
  /\ task_pc' = "get_config"
  /\ calib_param' = "read"
  /\ conf' = ResetConf
  /\ UNCHANGED <<try_count, mode, temp, raw, chip, data, waited, faults>>

\* bmp280_get_config; bmp_init then wants other settings and calls
\* bmp280_set_config, which is conf_sensor(BMP280_SLEEP_MODE).
GetConfig ==
  /\ task_pc = "get_config"
  /\ task_pc' = "read_back"
  /\ mode' = "sleep"
  /\ conf' = SettingsOf(chip)
  /\ UNCHANGED <<try_count, temp, calib_param, raw, chip, data, waited, faults>>
-----------------------------------------------------------------------------
(* conf_sensor *)

ReadBack ==
  /\ task_pc = "read_back"
  /\ task_pc' = "soft_reset"
  /\ temp' = chip
  /\ UNCHANGED <<try_count, mode, dev, raw, chip, data, waited, faults>>

\* Both registers in one burst.  The settings are the wanted ones, the power
\* mode bits are still those read back before the reset.
Configured == ChipWith(WantedConf, temp.mode)

\* Mutant: the burst is one register long.
WriteConfig_FirstOnly ==
  /\ task_pc = "write_config"
  /\ Write(CTRL_MEAS_ADDR, [Configured EXCEPT !.config = chip.config])
  /\ conf' = WantedConf
  /\ IF mode = "sleep"
       THEN task_pc' = "read_back" /\ mode' = "normal"
       ELSE task_pc' = "write_mode" /\ UNCHANGED mode
  /\ UNCHANGED <<try_count, temp, calib_param, raw, data, waited, faults>>

WriteConfig ==
  /\ task_pc = "write_config"
  /\ Write(CTRL_MEAS_ADDR, Configured)
  /\ conf' = WantedConf
  /\ IF mode = "sleep"
       THEN task_pc' = "read_back" /\ mode' = "normal" \* bmp280_set_power_mode
       ELSE task_pc' = "write_mode" /\ UNCHANGED mode
  /\ UNCHANGED <<try_count, temp, calib_param, raw, data, waited, faults>>

ModeWritten == [chip EXCEPT !.meas = "wanted", !.mode = mode]

WriteMode ==
  /\ task_pc = "write_mode"
  /\ Write(CTRL_MEAS_ADDR, ModeWritten)
  /\ task_pc' = "sample"
  /\ UNCHANGED <<task, data, faults>>

\* A read that fails leaves the chip alone; a write that fails may have had
\* its effect before the error, or only that on its first register.
ReadFails ==
  /\ task_pc \in {"calib", "get_config", "read_back"}
  /\ Abort
  /\ UNCHANGED <<chip, data>>

WriteFails ==
  /\ Abort
  /\ \/ task_pc = "soft_reset" /\ (Reset \/ UNCHANGED <<chip, data>>)
     \/ /\ task_pc = "write_config"
        /\ UNCHANGED data
        /\ \E new \in {chip, Configured, [Configured EXCEPT !.config = chip.config]} :
             Write(CTRL_MEAS_ADDR, new)
     \/ /\ task_pc = "write_mode"
        /\ UNCHANGED data
        /\ \E new \in {chip, ModeWritten} : Write(CTRL_MEAS_ADDR, new)

conf_sensor == ReadBack \/ SoftReset \/ WriteConfig \/ WriteMode

bmp_init ==
  \/ InstallDriver \/ ReadChipId \/ RetryChipId \/ ReadCalib \/ GetConfig
  \/ conf_sensor \/ ReadFails \/ WriteFails
-----------------------------------------------------------------------------
(* bmp_fill_values: one burst read of the raw values.  A failed transfer   *)
(* and a value outside the converter's range both return ESP_FAIL.         *)

ReadRaw ==
  /\ task_pc = "sample"
  /\ \/ /\ task_pc' = "store"
        /\ raw' = data
        /\ UNCHANGED <<try_count, mode, temp, dev, waited, faults>>
     \/ Abort
  /\ UNCHANGED <<chip, data>>

\* External: in normal mode the chip replaces its data by a conversion, at any
\* time and at the latest when the first one must be over.
Convert ==
  /\ chip.mode = "normal" /\ data = "reset"
  /\ data' = "converted"
  /\ UNCHANGED <<task_pc, task, chip, faults>>

DataAfter(ms) == IF chip.mode = "normal" /\ ms >= FIRST_CONVERSION_MS
                   THEN "converted" ELSE data

\* Mutant: the task reads again without a delay.
StoreValues_NoDelay ==
  /\ task_pc = "store"
  /\ task_pc' = "sample"
  /\ UNCHANGED <<task, chip, data, faults>>

\* The compensation, the rest of bmp_task's loop (see SharedValues) and its
\* delay.
StoreValues ==
  /\ task_pc = "store"
  /\ task_pc' = "sample"
  /\ data' = DataAfter(DelayMs(BMP_TASK_DELAY))
  /\ UNCHANGED <<task, chip, faults>>

\* Another task aborts, or this one returns because it cannot take the lock:
\* the program starts over between any two steps.
Restart ==
  /\ Abort
  /\ UNCHANGED <<chip, data>>

Next == bmp_init \/ ReadRaw \/ StoreValues \/ Convert \/ Restart

Spec == Init /\ [][Next]_vars

\* bmp_task goes on, and while faults are bounded a transfer succeeds in the
\* end; nothing is assumed of the faults.
FairSpec == Spec /\ WF_vars(Next)
-----------------------------------------------------------------------------
(* Properties for a chip that decodes 7 bits, which the writes do reach.   *)

\* Readings are only taken from a chip that is set up as bmp_init wants it,
\* runs by itself, and whose calibration has been read since the program
\* started, whatever the last run left behind and whatever transfer failed.
SampledAsConfigured ==
  ChipIgnoresBit7 /\ task_pc \in {"sample", "store"} =>
    /\ chip = ChipWith(WantedConf, "normal")
    /\ conf = WantedConf
    /\ calib_param = "read"

\* conf_sensor writes the mode bits from before its reset back; the chip is
\* asleep all the same until bmp280_set_power_mode wakes it, because
\* bmp280_init has reset it before conf_sensor read those bits.
AsleepWhileConfigured ==
  ChipIgnoresBit7 /\ task_pc \in {"calib", "get_config", "read_back",
                                  "write_config", "write_mode"}
    => chip.mode = "sleep"

\* 0x80000, which the boundary check lets pass, is reported at most once after
\* each start: bmp_init returns before the chip has converted anything, but by
\* the second reading it has, whatever resets and aborts came before.
ResetValueOnlyFirst ==
  ChipIgnoresBit7 /\ DelayMs(BMP_TASK_DELAY) >= FIRST_CONVERSION_MS =>
    (task_pc = "sample" /\ raw # "none" => data = "converted")

\* Whatever fails, the sensor is read again and again afterwards.
SamplingGoesOn == []<>(task_pc = "store")
-----------------------------------------------------------------------------
(* What a comment of the code says, and the code does not do.              *)

\* "As per the datasheet, startup time is 2 ms": the transfer after a soft
\* reset is not begun earlier.
StartupTimeIsWaited == task_pc \in {"calib", "write_config"} => waited >= 2
=============================================================================

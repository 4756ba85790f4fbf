--------------------------- MODULE Bmp280Readings ---------------------------
(***************************************************************************)
(* What the BMP280 driver (bmp280.c) makes of the bytes it reads, inside   *)
(* bmp_task's run through Bmp280: the calibration words, the raw values    *)
(* and their boundary check; and what its other calls would answer: status,*)
(* power mode and measuring time.  A call reads one burst, in which the    *)
(* chip (external) sends what it means, or which fails with an error of    *)
(* the I2C driver.  Null pointers, which no caller passes, are left out.   *)
(***************************************************************************)
EXTENDS Bmp280, Integers, Sequences

CONSTANTS
  RawValues,     \* bound: the 20-bit values the converter can yield
  CalibWords     \* bound: the words a calibration parameter can have

ASSUME RawAssumption == \A v \in RawValues : v \in Nat /\ v < 1048576
ASSUME CalibAssumption == \A w \in CalibWords : w \in Nat /\ w < 65536

VARIABLES
  call,          \* the call that bmp_task is in or has come back from
  done,          \* has it come back?
  meant,         \* external: what the chip means by the bytes it sends
  i2c_error,     \* the result of i2c_master_cmd_begin
  rslt,          \* what the call returned
  out            \* what it left in its result parameter

callVars == <<call, done, meant, i2c_error, rslt, out>>

Calls == {"calib", "raw", "status", "mode", "meas_time"}

\* The calibration parameters in the order of their registers, and those of
\* them that have no sign.
Params == <<"t1", "t2", "t3", "p1", "p2", "p3", "p4", "p5", "p6", "p7", "p8", "p9">>
Unsigned == {"t1", "p1"}

ESP_OK    == 0
\* External: ESP_FAIL, ESP_ERR_INVALID_ARG, _INVALID_STATE and _TIMEOUT.
EspErrors == {-1, 258, 259, 263}

OK          == 0     \* BMP280_OK
COMM_FAIL   == -4    \* BMP280_E_COMM_FAIL
TEMP_RANGE  == -10
PRES_RANGE  == -11
BOTH_RANGE  == -12
DATA_CALC   == -13
-----------------------------------------------------------------------------
(* The chip: what it can mean, and the bytes of it.                        *)

\* One parameter has one of the words, the others differ from each other.
Calibs == {[i \in DOMAIN Params |-> IF i = p THEN w ELSE 257 * i + 1] :
             p \in DOMAIN Params, w \in CalibWords}

OsCodes == 0 .. 5    \* BMP280_OS_NONE to BMP280_OS_16X

ResetValues == [press |-> 524288, temp |-> 524288]    \* 0x80000

Meanings(c) ==
  CASE c = "calib"     -> Calibs
    [] c = "raw"       -> IF data = "reset" THEN {ResetValues}
                          ELSE [press : RawValues, temp : RawValues]
    [] c = "status"    -> [measuring : {0, 1}, im_update : {0, 1}]
    [] c = "mode"      -> [mode : {0, 1, 3}, os_temp : OsCodes, os_pres : {0, 5}]
    [] c = "meas_time" -> [os_temp : OsCodes, os_pres : OsCodes]

Bytes20(v) == <<v \div 4096, (v \div 16) % 256, (v % 16) * 16>>

Sent ==
  CASE call = "calib"  -> [k \in 1 .. 24 |-> LET w == meant[(k + 1) \div 2]
                                             IN  IF k % 2 = 1 THEN w % 256 ELSE w \div 256]
    [] call = "raw"    -> Bytes20(meant.press) \o Bytes20(meant.temp)
    [] call = "status" -> <<8 * meant.measuring + meant.im_update>>
    [] call = "mode"   -> <<32 * meant.os_temp + 4 * meant.os_pres + meant.mode>>
-----------------------------------------------------------------------------
(* The driver.                                                             *)

\* x >= -256 cast to uint8_t, and an unsigned number below m = 2^8 or 2^16 to
\* signed.
Byte(x)      == (x + 256) % 256
Signed(m, x) == IF x >= m \div 2 THEN x - m ELSE x

\* read_i2c_registers keeps the error in a uint8_t and returns it as int8_t;
\* bmp280_get_regs makes one code of all but BMP280_OK.
get_regs(err) == IF Signed(256, Byte(err)) = OK THEN OK ELSE COMM_FAIL

\* Mutant: every word is taken for an unsigned one.
CalibParam_NoSign(bytes, i) == bytes[2 * i] * 256 + bytes[2 * i - 1]

CalibParam(bytes, i) ==
  LET word == bytes[2 * i] * 256 + bytes[2 * i - 1]
  IN  IF Params[i] \in Unsigned THEN word ELSE Signed(65536, word)

\* The three bytes from position i on: << 12, << 4 and >> 4.
Raw20(bytes, i) == bytes[i] * 4096 + bytes[i + 1] * 16 + bytes[i + 2] \div 16

OutOfRange(v) == v <= 0 \/ v >= 1048560    \* 0xFFFF0

st_check_boundaries(v) ==
  CASE OutOfRange(v.temp) /\ OutOfRange(v.press)  -> BOTH_RANGE
    [] OutOfRange(v.temp) /\ ~OutOfRange(v.press) -> TEMP_RANGE
    [] ~OutOfRange(v.temp) /\ OutOfRange(v.press) -> PRES_RANGE
    [] OTHER                                      -> OK

\* (1 << code) >> 1
Factor(code) == 2^code \div 2

compute_meas_time(c) ==
  Byte((1000 + 2000 * Factor(c.os_temp) + 2000 * Factor(c.os_pres)
          + (IF c.os_pres # 0 THEN 500 ELSE 0) + 500) \div 1000)

StatusOf(byte) == [measuring |-> (byte \div 8) % 2, im_update |-> byte % 2]
ModeOf(byte)   == byte % 4
-----------------------------------------------------------------------------
NoCall ==
  /\ call' = "none" /\ done' = FALSE
  /\ meant' = <<>> /\ out' = <<>>
  /\ i2c_error' = ESP_OK /\ rslt' = OK

ReadingsInit ==
  /\ Init
  /\ call = "none" /\ done = FALSE
  /\ meant = <<>> /\ out = <<>>
  /\ i2c_error = ESP_OK /\ rslt = OK

\* bmp280_init and bmp_fill_values make the first two calls; a caller could
\* make the others between two samples.
MadeIn(c) == CASE c = "calib" -> "calib"
               [] c = "raw"   -> "sample"
               [] OTHER       -> "store"

\* The chip latches what it sends for the whole burst, so that a conversion
\* that ends meanwhile does not mix in.  What goes wrong counts as a fault.
Call ==
  /\ call = "none"
  /\ call' \in {c \in Calls : MadeIn(c) = task_pc}
  /\ meant' \in Meanings(call')
  /\ i2c_error' \in {ESP_OK} \cup (IF call' = "meas_time" THEN {} ELSE EspErrors)
  /\ faults = MaxFaults =>
       /\ i2c_error' = ESP_OK
       /\ call' = "raw" => \A v \in {meant'.press, meant'.temp} : ~OutOfRange(v)
  /\ UNCHANGED <<vars, done, rslt, out>>

Return(c, result) ==
  /\ call = c /\ ~done
  /\ done' = TRUE
  /\ rslt' = result
  /\ UNCHANGED <<vars, call, meant, i2c_error>>

get_calib_param ==
  /\ Return("calib", get_regs(i2c_error))
  /\ out' = IF rslt' = OK
              THEN [i \in DOMAIN Params |-> CalibParam(Sent, i)] ELSE out

\* A failed read has a code of its own; values out of range are returned with
\* the code of the boundary check.
bmp280_get_uncomp_data ==
  IF get_regs(i2c_error) = OK
    THEN LET values == [press |-> Raw20(Sent, 1), temp |-> Raw20(Sent, 4)]
         IN  Return("raw", st_check_boundaries(values)) /\ out' = values
    ELSE Return("raw", DATA_CALC) /\ UNCHANGED out

\* The byte temp of the next two calls: nothing has set it if the read failed.
ReadByte == IF get_regs(i2c_error) = OK THEN {Sent[1]} ELSE {0, 9, 255}

bmp280_get_status ==
  /\ Return("status", get_regs(i2c_error))
  /\ \E byte \in ReadByte : out' = StatusOf(byte)

bmp280_get_power_mode ==
  /\ Return("mode", get_regs(i2c_error))
  /\ \E byte \in ReadByte : out' = ModeOf(byte)

bmp280_compute_meas_time ==
  /\ Return("meas_time", OK)
  /\ out' = compute_meas_time(meant)

\* bmp_task goes on with what the call returned: a failure aborts.
GoOn ==
  /\ Next
  /\ done \/ call = "none"
  /\ ReadCalib => call = "calib" /\ rslt = OK
  /\ task_pc = "sample" /\ task_pc' = "store" => call = "raw" /\ rslt = OK
  /\ NoCall

ReadingsNext ==
  \/ Call
  \/ get_calib_param \/ bmp280_get_uncomp_data \/ bmp280_get_status
  \/ bmp280_get_power_mode \/ bmp280_compute_meas_time
  \/ GoOn

ReadingsSpec == ReadingsInit /\ [][ReadingsNext]_<<vars, callVars>>
ReadingsFairSpec == ReadingsSpec /\ WF_vars(Next)
-----------------------------------------------------------------------------
\* What is meant, in other words than the code's.
TwosComplement(w) == CHOOSE n \in {w, w - 65536} : -32768 <= n /\ n <= 32767

OversamplingTimes == <<0, 1, 2, 4, 8, 16>>
TypicalTime(c) ==
  1000 + 2000 * (OversamplingTimes[c.os_temp + 1] + OversamplingTimes[c.os_pres + 1])
       + IF c.os_pres = 0 THEN 0 ELSE 500

\* n is the nearest number of milliseconds.
IsRounded(n, c) == 1000 * n - TypicalTime(c) \in -500 .. 500

\* Strictly between the bounds of the converter.
InRange(v) == 0 < v /\ v < 1048560

MeantIsReturned ==
  CASE call = "calib" ->
         \A i \in DOMAIN Params :
           out[i] = IF i \in {1, 4} THEN meant[i] ELSE TwosComplement(meant[i])
    [] call = "raw" -> out = meant /\ InRange(out.press) /\ InRange(out.temp)
    [] call = "status" -> out = meant
    [] call = "mode" -> out = meant.mode
    [] call = "meas_time" -> IsRounded(out, meant)

\* A transfer that fails, with whatever error, is never taken for a success; a
\* call that succeeds has left exactly what the chip meant: signed parameters
\* with their sign and in their places, 20-bit values in range and not
\* exchanged, the bits of the status and of the mode apart from their
\* neighbours, and the measuring time of every setting rounded to a
\* millisecond, in spite of the byte it returns in; and values that arrive are
\* refused only if one of them is out of range.
ReadOutIsTheChips ==
  done =>
    /\ i2c_error # ESP_OK => rslt # OK
    /\ rslt = OK => MeantIsReturned
    /\ i2c_error = ESP_OK /\ call = "raw" =>
         (rslt = OK <=> InRange(meant.press) /\ InRange(meant.temp))
=============================================================================

---------------------------- MODULE Bmp280Proofs ----------------------------
(***************************************************************************)
(* Proofs about Bmp280 and Bmp280Readings, for any number of faults and    *)
(* restarts and every length of a tick: type correctness, and what is true *)
(* of the chip while it is set up and while it is read; and, for all raw   *)
(* values, all calibration words, all settings and all errors, that what   *)
(* the driver returns is what the chip meant, which is mostly arithmetic   *)
(* of bytes.                                                               *)
(***************************************************************************)
EXTENDS Bmp280Readings, SequenceTheorems, TLAPS

\* Where bmp_task stands says what soft_reset and conf_sensor are part of, what
\* the driver knows and, if the writes reach it, what the chip has become.
Progress ==
  /\ task_pc \in {"install", "chip_id", "calib", "get_config"} => mode = "init"
  /\ task_pc \in {"read_back", "write_config"} => mode # "init"
  /\ task_pc = "write_mode" => mode = "normal"
  /\ task_pc \in {"get_config", "read_back", "write_config", "write_mode",
                  "sample", "store"} => calib_param = "read"
  /\ task_pc = "soft_reset" /\ mode # "init" => calib_param = "read"
  /\ task_pc \in {"write_mode", "sample", "store"} => conf = WantedConf
  /\ raw # "none" => task_pc \in {"sample", "store"}

DelayIsLongEnough == DelayMs(BMP_TASK_DELAY) >= FIRST_CONVERSION_MS

ChipProgress ==
  /\ task_pc \in {"calib", "get_config", "write_config"} => chip = ResetChip
  /\ task_pc = "read_back" => chip.mode = "sleep"
  /\ task_pc = "soft_reset" /\ mode # "init" => temp.mode = "sleep"
  /\ task_pc = "write_config" => temp.mode = "sleep"
  /\ task_pc = "write_mode" => chip = ChipWith(WantedConf, "sleep")
  /\ task_pc \in {"sample", "store"} => chip = ChipWith(WantedConf, "normal")
  /\ DelayIsLongEnough /\ task_pc = "sample" /\ raw # "none" =>
       data = "converted"

IInv == TypeOK /\ Progress /\ (ChipIgnoresBit7 => ChipProgress)
-----------------------------------------------------------------------------
\* The chips the driver makes are chips.
LEMMA ChipTypes ==
  /\ ResetConf \in [meas : Settings, config : Settings]
  /\ WantedConf \in [meas : Settings, config : Settings]
  /\ \A m \in Modes : /\ ChipWith(ResetConf, m) \in Chips
                      /\ ChipWith(WantedConf, m) \in Chips
  /\ ResetChip \in Chips /\ ResetChip.mode = "sleep"
  /\ \A c \in Chips : /\ SettingsOf(c) \in [meas : Settings, config : Settings]
                      /\ c.mode \in Modes
BY DEF ResetConf, WantedConf, Settings, ChipWith, Chips, ResetChip, Modes, SettingsOf

\* A write moves a chip that decodes 7 address bits, although the driver has
\* masked the address, and never makes it anything but its old or new self.
LEMMA WriteMoves ==
  ASSUME NEW r \in {SOFT_RESET_ADDR, CTRL_MEAS_ADDR}, NEW new, Write(r, new)
  PROVE  /\ chip' \in {chip, new}
         /\ ChipIgnoresBit7 => chip' = new
BY DEF Write, Reaches, MaskedAddr, intf, SOFT_RESET_ADDR, CTRL_MEAS_ADDR

LEMMA ResetTypes ==
  ASSUME Reset, chip \in Chips, data \in Data
  PROVE  /\ chip' \in Chips /\ (ChipIgnoresBit7 => chip' = ResetChip)
         /\ data' \in Data
<1>1. chip' \in {chip, ResetChip} /\ (ChipIgnoresBit7 => chip' = ResetChip)
  BY WriteMoves DEF Reset
<1>2. data' \in {"reset", data}
  BY DEF Reset
<1>. QED
  BY <1>1, <1>2, ChipTypes DEF Data

\* delay_ms never waits a negative time.
LEMMA DelayIsNat == ASSUME NEW ms \in Nat PROVE DelayMs(ms) \in Nat
<1>. DEFINE ticks == ms \div TICK_MS
<1>1. ticks \in Nat
  BY TickAssumption
<1>. HIDE DEF ticks
<1>2. ASSUME ticks # 0 PROVE (ticks - 1) * TICK_MS \in Nat
  <2>1. ticks - 1 \in Nat /\ TICK_MS \in Nat
    BY <1>1, <1>2, TickAssumption
  <2>2. \A a, b \in Nat : a * b \in Nat
    OBVIOUS
  <2>. QED
    BY <2>1, <2>2
<1>3. DelayMs(ms) = IF ticks = 0 THEN 0 ELSE (ticks - 1) * TICK_MS
  BY DEF DelayMs, ticks
<1>. QED
  BY <1>2, <1>3
-----------------------------------------------------------------------------
LEMMA InitInv == Init => IInv
<1>. SUFFICES ASSUME Init PROVE IInv
  OBVIOUS
<1>1. "normal" \in Modes
  BY DEF Modes
<1>2. chip \in Chips /\ data \in Data
  BY <1>1, ChipTypes DEF Init, Data
<1>3. TypeOK
  BY <1>1, <1>2, ChipTypes, FaultAssumption DEF Init, TypeOK, Steps
<1>. QED
  BY <1>3 DEF Init, IInv, Progress, ChipProgress

\* The program starts over: whatever the chip is, nothing is claimed of it.
LEMMA StartInv ==
  ASSUME IInv, StartTask, faults' \in 0 .. MaxFaults, chip' \in Chips,
         data' \in Data
  PROVE  IInv'
<1>1. TypeOK'
  BY ChipTypes DEF StartTask, TypeOK, Steps
<1>. QED
  BY <1>1 DEF StartTask, IInv, Progress, ChipProgress

\* A fault stays within the bound.
LEMMA FaultType ==
  ASSUME faults \in 0 .. MaxFaults, Fault PROVE faults' \in 0 .. MaxFaults
BY FaultAssumption DEF Fault

LEMMA NextInv == IInv /\ [Next]_vars => IInv'
<1>. SUFFICES ASSUME IInv, [Next]_vars PROVE IInv'
  OBVIOUS
<1>1. TypeOK /\ faults \in 0 .. MaxFaults /\ chip \in Chips /\ temp \in Chips
      /\ try_count \in 1 .. 5 /\ data \in Data
  BY DEF IInv, TypeOK
<1>2. ASSUME Abort, chip' \in Chips, data' \in Data PROVE IInv'
  BY <1>1, <1>2, StartInv, FaultType DEF Abort
<1>3. CASE InstallDriver
  BY <1>1, <1>2, <1>3 DEF InstallDriver, IInv, TypeOK, Progress, ChipProgress, Steps, Data, dev, task
<1>4. CASE ReadChipId
  BY <1>4 DEF ReadChipId, IInv, TypeOK, Progress, ChipProgress, Steps, Data, dev, task
<1>5. CASE RetryChipId
  <2>1. CASE Abort
    BY <1>1, <1>2, <1>5, <2>1 DEF RetryChipId
  <2>2. CASE ~Abort
    <3>1. try_count' \in 1 .. 5 /\ faults' \in 0 .. MaxFaults
      BY <1>1, <1>5, <2>2, FaultType DEF RetryChipId
    <3>. QED
      BY <1>5, <2>2, <3>1 DEF RetryChipId, IInv, TypeOK, Progress, ChipProgress, Data, dev, task
  <2>. QED
    BY <2>1, <2>2
<1>6. CASE SoftReset
  <2>1. waited' \in Nat
    BY <1>6, DelayIsNat DEF SoftReset
  <2>2. /\ chip' \in Chips /\ (ChipIgnoresBit7 => chip' = ResetChip)
        /\ data' \in Data
    BY <1>1, <1>6, ResetTypes DEF SoftReset
  <2>3. TypeOK'
    BY <1>6, <2>1, <2>2 DEF SoftReset, IInv, TypeOK, Steps, Data, dev, task
  <2>. QED
    BY <1>6, <2>2, <2>3 DEF SoftReset, IInv, Progress, ChipProgress, Data, dev, task
<1>7. CASE ReadCalib
  BY <1>7, ChipTypes DEF ReadCalib, IInv, TypeOK, Progress, ChipProgress, Steps
<1>8. CASE GetConfig
  BY <1>1, <1>8, ChipTypes
     DEF GetConfig, IInv, TypeOK, Progress, ChipProgress, Steps, Modes
<1>9. CASE ReadBack
  BY <1>9 DEF ReadBack, IInv, TypeOK, Progress, ChipProgress, Steps, Data, dev, task
<1>10. CASE WriteConfig
  <2>1. Configured \in Chips
    BY <1>1, ChipTypes DEF Configured
  <2>2. chip' \in Chips /\ (ChipIgnoresBit7 => chip' = Configured)
    BY <1>1, <1>10, <2>1, WriteMoves DEF WriteConfig
  <2>3. ChipIgnoresBit7 => chip' = ChipWith(WantedConf, "sleep")
    BY <1>10, <2>2 DEF WriteConfig, Configured, IInv, ChipProgress
  <2>4. TypeOK'
    BY <1>10, <2>2, ChipTypes DEF WriteConfig, IInv, TypeOK, Steps, Modes
  <2>5. ChipWith(WantedConf, "sleep").mode = "sleep"
    BY DEF ChipWith
  <2>6. mode \in {"sleep", "normal"}
    BY <1>1, <1>10 DEF WriteConfig, IInv, Progress, TypeOK, Modes
  <2>. QED
    BY <1>10, <2>3, <2>4, <2>5, <2>6 DEF WriteConfig, IInv, Progress, ChipProgress
<1>11. CASE WriteMode
  <2>1. mode = "normal"
    BY <1>11 DEF WriteMode, IInv, Progress
  <2>2. ModeWritten \in Chips
    BY <1>1, <2>1 DEF ModeWritten, Chips, Settings, Modes
  <2>3. chip' \in Chips /\ (ChipIgnoresBit7 => chip' = ModeWritten)
    BY <1>1, <1>11, <2>2, WriteMoves DEF WriteMode
  <2>4. chip = ChipWith(WantedConf, "sleep") => ModeWritten = ChipWith(WantedConf, "normal")
    <3>. SUFFICES ASSUME chip = ChipWith(WantedConf, "sleep")
                  PROVE  ModeWritten = ChipWith(WantedConf, "normal")
      OBVIOUS
    <3>1. chip = [meas |-> "wanted", config |-> "wanted", mode |-> "sleep"]
      BY DEF ChipWith, WantedConf
    <3>2. [chip EXCEPT !.meas = "wanted"] = chip
      BY <3>1
    <3>3. ModeWritten = [chip EXCEPT !.mode = "normal"]
      BY <2>1, <3>2 DEF ModeWritten
    <3>. QED
      BY <3>1, <3>3 DEF ChipWith, WantedConf
  <2>5. TypeOK'
    BY <1>11, <2>3 DEF WriteMode, IInv, TypeOK, Steps, Data, dev, task
  <2>. QED
    BY <1>11, <2>3, <2>4, <2>5 DEF WriteMode, IInv, Progress, ChipProgress, Data, dev, task
<1>12. CASE ReadFails
  BY <1>1, <1>2, <1>12 DEF ReadFails
<1>13. CASE WriteFails
  <2>1. Configured \in Chips /\ [Configured EXCEPT !.config = chip.config] \in Chips
        /\ ResetChip \in Chips
    BY <1>1, ChipTypes DEF Configured, ChipWith, WantedConf, Chips, Settings
  <2>2. task_pc = "write_mode" => ModeWritten \in Chips
    BY <1>1 DEF ModeWritten, Chips, Settings, Modes, IInv, Progress
  <2>3. chip' \in Chips /\ data' \in Data
    BY <1>1, <1>13, <2>1, <2>2, WriteMoves, ResetTypes DEF WriteFails
  <2>. QED
    BY <1>2, <1>13, <2>3 DEF WriteFails
<1>14. CASE ReadRaw
  BY <1>1, <1>2, <1>14 DEF ReadRaw, IInv, TypeOK, Progress, ChipProgress, Steps, Data, dev, task
<1>15. CASE StoreValues
  <2>1. UNCHANGED <<try_count, mode, temp, calib_param, conf, raw, waited, chip,
                    faults>>
        /\ task_pc = "store" /\ task_pc' = "sample"
        /\ data' = DataAfter(DelayMs(BMP_TASK_DELAY))
    BY <1>15 DEF StoreValues, task, dev
  <2>2. data' \in {"converted", data}
    BY <2>1 DEF DataAfter
  <2>3. TypeOK'
    BY <2>1, <2>2 DEF IInv, TypeOK, Steps, Data
  <2>4. ChipIgnoresBit7 => chip.mode = "normal"
    BY <2>1 DEF IInv, ChipProgress, ChipWith
  <2>5. ChipIgnoresBit7 /\ DelayIsLongEnough => data' = "converted"
    BY <2>1, <2>4 DEF DataAfter, DelayIsLongEnough
  <2>. QED
    BY <2>1, <2>3, <2>5 DEF IInv, Progress, ChipProgress
<1>16. CASE Restart
  BY <1>1, <1>2, <1>16 DEF Restart
<1>17. CASE UNCHANGED vars
  BY <1>17 DEF vars, task, dev, IInv, TypeOK, Progress, ChipProgress
<1>18. CASE Convert
  BY <1>18 DEF Convert, Data, task, dev, IInv, TypeOK, Progress, ChipProgress
<1>. QED
  BY <1>3, <1>4, <1>5, <1>6, <1>7, <1>8, <1>9, <1>10, <1>11, <1>12, <1>13, <1>14,
     <1>15, <1>16, <1>17, <1>18 DEF Next, bmp_init, conf_sensor

LEMMA Invariant == Spec => []IInv
BY InitInv, NextInv, PTL DEF Spec
-----------------------------------------------------------------------------
\* TypeOK: the number of tries, the settings and the waits keep their types.
THEOREM TypeCorrect == Spec => []TypeOK
<1>1. IInv => TypeOK
  BY DEF IInv
<1>. QED
  BY <1>1, Invariant, PTL

\* SampledAsConfigured: however many transfers fail and however often the
\* program restarts, readings come from a chip that is set up and running.
THEOREM SampledRight == Spec => []SampledAsConfigured
<1>1. IInv => SampledAsConfigured
  BY DEF IInv, Progress, ChipProgress, SampledAsConfigured
<1>. QED
  BY <1>1, Invariant, PTL

\* AsleepWhileConfigured: the mode bits conf_sensor writes back are those of a
\* chip asleep, also if the last run of the program left it running.
THEOREM ConfiguredAsleep == Spec => []AsleepWhileConfigured
<1>1. ResetChip.mode = "sleep" /\ ChipWith(WantedConf, "sleep").mode = "sleep"
  BY DEF ResetChip, ChipWith
<1>2. IInv => AsleepWhileConfigured
  BY <1>1 DEF IInv, ChipProgress, AsleepWhileConfigured
<1>. QED
  BY <1>2, Invariant, PTL

\* ResetValueOnlyFirst: if the task's delay is as long as a conversion, no
\* reading but the first after a start is of a chip that has converted nothing.
THEOREM ResetValueFirst == Spec => []ResetValueOnlyFirst
<1>1. IInv => ResetValueOnlyFirst
  BY DEF IInv, ChipProgress, DelayIsLongEnough, ResetValueOnlyFirst
<1>. QED
  BY <1>1, Invariant, PTL
-----------------------------------------------------------------------------
(* The calls of the driver, which Bmp280Readings adds.                     *)

\* Twelve words of 16 bits, two values of 20.
Words(m) ==
  m \in [1 .. 12 -> Nat] /\ \A i \in 1 .. 12 : m[i] < 65536

Values(m) ==
  m \in [press : Nat, temp : Nat] /\ m.press < 1048576 /\ m.temp < 1048576

\* What the chip can mean, whatever its data registers hold.
MeantInv ==
  /\ call = "calib" => Words(meant)
  /\ call = "raw" => Values(meant)
  /\ call = "status" => meant \in [measuring : {0, 1}, im_update : {0, 1}]
  /\ call = "mode" => meant \in [mode : {0, 1, 3}, os_temp : OsCodes, os_pres : {0, 5}]
  /\ call = "meas_time" => meant \in [os_temp : OsCodes, os_pres : OsCodes]

CallInv ==
  /\ call \in Calls \cup {"none"}
  /\ call = "none" => done = FALSE
  /\ i2c_error \in {ESP_OK} \cup EspErrors
  /\ call = "meas_time" => i2c_error = ESP_OK
  /\ MeantInv

ReadingsInv == CallInv /\ ReadOutIsTheChips
-----------------------------------------------------------------------------
(* Bytes and bits.                                                         *)

\* A word is its two bytes.
LEMMA WordOfBytes ==
  ASSUME NEW w \in Nat
  PROVE  ((w \div 256) * 256) + (w % 256) = w
  BY SMT

LEMMA SignedWord ==
  ASSUME NEW w \in Nat, w < 65536
  PROVE  Signed(65536, w) = TwosComplement(w)
<1>. DEFINE s == IF w >= 32768 THEN w - 65536 ELSE w
<1>1. Signed(65536, w) = s
  BY SMT DEF Signed
<1>2. s \in {w, w - 65536} /\ -32768 <= s /\ s <= 32767
  BY SMT
<1>3. \A n \in {w, w - 65536} : -32768 <= n /\ n <= 32767 => n = s
  BY SMT
<1>. HIDE DEF s
<1>4. TwosComplement(w) = s
  BY <1>2, <1>3, SMT DEF TwosComplement
<1>. QED
  BY <1>1, <1>4, SMT

\* The twelve positions and the two without a sign.
LEMMA ParamPositions ==
  /\ DOMAIN Params = 1 .. 12
  /\ \A i \in 1 .. 12 : Params[i] \in Unsigned <=> i \in {1, 4}
<1>1. DOMAIN Params = 1 .. 12
  BY SMT DEF Params
<1>2. ASSUME NEW i \in 1 .. 12 PROVE Params[i] \in Unsigned <=> i \in {1, 4}
  <2>1. i \in {1, 2, 3, 4, 5, 6, 7, 8, 9, 10, 11, 12}
    BY SMT
  <2>. QED
    BY <2>1, SMT DEF Params, Unsigned
<1>. QED
  BY SMT, <1>1, <1>2

\* A 20-bit value is its three bytes.
LEMMA ValueOfBytes ==
  ASSUME NEW v \in Nat
  PROVE  (v \div 4096) * 4096 + (((v \div 16) % 256) * 16)
           + (((v % 16) * 16) \div 16) = v
<1>. DEFINE q == v \div 16
            r == v % 16
<1>1. q \in Nat /\ r \in Nat /\ v = (16 * q) + r
  BY SMT
<1>2. v \div 4096 = q \div 256
  BY SMT
<1>. HIDE DEF q, r
<1>3. ((q \div 256) * 256) + (q % 256) = q /\ q \div 256 \in Nat /\ q % 256 \in Nat
  BY <1>1, SMT
<1>4. (r * 16) \div 16 = r
  BY <1>1, SMT
<1>5. (((q \div 256) * 4096) + ((q % 256) * 16)) + r = v
  BY <1>1, <1>3, SMT
<1>. QED
  BY <1>2, <1>4, <1>5, SMT DEF q, r

\* The six shifts are the oversampling factors.
LEMMA FactorIsOversampling ==
  ASSUME NEW code \in OsCodes
  PROVE  /\ Factor(code) = OversamplingTimes[code + 1]
         /\ Factor(code) \in 0 .. 16
<1>1. CASE code = 0
  <2>1. 2^0 = 1
    OBVIOUS
  <2>. QED
    BY <1>1, <2>1 DEF Factor, OversamplingTimes
<1>2. CASE code = 1
  <2>1. 2^1 = 2
    OBVIOUS
  <2>. QED
    BY <1>2, <2>1 DEF Factor, OversamplingTimes
<1>3. CASE code = 2
  <2>1. 2^2 = 4
    OBVIOUS
  <2>. QED
    BY <1>3, <2>1 DEF Factor, OversamplingTimes
<1>4. CASE code = 3
  <2>1. 2^3 = 8
    OBVIOUS
  <2>. QED
    BY <1>4, <2>1 DEF Factor, OversamplingTimes
<1>5. CASE code = 4
  <2>1. 2^4 = 16
    OBVIOUS
  <2>. QED
    BY <1>5, <2>1 DEF Factor, OversamplingTimes
<1>6. CASE code = 5
  <2>1. 2^5 = 32
    OBVIOUS
  <2>. QED
    BY <1>6, <2>1 DEF Factor, OversamplingTimes
<1>. QED
  BY <1>1, <1>2, <1>3, <1>4, <1>5, <1>6 DEF OsCodes
-----------------------------------------------------------------------------
(* What a burst carries, and its error.                                    *)

LEMMA ErrorIsSeen ==
  ASSUME NEW e \in {ESP_OK} \cup EspErrors
  PROVE  get_regs(e) = IF e = ESP_OK THEN OK ELSE COMM_FAIL
<1>. USE DEF ESP_OK, EspErrors, get_regs, Signed, Byte, OK, COMM_FAIL
<1>1. CASE e = 0
  BY <1>1, SMT
<1>2. CASE e = -1
  <2>1. ((-1) + 256) % 256 = 255
    BY SMT
  <2>. QED
    BY <1>2, <2>1, SMT
<1>3. CASE e \in {258, 259, 263}
  BY <1>3, SMT
<1>. QED
  BY <1>1, <1>2, <1>3, SMT

LEMMA CalibBytes ==
  ASSUME call = "calib", Words(meant), NEW i \in 1 .. 12
  PROVE  CalibParam(Sent, i) =
           IF i \in {1, 4} THEN meant[i] ELSE TwosComplement(meant[i])
<1>1. meant[i] \in Nat /\ meant[i] < 65536
  BY SMT DEF Words
<1>2. Sent = [k \in 1 .. 24 |-> LET w == meant[(k + 1) \div 2]
                                IN  IF k % 2 = 1 THEN w % 256 ELSE w \div 256]
  BY SMT DEF Sent
<1>3. /\ 2 * i \in 1 .. 24 /\ (2 * i + 1) \div 2 = i /\ (2 * i) % 2 # 1
      /\ 2 * i - 1 \in 1 .. 24 /\ (2 * i - 1 + 1) \div 2 = i /\ (2 * i - 1) % 2 = 1
  BY SMT
<1>4. Sent[2 * i] = meant[i] \div 256 /\ Sent[2 * i - 1] = meant[i] % 256
  BY <1>2, <1>3, SMT
<1>5. Sent[2 * i] * 256 + Sent[2 * i - 1] = meant[i]
  BY <1>1, <1>4, WordOfBytes, SMT
<1>. QED
  BY <1>1, <1>5, SignedWord, ParamPositions, SMT DEF CalibParam

\* Three bytes after three.
LEMMA ConcatThrees ==
  ASSUME NEW a \in Seq(Int), NEW b \in Seq(Int), Len(a) = 3, Len(b) = 3
  PROVE  LET s == a \o b
         IN  /\ s[1] = a[1] /\ s[2] = a[2] /\ s[3] = a[3]
             /\ s[4] = b[1] /\ s[5] = b[2] /\ s[6] = b[3]
<1>. DEFINE s == a \o b
<1>1. \A i \in 1 .. Len(a) + Len(b) :
        s[i] = IF i <= Len(a) THEN a[i] ELSE b[i - Len(a)]
  BY ConcatProperties, Zenon
<1>. HIDE DEF s
<1>2. \A i \in 1 .. 6 : s[i] = IF i <= 3 THEN a[i] ELSE b[i - 3]
  BY <1>1, SMT
<1>3. s[1] = a[1] /\ s[2] = a[2] /\ s[3] = a[3]
  BY <1>2, SMT
<1>4. s[4] = b[1] /\ s[5] = b[2] /\ s[6] = b[3]
  <2>1. s[4] = b[4 - 3] /\ s[5] = b[5 - 3] /\ s[6] = b[6 - 3]
    BY <1>2, SMT
  <2>. QED
    BY <2>1, SMT
<1>. QED
  BY <1>3, <1>4 DEF s

LEMMA RawBytes ==
  ASSUME call = "raw", Values(meant)
  PROVE  Raw20(Sent, 1) = meant.press /\ Raw20(Sent, 4) = meant.temp
<1>. DEFINE p == Bytes20(meant.press)
            t == Bytes20(meant.temp)
<1>1. meant.press \in Nat /\ meant.temp \in Nat
  BY SMT DEF Values
<1>2. p \in Seq(Int) /\ t \in Seq(Int) /\ Len(p) = 3 /\ Len(t) = 3
  BY <1>1, SMT DEF Bytes20
<1>3. Sent = p \o t
  BY SMT DEF Sent
<1>4. /\ p[1] = meant.press \div 4096 /\ p[2] = (meant.press \div 16) % 256
      /\ p[3] = (meant.press % 16) * 16
      /\ t[1] = meant.temp \div 4096 /\ t[2] = (meant.temp \div 16) % 256
      /\ t[3] = (meant.temp % 16) * 16
  BY SMT DEF Bytes20
<1>. HIDE DEF p, t
<1>5. /\ Sent[1] = p[1] /\ Sent[2] = p[2] /\ Sent[3] = p[3]
      /\ Sent[4] = t[1] /\ Sent[5] = t[2] /\ Sent[6] = t[3]
  BY <1>2, <1>3, ConcatThrees, Zenon
<1>6. Raw20(Sent, 1) = meant.press
  BY <1>1, <1>4, <1>5, ValueOfBytes, SMT DEF Raw20
<1>7. Raw20(Sent, 4) = meant.temp
  <2>1. Raw20(Sent, 4) = (Sent[4] * 4096) + (Sent[5] * 16) + (Sent[6] \div 16)
    BY SMT DEF Raw20
  <2>. QED
    BY <1>1, <1>4, <1>5, <2>1, ValueOfBytes, SMT
<1>. QED
  BY <1>6, <1>7, SMT

LEMMA StatusByte ==
  ASSUME call = "status", meant \in [measuring : {0, 1}, im_update : {0, 1}]
  PROVE  StatusOf(Sent[1]) = meant
<1>1. Sent[1] = 8 * meant.measuring + meant.im_update
  BY SMT DEF Sent
<1>2. /\ (Sent[1] \div 8) % 2 = meant.measuring
      /\ Sent[1] % 2 = meant.im_update
  BY <1>1, SMT
<1>. QED
  BY <1>2, SMT DEF StatusOf

LEMMA ModeByte ==
  ASSUME call = "mode",
         meant \in [mode : {0, 1, 3}, os_temp : OsCodes, os_pres : {0, 5}]
  PROVE  ModeOf(Sent[1]) = meant.mode
<1>1. Sent[1] = 32 * meant.os_temp + 4 * meant.os_pres + meant.mode
  BY SMT DEF Sent
<1>2. Sent[1] % 4 = meant.mode
  BY <1>1, SMT DEF OsCodes
<1>. QED
  BY <1>2, SMT DEF ModeOf

LEMMA MeasTime ==
  ASSUME NEW c \in [os_temp : OsCodes, os_pres : OsCodes]
  PROVE  IsRounded(compute_meas_time(c), c)
<1>. DEFINE t == Factor(c.os_temp)
            p == Factor(c.os_pres)
            h == IF c.os_pres # 0 THEN 500 ELSE 0
            x == 1000 + 2000 * t + 2000 * p + h
<1>1. t \in 0 .. 16 /\ p \in 0 .. 16 /\ h \in {0, 500}
  BY FactorIsOversampling, SMT
<1>2. TypicalTime(c) = x
  BY FactorIsOversampling, <1>1, SMT DEF TypicalTime
<1>3. compute_meas_time(c) = ((x + 500) \div 1000) % 256
  BY <1>1, SMT DEF compute_meas_time, Byte
<1>. HIDE DEF t, p, h
<1>4. x \in Nat /\ x + 500 < 256000
  BY <1>1, SMT
<1>. HIDE DEF x
<1>5. ((x + 500) \div 1000) % 256 = (x + 500) \div 1000
  BY <1>4, SMT
<1>6. 1000 * ((x + 500) \div 1000) - x \in -500 .. 500
  BY <1>4, SMT
<1>. QED
  BY <1>2, <1>3, <1>5, <1>6, SMT DEF IsRounded
-----------------------------------------------------------------------------
(* The invariant, action by action.                                        *)

LEMMA ReadingsInitially ==
  ReadingsInit => ReadingsInv
BY SMT DEF ReadingsInit, ReadingsInv, CallInv, MeantInv, ReadOutIsTheChips

LEMMA CalibMeaning ==
  ASSUME NEW m \in Meanings("calib")
  PROVE  Words(m)
<1>1. PICK p \in DOMAIN Params, w \in CalibWords :
        m = [i \in DOMAIN Params |-> IF i = p THEN w ELSE 257 * i + 1]
  <2>1. m \in Calibs
    BY Zenon DEF Meanings
  <2>. QED
    BY <2>1, SMT DEF Calibs
<1>2. w \in Nat /\ w < 65536
  BY CalibAssumption, SMT
<1>3. \A i \in 1 .. 12 : 257 * i + 1 \in Nat /\ 257 * i + 1 < 65536
  BY SMT
<1>. QED
  BY <1>1, <1>2, <1>3, ParamPositions, SMT DEF Words

LEMMA RawMeaning ==
  ASSUME NEW m \in Meanings("raw")
  PROVE  Values(m)
<1>1. m \in {ResetValues} \/ m \in [press : RawValues, temp : RawValues]
  BY Zenon DEF Meanings
<1>2. CASE m = ResetValues
  BY <1>2, SMT DEF ResetValues, Values
<1>3. CASE m \in [press : RawValues, temp : RawValues]
  BY <1>3, RawAssumption, SMT DEF Values
<1>. QED
  BY <1>1, <1>2, <1>3, Zenon

LEMMA Call_Inv ==
  ReadingsInv /\ Call => ReadingsInv'
<1>. SUFFICES ASSUME ReadingsInv, Call PROVE ReadingsInv'
  OBVIOUS
<1>1. call = "none" /\ done = FALSE /\ done' = done
  BY Zenon DEF ReadingsInv, CallInv, Call
<1>2. call' \in Calls /\ meant' \in Meanings(call')
  BY Zenon DEF Call
<1>3. /\ i2c_error' \in {ESP_OK} \cup EspErrors
      /\ call' = "meas_time" => i2c_error' = ESP_OK
  BY Zenon DEF Call
<1>4. MeantInv'
  <2>1. call' = "calib" => Words(meant')
    BY <1>2, CalibMeaning, Zenon
  <2>2. call' = "raw" => Values(meant')
    BY <1>2, RawMeaning, Zenon
  <2>3. /\ call' = "status" => meant' \in [measuring : {0, 1}, im_update : {0, 1}]
        /\ call' = "mode" =>
             meant' \in [mode : {0, 1, 3}, os_temp : OsCodes, os_pres : {0, 5}]
        /\ call' = "meas_time" => meant' \in [os_temp : OsCodes, os_pres : OsCodes]
    BY <1>2, Zenon DEF Meanings
  <2>. QED
    BY <2>1, <2>2, <2>3, Zenon DEF MeantInv
<1>5. CallInv'
  BY <1>1, <1>2, <1>3, <1>4, Zenon DEF CallInv, Calls
<1>6. ReadOutIsTheChips'
  BY <1>1, Zenon DEF ReadOutIsTheChips
<1>. QED
  BY <1>5, <1>6 DEF ReadingsInv

\* A call that returns changes nothing that CallInv is about but done.
LEMMA Return_CallInv ==
  ASSUME ReadingsInv, NEW c \in Calls, NEW result, Return(c, result)
  PROVE  CallInv'
<1>1. UNCHANGED <<call, meant, i2c_error>> /\ call # "none"
  BY Zenon DEF Return, Calls
<1>2. MeantInv'
  BY <1>1, Zenon DEF ReadingsInv, CallInv, MeantInv
<1>. QED
  BY <1>1, <1>2, Zenon DEF ReadingsInv, CallInv

LEMMA Calib_Inv ==
  ReadingsInv /\ get_calib_param => ReadingsInv'
<1>. SUFFICES ASSUME ReadingsInv, get_calib_param PROVE ReadingsInv'
  OBVIOUS
<1>1. /\ call = "calib" /\ UNCHANGED <<call, meant, i2c_error>>
      /\ rslt' = get_regs(i2c_error)
      /\ Words(meant) /\ i2c_error \in {ESP_OK} \cup EspErrors
  BY Zenon DEF get_calib_param, Return, ReadingsInv, CallInv, MeantInv
<1>2. CallInv'
  BY Return_CallInv, Zenon DEF get_calib_param, Calls
<1>3. i2c_error # ESP_OK => rslt' # OK
  BY <1>1, ErrorIsSeen, SMT DEF OK, COMM_FAIL
<1>4. ASSUME rslt' = OK PROVE MeantIsReturned'
  <2>1. out' = [i \in DOMAIN Params |-> CalibParam(Sent, i)]
    BY <1>4, Zenon DEF get_calib_param
  <2>2. \A i \in DOMAIN Params :
          out'[i] = IF i \in {1, 4} THEN meant[i] ELSE TwosComplement(meant[i])
    BY <1>1, <2>1, CalibBytes, ParamPositions, Zenon
  <2>. QED
    BY <1>1, <2>2, Zenon DEF MeantIsReturned
<1>5. ReadOutIsTheChips'
  BY <1>1, <1>3, <1>4, SMT DEF ReadOutIsTheChips
<1>. QED
  BY <1>2, <1>5 DEF ReadingsInv

\* The check of the boundaries passes exactly the two values in range.
LEMMA BoundaryCheck ==
  ASSUME NEW v, Values(v)
  PROVE  st_check_boundaries(v) = OK <=> InRange(v.press) /\ InRange(v.temp)
<1>1. /\ OutOfRange(v.temp) <=> ~InRange(v.temp)
      /\ OutOfRange(v.press) <=> ~InRange(v.press)
  BY SMT DEF Values, OutOfRange, InRange
<1>2. BOTH_RANGE # OK /\ TEMP_RANGE # OK /\ PRES_RANGE # OK
  BY SMT DEF BOTH_RANGE, TEMP_RANGE, PRES_RANGE, OK
<1>. QED
  BY <1>1, <1>2, Zenon DEF st_check_boundaries

LEMMA Raw_Inv ==
  ReadingsInv /\ bmp280_get_uncomp_data => ReadingsInv'
<1>. SUFFICES ASSUME ReadingsInv, bmp280_get_uncomp_data PROVE ReadingsInv'
  OBVIOUS
<1>. DEFINE values == [press |-> Raw20(Sent, 1), temp |-> Raw20(Sent, 4)]
            result == IF get_regs(i2c_error) = OK
                        THEN st_check_boundaries(values) ELSE DATA_CALC
<1>1. /\ Return("raw", result)
      /\ get_regs(i2c_error) = OK => out' = values
  BY Zenon DEF bmp280_get_uncomp_data
<1>2. /\ call = "raw" /\ UNCHANGED <<call, meant, i2c_error>> /\ rslt' = result
      /\ Values(meant) /\ i2c_error \in {ESP_OK} \cup EspErrors
  BY <1>1, Zenon DEF Return, ReadingsInv, CallInv, MeantInv
<1>3. CallInv'
  BY <1>1, Return_CallInv, Zenon DEF Calls
<1>4. /\ i2c_error = ESP_OK => get_regs(i2c_error) = OK
      /\ i2c_error # ESP_OK => get_regs(i2c_error) # OK
  BY <1>2, ErrorIsSeen, SMT DEF OK, COMM_FAIL
<1>5. values = meant
  <2>1. Raw20(Sent, 1) = meant.press /\ Raw20(Sent, 4) = meant.temp
    BY <1>2, RawBytes, Zenon
  <2>. QED
    BY <1>2, <2>1, SMT DEF Values
<1>6. DATA_CALC # OK
  BY SMT DEF DATA_CALC, OK
<1>. HIDE DEF values
<1>7. i2c_error # ESP_OK => rslt' # OK
  BY <1>2, <1>4, <1>6, Zenon
<1>8. i2c_error = ESP_OK => (rslt' = OK <=> InRange(meant.press) /\ InRange(meant.temp))
  BY <1>2, <1>4, <1>5, BoundaryCheck, Zenon
<1>9. ASSUME rslt' = OK PROVE MeantIsReturned'
  <2>1. i2c_error = ESP_OK /\ out' = meant
    BY <1>1, <1>4, <1>5, <1>7, <1>9, Zenon
  <2>2. InRange(meant.press) /\ InRange(meant.temp)
    BY <2>1, <1>8, <1>9, Zenon
  <2>. QED
    BY <1>2, <2>1, <2>2, Zenon DEF MeantIsReturned
<1>10. ReadOutIsTheChips'
  BY <1>2, <1>7, <1>8, <1>9, Zenon DEF ReadOutIsTheChips
<1>. QED
  BY <1>3, <1>10 DEF ReadingsInv

LEMMA Status_Inv ==
  ReadingsInv /\ bmp280_get_status => ReadingsInv'
<1>. SUFFICES ASSUME ReadingsInv, bmp280_get_status PROVE ReadingsInv'
  OBVIOUS
<1>1. /\ call = "status" /\ UNCHANGED <<call, meant, i2c_error>>
      /\ rslt' = get_regs(i2c_error)
      /\ meant \in [measuring : {0, 1}, im_update : {0, 1}]
      /\ i2c_error \in {ESP_OK} \cup EspErrors
  BY Zenon DEF bmp280_get_status, Return, ReadingsInv, CallInv, MeantInv
<1>2. CallInv'
  BY Return_CallInv, Zenon DEF bmp280_get_status, Calls
<1>3. i2c_error # ESP_OK => rslt' # OK
  BY <1>1, ErrorIsSeen, SMT DEF OK, COMM_FAIL
<1>4. ASSUME rslt' = OK PROVE MeantIsReturned'
  <2>1. out' = StatusOf(Sent[1])
    BY <1>1, <1>4, Zenon DEF bmp280_get_status, ReadByte
  <2>2. out' = meant
    BY <1>1, <2>1, StatusByte, Zenon
  <2>. QED
    BY <1>1, <2>2, Zenon DEF MeantIsReturned
<1>5. ReadOutIsTheChips'
  BY <1>1, <1>3, <1>4, Zenon DEF ReadOutIsTheChips
<1>. QED
  BY <1>2, <1>5 DEF ReadingsInv

LEMMA Mode_Inv ==
  ReadingsInv /\ bmp280_get_power_mode => ReadingsInv'
<1>. SUFFICES ASSUME ReadingsInv, bmp280_get_power_mode PROVE ReadingsInv'
  OBVIOUS
<1>1. /\ call = "mode" /\ UNCHANGED <<call, meant, i2c_error>>
      /\ rslt' = get_regs(i2c_error)
      /\ meant \in [mode : {0, 1, 3}, os_temp : OsCodes, os_pres : {0, 5}]
      /\ i2c_error \in {ESP_OK} \cup EspErrors
  BY Zenon DEF bmp280_get_power_mode, Return, ReadingsInv, CallInv, MeantInv
<1>2. CallInv'
  BY Return_CallInv, Zenon DEF bmp280_get_power_mode, Calls
<1>3. i2c_error # ESP_OK => rslt' # OK
  BY <1>1, ErrorIsSeen, SMT DEF OK, COMM_FAIL
<1>4. ASSUME rslt' = OK PROVE MeantIsReturned'
  <2>1. out' = ModeOf(Sent[1])
    BY <1>1, <1>4, Zenon DEF bmp280_get_power_mode, ReadByte
  <2>2. out' = meant.mode
    BY <1>1, <2>1, ModeByte, Zenon
  <2>. QED
    BY <1>1, <2>2, Zenon DEF MeantIsReturned
<1>5. ReadOutIsTheChips'
  BY <1>1, <1>3, <1>4, Zenon DEF ReadOutIsTheChips
<1>. QED
  BY <1>2, <1>5 DEF ReadingsInv

LEMMA MeasTime_Inv ==
  ReadingsInv /\ bmp280_compute_meas_time => ReadingsInv'
<1>. SUFFICES ASSUME ReadingsInv, bmp280_compute_meas_time PROVE ReadingsInv'
  OBVIOUS
<1>1. /\ call = "meas_time" /\ UNCHANGED <<call, meant, i2c_error>>
      /\ out' = compute_meas_time(meant)
      /\ meant \in [os_temp : OsCodes, os_pres : OsCodes]
      /\ i2c_error = ESP_OK
  BY Zenon DEF bmp280_compute_meas_time, Return, ReadingsInv, CallInv, MeantInv
<1>2. CallInv'
  BY Return_CallInv, Zenon DEF bmp280_compute_meas_time, Calls
<1>3. IsRounded(out', meant)
  BY <1>1, MeasTime, Zenon
<1>4. MeantIsReturned'
  BY <1>1, <1>3, Zenon DEF MeantIsReturned
<1>5. ReadOutIsTheChips'
  BY <1>1, <1>4, Zenon DEF ReadOutIsTheChips
<1>. QED
  BY <1>2, <1>5 DEF ReadingsInv

\* Between two calls there is nothing to keep.
LEMMA GoOn_Inv ==
  NoCall => ReadingsInv'
BY Zenon DEF NoCall, ReadingsInv, CallInv, MeantInv, ReadOutIsTheChips

LEMMA Stutter_Inv ==
  ReadingsInv /\ UNCHANGED <<vars, callVars>> => ReadingsInv'
<1>. SUFFICES ASSUME ReadingsInv, UNCHANGED callVars PROVE ReadingsInv'
  OBVIOUS
<1>1. UNCHANGED <<call, done, meant, i2c_error, rslt, out>>
  BY Zenon DEF callVars
<1>2. CallInv'
  BY <1>1, Zenon DEF ReadingsInv, CallInv, MeantInv
<1>3. ReadOutIsTheChips'
  BY <1>1, Zenon DEF ReadingsInv, ReadOutIsTheChips, MeantIsReturned
<1>. QED
  BY <1>2, <1>3 DEF ReadingsInv

\* In every run of the driver, for all 20-bit values, all calibration words, all
\* settings and all errors of the bus, what a successful call has left is what
\* the chip meant, and what fails is told from what succeeds.
THEOREM ReadOutExact ==
  ReadingsSpec => []ReadOutIsTheChips
<1>1. ReadingsInv /\ [ReadingsNext]_<<vars, callVars>> => ReadingsInv'
  BY Call_Inv, Calib_Inv, Raw_Inv, Status_Inv, Mode_Inv, MeasTime_Inv, GoOn_Inv,
     Stutter_Inv, Zenon DEF ReadingsNext, GoOn
<1>2. ReadingsInv => ReadOutIsTheChips
  BY DEF ReadingsInv
<1>. QED
  BY ReadingsInitially, <1>1, <1>2, PTL DEF ReadingsSpec

-----------------------------------------------------------------------------
(* Together.                                                               *)

\* Bmp280 is what bmp_task does between its calls: a step of the readings is a
\* step of it or leaves its variables alone.
THEOREM ReadingsImplementBmp280 == ReadingsSpec => Spec
<1>1. ReadingsInit => Init
  BY DEF ReadingsInit
<1>2. [ReadingsNext]_<<vars, callVars>> => [Next]_vars
  <2>1. Call => UNCHANGED vars
    BY Zenon DEF Call
  <2>2. ASSUME NEW c, NEW result PROVE Return(c, result) => UNCHANGED vars
    BY Zenon DEF Return
  <2>3. get_calib_param \/ bmp280_get_status \/ bmp280_get_power_mode
          \/ bmp280_compute_meas_time => UNCHANGED vars
    BY <2>2, Zenon DEF get_calib_param, bmp280_get_status, bmp280_get_power_mode,
                       bmp280_compute_meas_time
  <2>4. bmp280_get_uncomp_data => UNCHANGED vars
    BY <2>2, Zenon DEF bmp280_get_uncomp_data
  <2>5. GoOn => Next
    BY Zenon DEF GoOn
  <2>. QED
    BY <2>1, <2>3, <2>4, <2>5, Zenon DEF ReadingsNext
<1>. QED
  BY <1>1, <1>2, PTL DEF ReadingsSpec, Spec

\* So all that is proved of the set-up holds with the readings in it.
THEOREM ReadingsSafe ==
  ReadingsSpec => [](TypeOK /\ SampledAsConfigured /\ AsleepWhileConfigured
                            /\ ResetValueOnlyFirst)
BY ReadingsImplementBmp280, TypeCorrect, SampledRight, ConfiguredAsleep,
   ResetValueFirst, PTL

\* The chip does not convert anything while it is read.
Latched == call = "raw" /\ data = "reset" => meant = ResetValues

LEMMA LatchedStep == Latched /\ [ReadingsNext]_<<vars, callVars>> => Latched'
<1>. SUFFICES ASSUME Latched, [ReadingsNext]_<<vars, callVars>> PROVE Latched'
  OBVIOUS
<1>1. CASE Call
  <2>1. meant' \in Meanings(call') /\ data' = data
    BY <1>1, Zenon DEF Call, vars
  <2>2. ASSUME call' = "raw", data' = "reset" PROVE meant' = ResetValues
    <3>1. Meanings(call') = {ResetValues}
      BY <2>1, <2>2, Zenon DEF Meanings
    <3>. QED
      BY <2>1, <3>1, Zenon
  <2>. QED
    BY <2>2, Zenon DEF Latched
<1>2. ASSUME NEW c, NEW result, Return(c, result) PROVE Latched'
  BY <1>2, Zenon DEF Return, vars, Latched
<1>3. CASE get_calib_param \/ bmp280_get_status \/ bmp280_get_power_mode
             \/ bmp280_compute_meas_time
  BY <1>2, <1>3, Zenon DEF get_calib_param, bmp280_get_status,
                           bmp280_get_power_mode, bmp280_compute_meas_time
<1>4. CASE bmp280_get_uncomp_data
  BY <1>2, <1>4, Zenon DEF bmp280_get_uncomp_data
<1>5. CASE GoOn
  <2>1. call' = "none"
    BY <1>5, Zenon DEF GoOn, NoCall
  <2>. QED
    BY <2>1, SMT DEF Latched
<1>6. CASE UNCHANGED <<vars, callVars>>
  BY <1>6, Zenon DEF vars, callVars, Latched
<1>. QED
  BY <1>1, <1>3, <1>4, <1>5, <1>6, Zenon DEF ReadingsNext

\* What bmp_task goes on to compensate is what the chip sent in this very
\* reading, within the bounds of the converter; and it is the value of a reset
\* whenever the chip had nothing else.
THEOREM SamplesAreTheChips ==
  ReadingsSpec =>
    [][task_pc = "sample" /\ task_pc' = "store" =>
         /\ out = meant /\ InRange(out.press) /\ InRange(out.temp)
         /\ data = "reset" => out = ResetValues]_<<vars, callVars>>
<1>. DEFINE A == task_pc = "sample" /\ task_pc' = "store" =>
                   /\ out = meant /\ InRange(out.press) /\ InRange(out.temp)
                   /\ data = "reset" => out = ResetValues
<1>1. ReadingsInit => Latched
  BY SMT DEF ReadingsInit, Latched
<1>2. ReadingsSpec => []Latched
  BY <1>1, LatchedStep, PTL DEF ReadingsSpec
<1>3. ReadOutIsTheChips /\ Latched /\ [ReadingsNext]_<<vars, callVars>>
        => [A]_<<vars, callVars>>
  <2>. SUFFICES ASSUME ReadOutIsTheChips, Latched, ReadingsNext,
                       task_pc = "sample", task_pc' = "store"
                PROVE  /\ out = meant /\ InRange(out.press) /\ InRange(out.temp)
                       /\ data = "reset" => out = ResetValues
    BY Zenon
  <2>1. task_pc' # task_pc
    BY SMT
  <2>2. ~ Call
    BY <2>1, Zenon DEF Call, vars
  <2>3. \A c, result : ~ Return(c, result)
    BY <2>1, Zenon DEF Return, vars
  <2>4. GoOn
    BY <2>2, <2>3, Zenon
       DEF ReadingsNext, get_calib_param, bmp280_get_uncomp_data, bmp280_get_status,
           bmp280_get_power_mode, bmp280_compute_meas_time
  <2>5. call = "raw" /\ rslt = OK
    BY <2>4, Zenon DEF GoOn
  <2>6. done
    <3>1. "raw" # "none"
      BY SMT
    <3>. QED
      BY <2>4, <2>5, <3>1, Zenon DEF GoOn
  <2>7. out = meant /\ InRange(out.press) /\ InRange(out.temp)
    <3>1. MeantIsReturned
      BY <2>5, <2>6, Zenon DEF ReadOutIsTheChips
    <3>. QED
      BY <2>5, <3>1, Zenon DEF MeantIsReturned
  <2>. QED
    BY <2>5, <2>7, Zenon DEF Latched
<1>. QED
  BY <1>2, <1>3, ReadOutExact, PTL DEF ReadingsSpec
=============================================================================

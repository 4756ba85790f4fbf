----------------------------- MODULE FrameChecks -----------------------------
(***************************************************************************)
(* What pms_fill_values (pms7003.c) and mhz19_fill_values (mhz19.c) make   *)
(* of the array their read loop has filled: the checksums and the values.  *)
(* The frame is external: the sensor sends one that is right by its own    *)
(* rule, and bytes of it may change on the line.  Indices are those of the *)
(* code, from 0; a byte is 0 .. BYTE-1 and uint16_t is two of them.        *)
(***************************************************************************)
EXTENDS Naturals, FiniteSets

CONSTANTS
  BYTE,        \* 256
  PMS_LEN,     \* 32
  MHZ_LEN,     \* 9
  PMS_VALUES,  \* the index of pm25, which pm100 follows: 12
  MHZ_VALUE,   \* the index of ppm: 2
  MaxErrors    \* bound: bytes changed on the line

ASSUME ByteAssumption == BYTE \in Nat /\ BYTE > 1
ASSUME PmsAssumption  == PMS_LEN \in Nat /\ PMS_VALUES \in 0 .. PMS_LEN - 6
ASSUME MhzAssumption  == MHZ_LEN \in Nat /\ MHZ_VALUE \in 1 .. MHZ_LEN - 3

VARIABLES
  sensor,    \* which of the two functions runs
  sent,      \* the frame as the sensor sent it
  data,      \* the array as it was read
  errors,    \* indices of bytes changed on the line
  values     \* the values reported, or NoValues before that

vars == <<sensor, sent, data, errors, values>>

Bytes     == 0 .. BYTE - 1
Words     == 0 .. BYTE * BYTE - 1
Len(s)    == IF s = "pms7003" THEN PMS_LEN ELSE MHZ_LEN
Frames(s) == [0 .. Len(s) - 1 -> Bytes]
NoValues  == <<>>

TypeOK ==
  /\ sensor \in {"pms7003", "mhz19"}
  /\ sent \in Frames(sensor) /\ data \in Frames(sensor)
  /\ errors \subseteq 0 .. Len(sensor) - 1
  /\ values \in {NoValues} \cup (Words \X Words)
-----------------------------------------------------------------------------
(* The code.                                                               *)

\* Mutant: the first byte is shifted too far.
Word_NoCast(msb, lsb) == msb * BYTE * BYTE + lsb

\* (msb << 8) + lsb as uint16_t
Word(msb, lsb) == (msb * BYTE + lsb) % (BYTE * BYTE)

\* The bytes of buffer from one index to another, added up in `limit' values.
SumBytes(buffer, first, last, limit) ==
  LET sum[i \in first .. last + 1] ==
        IF i = last + 1 THEN 0 ELSE (buffer[i] + sum[i + 1]) % limit
  IN  sum[first]

\* Mutant: the sum is kept in one byte.
pms_checksum_InAByte(buffer, length) == SumBytes(buffer, 0, length - 1, BYTE)

pms_checksum(buffer, length) == SumBytes(buffer, 0, length - 1, BYTE * BYTE)

\* Mutant: the last byte before the checksum is left out.
mhz_checksum_StopsEarly(packet) ==
  (BYTE - 1 - SumBytes(packet, 1, MHZ_LEN - 3, BYTE) + 1) % BYTE

mhz_checksum(packet) ==
  (BYTE - 1 - SumBytes(packet, 1, MHZ_LEN - 2, BYTE) + 1) % BYTE

PmsValues(d) == <<Word(d[PMS_VALUES], d[PMS_VALUES + 1]),
                  Word(d[PMS_VALUES + 2], d[PMS_VALUES + 3])>>
MhzValues(d) == <<Word(d[MHZ_VALUE], d[MHZ_VALUE + 1]), 0>>   \* one value

ReportPms ==
  /\ sensor = "pms7003" /\ values = NoValues
  /\ values' = IF Word(data[PMS_LEN - 2], data[PMS_LEN - 1])
                    = pms_checksum(data, PMS_LEN - 2)
                 THEN PmsValues(data) ELSE <<0, 0>>
  /\ UNCHANGED <<sensor, sent, data, errors>>

ReportMhz ==
  /\ sensor = "mhz19" /\ values = NoValues
  /\ values' = IF mhz_checksum(data) = data[MHZ_LEN - 1]
                 THEN MhzValues(data) ELSE <<0, 0>>
  /\ UNCHANGED <<sensor, sent, data, errors>>
-----------------------------------------------------------------------------
(* The sensors and the line: external.  Their data sheets define a frame   *)
(* without the code's arithmetic: for a PMS7003 the last two bytes are the *)
(* sum of all others, for an MH-Z19 all bytes but the first add up to a    *)
(* multiple of 256.                                                        *)

Total(f, first, last) == SumBytes(f, first, last, BYTE * Len(sensor) + 1)

SensorFrame(f) ==
  IF sensor = "pms7003"
    THEN Total(f, 0, PMS_LEN - 3) = f[PMS_LEN - 2] * BYTE + f[PMS_LEN - 1]
    ELSE Total(f, 1, MHZ_LEN - 1) % BYTE = 0

Init ==
  /\ sensor \in {"pms7003", "mhz19"}
  /\ sent \in {f \in Frames(sensor) : SensorFrame(f)}
  /\ data = sent
  /\ errors = {}
  /\ values = NoValues

ByteChanges(i) ==
  /\ values = NoValues
  /\ i \notin errors
  /\ errors' = errors \cup {i}
  /\ \E b \in Bytes \ {data[i]} : data' = [data EXCEPT ![i] = b]
  /\ UNCHANGED <<sensor, sent, values>>

Next ==
  \/ ReportPms
  \/ ReportMhz
  \/ /\ Cardinality(errors) < MaxErrors
     /\ \E i \in 0 .. Len(sensor) - 1 : ByteChanges(i)

Spec == Init /\ [][Next]_vars
-----------------------------------------------------------------------------
SentValues == IF sensor = "pms7003" THEN PmsValues(sent) ELSE MhzValues(sent)

\* A frame that arrives as it was sent is reported with the values it carries:
\* the code's checksums agree with the sensors'.
IntactFrameReported ==
  values # NoValues /\ errors = {} => values = SentValues

\* One byte changed on the line never makes a wrong value: what is reported
\* is what was sent (a byte that no checksum covers) or zeros.
OneErrorNeverReported ==
  values # NoValues /\ Cardinality(errors) = 1
    => values \in {SentValues, <<0, 0>>}
=============================================================================

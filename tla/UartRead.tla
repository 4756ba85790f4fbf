------------------------------ MODULE UartRead ------------------------------
(***************************************************************************)
(* pms_fill_values (pms7003.c) and mhz19_fill_values (mhz19.c), which have *)
(* one read loop, as it works on a port of its own: the command is sent,   *)
(* and the answer is collected by calls of uart_read_bytes that return     *)
(* what arrives before a silence of 200 ms.  The sensor is external: it    *)
(* answers a command with one frame, may pause within it, and bytes may be *)
(* lost on the way.  A byte is the request it answers and its position; a  *)
(* checksum is taken to hold for a whole frame only (see FrameChecks).     *)
(***************************************************************************)
EXTENDS Integers, Sequences

CONSTANTS
  FRAME_LEN,       \* 32 bytes, or 9
  MAX_FAILS,       \* PMS_MAX_FAILS 100, CO2_MAX_FAILS 20
  MaxRequests,     \* bound: requests made
  MaxLostBytes     \* bound: bytes lost

ASSUME LengthAssumption == FRAME_LEN \in Nat \ {0} /\ FRAME_LEN <= 254
ASSUME FailsAssumption  == MAX_FAILS \in 0 .. 254
ASSUME BoundsAssumption == MaxRequests \in Nat /\ MaxLostBytes \in Nat

VARIABLES
  pc,
  request,       \* commands sent so far; numbers the answers
  wire,          \* bytes the sensor has yet to transmit
  rx,            \* the receive buffer of the serial driver
  data,          \* the local array
  count,         \* uint8_t
  fails_count,
  reported,      \* the request whose answer the values are from, 0 for zeros
  reads,         \* reads from the first that returned bytes to the last
  lost_bytes     \* bytes lost since the command, and in all

vars == <<pc, request, wire, rx, data, count, fails_count, reported, reads,
          lost_bytes>>

Positions == 1 .. FRAME_LEN
Requests  == 1 .. MaxRequests
Bytes     == Requests \X Positions
Junk      == <<0, 0>>            \* a byte of no answer

Frame(r) == [i \in Positions |-> <<r, i>>]

TypeOK ==
  /\ pc \in {"idle", "reading", "check"}
  /\ request \in 0 .. MaxRequests
  /\ wire \in Seq(Bytes) /\ rx \in Seq(Bytes)
  /\ data \in [Positions -> Bytes \cup {Junk}]
  /\ count \in 0 .. 255
  /\ fails_count \in 0 .. MAX_FAILS + 1
  /\ reported \in 0 .. MaxRequests
  /\ reads \in Nat
  /\ lost_bytes.now \in 0 .. lost_bytes.all
  /\ lost_bytes.all \in 0 .. MaxLostBytes

Init ==
  /\ pc = "idle"
  /\ request = 0
  /\ wire = <<>> /\ rx = <<>>
  /\ data = [i \in Positions |-> Junk]
  /\ count = 0
  /\ fails_count = 0
  /\ reported = 0
  /\ reads = 0
  /\ lost_bytes = [now |-> 0, all |-> 0]
-----------------------------------------------------------------------------
\* uart_flush and uart_write_bytes.  `data' is not initialised: it holds what
\* the stack holds, which is the array of the last call unless another call
\* has used the place since.
SendCommand ==
  /\ pc = "idle"
  /\ request < MaxRequests
  /\ request' = request + 1
  /\ rx' = <<>>
  /\ wire' = wire \o Frame(request + 1)
  /\ data' \in {data, [i \in Positions |-> Junk]}
  /\ count' = 0
  /\ fails_count' = 0
  /\ reads' = 0
  /\ lost_bytes' = [lost_bytes EXCEPT !.now = 0]
  /\ pc' = "reading"
  /\ UNCHANGED reported

Want == FRAME_LEN - count      \* sizeof(data) - count

\* Mutant: every read stores at the start of the array.
Stored_AtStart(got) ==
  [i \in Positions |-> IF i \in 1 .. got THEN rx[i] ELSE data[i]]

\* Mutant: a read that returns less than was asked for is dropped.
Stored_WholeOnly(got) ==
  [i \in Positions |->
    IF got = Want /\ i \in count + 1 .. count + got THEN rx[i - count] ELSE data[i]]

\* The array when a read has put the first `got' bytes at data + count.
Stored(got) == [i \in Positions |->
                 IF i \in count + 1 .. count + got THEN rx[i - count] ELSE data[i]]

\* Mutant: the reads that return bytes are counted instead.
FailsAfter_CountBytes(got) == IF got > 0 THEN fails_count + 1 ELSE fails_count

FailsAfter(got) == IF got = 0 THEN fails_count + 1 ELSE fails_count

\* Mutant: the failed reads are compared one too late.
GivesUp_OneLater(fails) == fails > MAX_FAILS + 1

GivesUp(fails) == fails > MAX_FAILS

\* One call of uart_read_bytes(data + count, sizeof(data) - count, 200 ms): it
\* returns early with all that was asked for, or after a silence with less.
\* `count' is then the number of bytes of this call.  A sensor that is still
\* answering breaks its silence before the last attempt is over.
ReadBytes ==
  /\ pc = "reading"
  /\ LET got == IF Len(rx) < Want THEN Len(rx) ELSE Want
         more == wire # <<>> \/ got < Len(rx)
     IN  /\ data' = Stored(got)
         /\ rx' = SubSeq(rx, got + 1, Len(rx))
         /\ count' = got
         /\ fails_count' = FailsAfter(got)
         /\ GivesUp(fails_count') => wire = <<>>
         /\ reads' = IF got > 0 \/ (reads > 0 /\ more) THEN reads + 1 ELSE reads
         /\ pc' = IF got < FRAME_LEN /\ ~GivesUp(fails_count') THEN "reading"
                                                               ELSE "check"
  /\ UNCHANGED <<request, wire, reported, lost_bytes>>

\* The checksum; an array of zeros has a right one, and means zero values.
CheckFrame ==
  /\ pc = "check"
  /\ reported' = IF \E r \in Requests : data = Frame(r) THEN data[1][1] ELSE 0
  /\ pc' = "idle"
  /\ UNCHANGED <<request, wire, rx, data, count, fails_count, reads, lost_bytes>>

fill_values == SendCommand \/ ReadBytes \/ CheckFrame
-----------------------------------------------------------------------------
(* The sensor and the line: external.                                      *)

ByteArrives ==
  /\ wire # <<>>
  /\ rx' = Append(rx, Head(wire))
  /\ wire' = Tail(wire)
  /\ UNCHANGED <<pc, request, data, count, fails_count, reported, reads,
                 lost_bytes>>

ByteIsLost ==
  /\ wire # <<>>
  /\ lost_bytes.all < MaxLostBytes
  /\ lost_bytes' = [now |-> lost_bytes.now + 1, all |-> lost_bytes.all + 1]
  /\ wire' = Tail(wire)
  /\ UNCHANGED <<pc, request, rx, data, count, fails_count, reported, reads>>

Next == fill_values \/ ByteArrives \/ ByteIsLost

Spec == Init /\ [][Next]_vars

\* The task runs, and the sensor goes on with an answer it has begun.
FairSpec == Spec /\ WF_vars(ReadBytes) /\ WF_vars(CheckFrame)
                 /\ WF_vars(ByteArrives \/ ByteIsLost)
-----------------------------------------------------------------------------
\* An answer that arrives complete is taken whole if two reads in a row
\* return all of it: the second piece lands behind the first, and both stay
\* where they are while the loop, having lost count, uses up its attempts.
TwoReadsSuffice ==
  pc = "check" /\ lost_bytes.now = 0 /\ wire = <<>> /\ rx = <<>> /\ reads <= 2
    => data = Frame(request)

\* The array is not initialised, and after the break a silent sensor's last
\* answer, still on the stack, passes for a new one.  That is the only way: as
\* soon as one byte of the new answer has come in, no old answer is whole.
OldAnswerOnlyAfterSilence ==
  pc = "check" =>
    \A r \in Requests \ {request} :
      data = Frame(r) => lost_bytes.now = FRAME_LEN

\* The loop ends for every way an answer can arrive or fail to.
ReadLoopEnds == pc = "reading" ~> pc = "idle"
-----------------------------------------------------------------------------
(* What a log message of the two functions says, and the code does not do. *)

\* "wrong checksum" is said of a frame that has a wrong one: an answer that
\* arrives complete is in `data' when the checksum is computed.
IntactAnswerReported ==
  pc = "check" /\ lost_bytes.now = 0 /\ wire = <<>> /\ rx = <<>>
    => data = Frame(request)
=============================================================================

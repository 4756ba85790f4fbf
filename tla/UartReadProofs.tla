--------------------------- MODULE UartReadProofs ---------------------------
(***************************************************************************)
(* Proofs about UartRead, for frames of any length: what the read loop may *)
(* leave in an array that nobody initialised, although it loses count.     *)
(***************************************************************************)
EXTENDS UartRead, SequenceTheorems, TLAPS

\* The loop asks for at least one byte, and stops with a frame or after one
\* failed read too many.
LoopInv ==
  /\ lost_bytes \in [now : Nat, all : Nat]
  /\ count \in 0 .. FRAME_LEN
  /\ pc = "reading" => count < FRAME_LEN /\ fails_count <= MAX_FAILS

TypeInv == TypeOK /\ LoopInv

\* The bytes on their way are of the current request, and until one of them
\* has been stored all of them are there or lost.
AnswerInv ==
  /\ pc = "idle" => wire = <<>>
  /\ pc = "check" => wire = <<>> /\ rx = <<>>
  /\ pc # "idle" =>
       /\ \A i \in 1 .. Len(rx) : rx[i][1] = request
       /\ \A i \in 1 .. Len(wire) : wire[i][1] = request
       /\ Len(rx) + Len(wire) + lost_bytes.now <= FRAME_LEN
       /\ \/ Len(rx) + Len(wire) + lost_bytes.now = FRAME_LEN
          \/ \E i \in Positions : data[i][1] = request

Consumed == FRAME_LEN - Len(rx) - Len(wire)

\* As long as nothing is lost the bytes come in order; after one read all that
\* came in stands at its place, after two it does if there is no more to come.
OrderInv ==
  pc # "idle" /\ lost_bytes.now = 0 =>
    /\ \A i \in 1 .. Len(rx) : rx[i] = <<request, Consumed + i>>
    /\ \A i \in 1 .. Len(wire) : wire[i] = <<request, Consumed + Len(rx) + i>>
    /\ reads = 0 => Consumed = 0 /\ count = 0
    /\ reads = 1 =>
         /\ count = Consumed \/ Consumed = FRAME_LEN
         /\ \A i \in 1 .. Consumed : data[i] = <<request, i>>
    /\ reads = 2 =>
         Consumed < FRAME_LEN \/ \A i \in Positions : data[i] = <<request, i>>
-----------------------------------------------------------------------------
LEMMA FrameIsSeq ==
  ASSUME NEW r \in Requests
  PROVE  /\ Frame(r) \in Seq(Bytes)
         /\ Len(Frame(r)) = FRAME_LEN
         /\ \A i \in 1 .. FRAME_LEN : Frame(r)[i] = <<r, i>>
<1>. USE LengthAssumption
<1>1. Frame(r) \in [1 .. FRAME_LEN -> Bytes]
  BY DEF Frame, Bytes, Positions
<1>2. Frame(r) \in Seq(Bytes)
  BY <1>1, SeqDef
<1>3. Len(Frame(r)) \in Nat /\ DOMAIN Frame(r) = 1 .. Len(Frame(r))
  BY <1>2, LenProperties
<1>4. DOMAIN Frame(r) = 1 .. FRAME_LEN
  BY DEF Frame, Positions
<1>5. Len(Frame(r)) = FRAME_LEN
  <2>. DEFINE n == Len(Frame(r))
  <2>1. n \in Nat /\ 1 .. n = 1 .. FRAME_LEN
    BY <1>3, <1>4
  <2>. HIDE DEF n
  <2>2. FRAME_LEN \in 1 .. n
    BY <2>1
  <2>3. n \in 1 .. FRAME_LEN
    BY <2>1, <2>2
  <2>4. n = FRAME_LEN
    BY <2>1, <2>2, <2>3
  <2>. QED
    BY <2>4 DEF n
<1>6. \A i \in 1 .. FRAME_LEN : Frame(r)[i] = <<r, i>>
  BY DEF Frame, Positions
<1>. QED
  BY <1>2, <1>5, <1>6

\* What one read returns.
Got == IF Len(rx) < Want THEN Len(rx) ELSE Want

LEMMA GotBounds ==
  ASSUME TypeInv, ReadBytes
  PROVE  /\ Len(rx) \in Nat /\ Len(wire) \in Nat
         /\ Got \in 0 .. FRAME_LEN - count
         /\ Got <= Len(rx)
         /\ Got = 0 => Len(rx) = 0
         /\ Got < Len(rx) => Got = FRAME_LEN - count
<1>1. Len(rx) \in Nat /\ Len(wire) \in Nat
  BY LenProperties DEF TypeInv, TypeOK
<1>2. count \in 0 .. FRAME_LEN - 1
  BY LengthAssumption DEF TypeInv, LoopInv, ReadBytes
<1>. QED
  BY <1>1, <1>2, LengthAssumption DEF Got, Want

\* The rest of the buffer after a read.
LEMMA BufferRest ==
  ASSUME TypeInv, ReadBytes
  PROVE  /\ rx' \in Seq(Bytes)
         /\ Len(rx') = Len(rx) - Got
         /\ \A i \in 1 .. Len(rx') : rx'[i] = rx[Got + i]
<1>. DEFINE n == Len(rx)
<1>1. n \in Nat /\ Got \in Nat /\ Got <= n
  BY GotBounds, LengthAssumption DEF TypeInv, LoopInv
<1>2. \A i \in Got + 1 .. n : rx[i] \in Bytes
  BY <1>1, ElementOfSeq DEF TypeInv, TypeOK
<1>3. rx' = SubSeq(rx, Got + 1, n)
  BY DEF ReadBytes, Got
<1>4. /\ SubSeq(rx, Got + 1, n) \in Seq(Bytes)
      /\ Len(SubSeq(rx, Got + 1, n)) = IF Got + 1 <= n THEN n - (Got + 1) + 1 ELSE 0
      /\ \A i \in 1 .. n - (Got + 1) + 1 :
           SubSeq(rx, Got + 1, n)[i] = rx[Got + 1 + i - 1]
  <2>. HIDE DEF n
  <2>. QED
    BY <1>1, <1>2, SubSeqProperties
<1>. QED
  BY <1>1, <1>3, <1>4

LEMMA ReadStep ==
  ASSUME ReadBytes
  PROVE  /\ pc = "reading"
         /\ data' = Stored(Got)
         /\ count' = Got
         /\ fails_count' = FailsAfter(Got)
         /\ GivesUp(fails_count') => wire = <<>>
         /\ reads' = IF Got > 0 \/ (reads > 0 /\ (wire # <<>> \/ Got < Len(rx)))
                       THEN reads + 1 ELSE reads
         /\ pc' = IF Got < FRAME_LEN /\ ~GivesUp(fails_count') THEN "reading"
                                                               ELSE "check"
         /\ UNCHANGED <<request, wire, reported, lost_bytes>>
  BY DEF ReadBytes, Got

LEMMA LineMoves ==
  ASSUME TypeInv, wire # <<>>
  PROVE  /\ Tail(wire) \in Seq(Bytes)
         /\ Len(wire) \in Nat \ {0}
         /\ Len(Tail(wire)) = Len(wire) - 1
         /\ \A i \in 1 .. Len(Tail(wire)) : Tail(wire)[i] = wire[i + 1]
         /\ Head(wire) = wire[1]
         /\ Append(rx, Head(wire)) \in Seq(Bytes)
         /\ Len(rx) \in Nat
         /\ Len(Append(rx, Head(wire))) = Len(rx) + 1
         /\ \A i \in 1 .. Len(rx) : Append(rx, Head(wire))[i] = rx[i]
         /\ Append(rx, Head(wire))[Len(rx) + 1] = wire[1]
<1>. USE DEF TypeInv, TypeOK
<1>1. Head(wire) \in Bytes /\ Tail(wire) \in Seq(Bytes)
        /\ Len(Tail(wire)) = Len(wire) - 1
        /\ \A i \in 1 .. Len(Tail(wire)) : Tail(wire)[i] = wire[i + 1]
  BY HeadTailProperties
<1>2. Len(wire) \in Nat /\ Len(rx) \in Nat
  BY LenProperties
<1>3. Len(wire) # 0
  BY EmptySeq, <1>2
<1>4. Head(wire) = wire[1]
  OBVIOUS
<1>5. /\ Append(rx, Head(wire)) \in Seq(Bytes)
      /\ Len(Append(rx, Head(wire))) = Len(rx) + 1
      /\ \A i \in 1 .. Len(rx) : Append(rx, Head(wire))[i] = rx[i]
      /\ Append(rx, Head(wire))[Len(rx) + 1] = Head(wire)
  BY <1>1, AppendProperties
<1>. QED
  BY <1>1, <1>2, <1>3, <1>4, <1>5
-----------------------------------------------------------------------------
(* Types.                                                                  *)

LEMMA TypeInitially == Init => TypeInv
  BY LengthAssumption, FailsAssumption, BoundsAssumption, EmptySeq
  DEF Init, TypeInv, TypeOK, LoopInv, Junk

LEMMA SendKeepsTypes == TypeInv /\ SendCommand => TypeInv'
<1>. SUFFICES ASSUME TypeInv, SendCommand PROVE TypeInv'
  OBVIOUS
<1>. USE DEF TypeInv, TypeOK, LoopInv
<1>1. request + 1 \in Requests
  BY BoundsAssumption DEF SendCommand, Requests
<1>2. wire' \in Seq(Bytes)
  BY <1>1, FrameIsSeq, ConcatProperties DEF SendCommand
<1>3. rx' \in Seq(Bytes)
  BY EmptySeq DEF SendCommand
<1>4. data' \in [Positions -> Bytes \cup {Junk}]
  BY DEF SendCommand
<1>5. /\ lost_bytes' \in [now : Nat, all : Nat]
      /\ lost_bytes.now' \in 0 .. lost_bytes.all'
      /\ lost_bytes.all' \in 0 .. MaxLostBytes
  BY DEF SendCommand
<1>6. /\ pc' = "reading" /\ request' \in 0 .. MaxRequests
      /\ count' = 0 /\ fails_count' = 0 /\ reads' = 0 /\ reported' = reported
  BY <1>1 DEF SendCommand, Requests
<1>. QED
  BY <1>2, <1>3, <1>4, <1>5, <1>6, LengthAssumption, FailsAssumption

LEMMA ReadKeepsTypes == TypeInv /\ ReadBytes => TypeInv'
<1>. SUFFICES ASSUME TypeInv, ReadBytes PROVE TypeInv'
  OBVIOUS
<1>1. rx' \in Seq(Bytes)
  BY BufferRest
<1>2. data' \in [Positions -> Bytes \cup {Junk}]
  <2>1. \A i \in Positions : i \in count + 1 .. count + Got => rx[i - count] \in Bytes
    BY GotBounds, ElementOfSeq DEF TypeInv, TypeOK, LoopInv, Positions
  <2>. QED
    BY <2>1, ReadStep DEF Stored, TypeInv, TypeOK
<1>3. count' \in 0 .. FRAME_LEN /\ (pc' = "reading" => count' < FRAME_LEN)
  BY ReadStep, GotBounds, LengthAssumption DEF TypeInv, LoopInv
<1>4. /\ fails_count' \in 0 .. MAX_FAILS + 1
      /\ pc' = "reading" => fails_count' <= MAX_FAILS
  BY ReadStep, FailsAssumption DEF FailsAfter, GivesUp, TypeInv, TypeOK, LoopInv
<1>5. reads' \in Nat /\ pc' \in {"reading", "check"}
  BY ReadStep DEF TypeInv, TypeOK
<1>6. UNCHANGED <<request, wire, reported, lost_bytes>>
  BY ReadStep
<1>7. count' \in 0 .. 255
  BY <1>3, LengthAssumption
<1>8. TypeOK'
  BY <1>1, <1>2, <1>4, <1>5, <1>6, <1>7 DEF TypeInv, TypeOK
<1>9. LoopInv'
  BY <1>3, <1>4, <1>6 DEF TypeInv, LoopInv
<1>. QED
  BY <1>8, <1>9 DEF TypeInv

LEMMA CheckKeepsTypes == TypeInv /\ CheckFrame => TypeInv'
<1>. SUFFICES ASSUME TypeInv, CheckFrame PROVE TypeInv'
  OBVIOUS
<1>1. reported' \in 0 .. MaxRequests
  <2>1. CASE \E r \in Requests : data = Frame(r)
    <3>1. PICK r \in Requests : data = Frame(r)
      BY <2>1
    <3>2. Frame(r)[1] = <<r, 1>>
      BY LengthAssumption, FrameIsSeq
    <3>. QED
      BY <2>1, <3>1, <3>2, BoundsAssumption DEF CheckFrame, Requests
  <2>2. CASE ~ \E r \in Requests : data = Frame(r)
    BY <2>2, BoundsAssumption DEF CheckFrame
  <2>. QED
    BY <2>1, <2>2
<1>. QED
  BY <1>1 DEF CheckFrame, TypeInv, TypeOK, LoopInv

LEMMA LineKeepsTypes == TypeInv /\ (ByteArrives \/ ByteIsLost) => TypeInv'
<1>. SUFFICES ASSUME TypeInv, ByteArrives \/ ByteIsLost PROVE TypeInv'
  OBVIOUS
<1>1. wire # <<>> /\ wire' = Tail(wire)
  BY DEF ByteArrives, ByteIsLost
<1>2. CASE ByteArrives
  BY <1>1, <1>2, LineMoves DEF ByteArrives, TypeInv, TypeOK, LoopInv
<1>3. CASE ByteIsLost
  <2>1. /\ lost_bytes' \in [now : Nat, all : Nat]
        /\ lost_bytes.now' \in 0 .. lost_bytes.all'
        /\ lost_bytes.all' \in 0 .. MaxLostBytes
    BY <1>3, BoundsAssumption DEF ByteIsLost, TypeInv, TypeOK, LoopInv
  <2>. QED
    BY <1>1, <1>3, <2>1, LineMoves DEF ByteIsLost, TypeInv, TypeOK, LoopInv
<1>. QED
  BY <1>2, <1>3

LEMMA TypesKept == TypeInv /\ [Next]_vars => TypeInv'
<1>1. TypeInv /\ UNCHANGED vars => TypeInv'
  BY DEF vars, TypeInv, TypeOK, LoopInv
<1>. QED
  BY <1>1, SendKeepsTypes, ReadKeepsTypes, CheckKeepsTypes, LineKeepsTypes
  DEF Next, fill_values

\* Every variable keeps its type, and the read loop never asks for no byte.
THEOREM TypeInvariant == Spec => []TypeInv
  BY TypeInitially, TypesKept, PTL DEF Spec

\* The types the runs check: a byte is enough for `count' and for the failures.
THEOREM TypeCorrect == Spec => []TypeOK
<1>1. TypeInv => TypeOK
  BY DEF TypeInv
<1>. QED
  BY <1>1, TypeInvariant, PTL
-----------------------------------------------------------------------------
(* The bytes of the current answer.                                        *)

\* A read that returns bytes leaves the first of them behind what was there.
LEMMA StoredBytes ==
  ASSUME TypeInv, ReadBytes
  PROVE  /\ \A i \in 1 .. count : data'[i] = data[i]
         /\ \A i \in count + 1 .. count + Got :
              i \in Positions /\ data'[i] = rx[i - count]
         /\ Got = 0 => data' = data
<1>1. count \in Nat /\ Got \in Nat /\ count + Got <= FRAME_LEN
  BY GotBounds, LengthAssumption DEF TypeInv, LoopInv
<1>2. 1 .. count \subseteq Positions /\ count + 1 .. count + Got \subseteq Positions
  BY <1>1, LengthAssumption DEF Positions
<1>3. data' = Stored(Got)
  BY ReadStep
<1>4. data \in [Positions -> Bytes \cup {Junk}]
  BY DEF TypeInv, TypeOK
<1>5. Got = 0 => count + 1 .. count + Got = {}
  BY <1>1
<1>6. \A i \in 1 .. count : data'[i] = data[i]
  BY <1>1, <1>2, <1>3 DEF Stored
<1>7. \A i \in count + 1 .. count + Got :
        i \in Positions /\ data'[i] = rx[i - count]
  BY <1>1, <1>2, <1>3 DEF Stored
<1>8. Got = 0 => data' = data
  BY <1>3, <1>4, <1>5 DEF Stored
<1>. QED
  BY <1>6, <1>7, <1>8

LEMMA AnswerInitially == Init => AnswerInv
  BY DEF Init, AnswerInv

LEMMA SendKeepsAnswer == TypeInv /\ AnswerInv /\ SendCommand => AnswerInv'
<1>. SUFFICES ASSUME TypeInv, AnswerInv, SendCommand PROVE AnswerInv'
  OBVIOUS
<1>1. request + 1 \in Requests /\ request \in Nat
  BY BoundsAssumption DEF SendCommand, Requests, TypeInv, TypeOK
<1>2. wire = <<>> /\ wire' = wire \o Frame(request + 1) /\ rx' = <<>>
  BY DEF SendCommand, AnswerInv
<1>3. wire' = Frame(request + 1)
  BY <1>1, <1>2, FrameIsSeq, ConcatEmptySeq
<1>4. Len(wire') = FRAME_LEN /\ \A i \in 1 .. Len(wire') : wire'[i][1] = request'
  BY <1>1, <1>3, FrameIsSeq DEF SendCommand
<1>5. Len(rx') = 0
  BY <1>2, EmptySeq
<1>6. pc' = "reading" /\ lost_bytes'.now = 0
  BY DEF SendCommand, TypeInv, LoopInv
<1>. QED
  BY <1>4, <1>5, <1>6, LengthAssumption DEF AnswerInv

LEMMA ReadKeepsAnswer == TypeInv /\ AnswerInv /\ ReadBytes => AnswerInv'
<1>. SUFFICES ASSUME TypeInv, AnswerInv, ReadBytes PROVE AnswerInv'
  OBVIOUS
<1>. DEFINE l == lost_bytes.now
<1>1. /\ l \in Nat /\ lost_bytes' = lost_bytes
      /\ request' = request /\ wire' = wire
      /\ pc = "reading" /\ pc' \in {"reading", "check"}
  BY ReadStep DEF TypeInv, LoopInv
<1>2. /\ \A i \in 1 .. Len(rx) : rx[i][1] = request
      /\ \A i \in 1 .. Len(wire) : wire[i][1] = request
      /\ Len(rx) + Len(wire) + l <= FRAME_LEN
      /\ \/ Len(rx) + Len(wire) + l = FRAME_LEN
         \/ \E i \in Positions : data[i][1] = request
  BY <1>1 DEF AnswerInv
<1>. HIDE DEF l
<1>3. /\ Len(rx) \in Nat /\ Len(wire) \in Nat /\ Got \in Nat /\ Got <= Len(rx)
      /\ Len(rx') = Len(rx) - Got
  BY GotBounds, BufferRest, LengthAssumption DEF TypeInv, LoopInv
<1>4. \A i \in 1 .. Len(rx') : rx'[i][1] = request
  BY <1>2, <1>3, BufferRest
<1>5. Len(rx') + Len(wire) + l <= FRAME_LEN
  BY <1>1, <1>2, <1>3, LengthAssumption
<1>6. \/ Len(rx') + Len(wire) + l = FRAME_LEN
      \/ \E i \in Positions : data'[i][1] = request
  <2>1. CASE Got = 0
    BY <1>1, <1>2, <1>3, <2>1, StoredBytes, LengthAssumption
  <2>2. CASE Got # 0
    <3>1. /\ count \in Nat
          /\ count + 1 \in count + 1 .. count + Got
          /\ (count + 1) - count = 1
          /\ 1 \in 1 .. Len(rx)
      BY <1>3, <2>2 DEF TypeInv, LoopInv
    <3>2. count + 1 \in Positions /\ data'[count + 1] = rx[1]
      BY <3>1, StoredBytes
    <3>. QED
      BY <1>2, <3>1, <3>2
  <2>. QED
    BY <2>1, <2>2
<1>7. pc' = "check" => wire = <<>> /\ rx' = <<>>
  <2>. SUFFICES ASSUME pc' = "check" PROVE wire = <<>> /\ rx' = <<>>
    OBVIOUS
  <2>1. CASE Got < FRAME_LEN
    <3>1. GivesUp(fails_count') /\ wire = <<>>
      BY <2>1, ReadStep
    <3>2. fails_count' # fails_count
      BY <3>1, ReadStep, FailsAssumption DEF GivesUp, TypeInv, LoopInv, TypeOK
    <3>3. Got = 0
      BY <3>2, ReadStep DEF FailsAfter
    <3>4. Len(rx') = 0
      BY <1>3, <3>3, GotBounds
    <3>. QED
      BY <3>1, <3>4, EmptySeq, BufferRest
  <2>2. CASE ~(Got < FRAME_LEN)
    <3>1. Len(rx') = 0 /\ Len(wire) = 0
      BY <1>1, <1>2, <1>3, <2>2, LengthAssumption
    <3>. QED
      BY <3>1, EmptySeq, BufferRest DEF TypeInv, TypeOK
  <2>. QED
    BY <2>1, <2>2
<1>. QED
  BY <1>1, <1>2, <1>4, <1>5, <1>6, <1>7 DEF AnswerInv, l

LEMMA LineKeepsAnswer ==
  TypeInv /\ AnswerInv /\ (ByteArrives \/ ByteIsLost) => AnswerInv'
<1>. SUFFICES ASSUME TypeInv, AnswerInv, ByteArrives \/ ByteIsLost PROVE AnswerInv'
  OBVIOUS
<1>1. /\ wire # <<>> /\ wire' = Tail(wire)
      /\ pc' = pc /\ request' = request /\ data' = data
  BY DEF ByteArrives, ByteIsLost
<1>2. pc = "reading"
  BY <1>1 DEF AnswerInv, TypeInv, TypeOK
<1>. DEFINE l == lost_bytes.now
<1>3. /\ \A i \in 1 .. Len(rx) : rx[i][1] = request
      /\ \A i \in 1 .. Len(wire) : wire[i][1] = request
      /\ Len(rx) + Len(wire) + l <= FRAME_LEN
      /\ \/ Len(rx) + Len(wire) + l = FRAME_LEN
         \/ \E i \in Positions : data[i][1] = request
      /\ l \in Nat
  BY <1>2 DEF AnswerInv, TypeInv, LoopInv
<1>4. /\ Len(rx) \in Nat /\ Len(wire) \in Nat \ {0}
      /\ Len(wire') = Len(wire) - 1
      /\ \A i \in 1 .. Len(wire') : wire'[i] = wire[i + 1]
  BY <1>1, LineMoves
<1>5. ASSUME NEW i \in 1 .. Len(wire') PROVE wire'[i][1] = request
  <2>1. i + 1 \in 1 .. Len(wire)
    BY <1>4
  <2>. QED
    BY <1>3, <1>4, <2>1
<1>6. CASE ByteArrives
  <2>1. /\ Len(rx') = Len(rx) + 1 /\ rx'[Len(rx) + 1] = wire[1]
        /\ \A i \in 1 .. Len(rx) : rx'[i] = rx[i]
        /\ lost_bytes' = lost_bytes
    BY <1>1, <1>6, LineMoves DEF ByteArrives
  <2>2. \A i \in 1 .. Len(rx') : rx'[i][1] = request
    BY <1>3, <1>4, <2>1
  <2>3. Len(rx') + Len(wire') + l = Len(rx) + Len(wire) + l
    BY <1>3, <1>4, <2>1
  <2>. QED
    BY <1>1, <1>2, <1>3, <1>5, <2>1, <2>2, <2>3 DEF AnswerInv
<1>7. CASE ByteIsLost
  <2>1. rx' = rx /\ lost_bytes'.now = l + 1
    BY <1>7 DEF ByteIsLost
  <2>2. Len(rx') + Len(wire') + lost_bytes'.now = Len(rx) + Len(wire) + l
    BY <1>3, <1>4, <2>1
  <2>. QED
    BY <1>1, <1>2, <1>3, <1>5, <2>1, <2>2 DEF AnswerInv
<1>. QED
  BY <1>6, <1>7

LEMMA AnswerKept == TypeInv /\ AnswerInv /\ [Next]_vars => AnswerInv'
<1>1. AnswerInv /\ CheckFrame => AnswerInv'
  BY DEF CheckFrame, AnswerInv
<1>2. AnswerInv /\ UNCHANGED vars => AnswerInv'
  BY DEF vars, AnswerInv
<1>. QED
  BY <1>1, <1>2, SendKeepsAnswer, ReadKeepsAnswer, LineKeepsAnswer
  DEF Next, fill_values

THEOREM AnswerInvariant == Spec => []AnswerInv
  BY AnswerInitially, AnswerKept, TypeInvariant, PTL DEF Spec

\* However an answer arrives, in any pieces and with any losses, an old one can
\* only pass for it if all its bytes were lost.
THEOREM OldAnswerSafe == Spec => []OldAnswerOnlyAfterSilence
<1>1. TypeInv /\ AnswerInv => OldAnswerOnlyAfterSilence
  <2>. SUFFICES ASSUME TypeInv, AnswerInv, pc = "check",
                       NEW r \in Requests \ {request}, data = Frame(r)
                PROVE  lost_bytes.now = FRAME_LEN
    BY DEF OldAnswerOnlyAfterSilence
  <2>1. Len(rx) = 0 /\ Len(wire) = 0 /\ lost_bytes.now \in Nat
    BY EmptySeq DEF AnswerInv, TypeInv, LoopInv
  <2>2. \A i \in Positions : data[i][1] # request
    BY DEF Frame
  <2>. QED
    BY <2>1, <2>2, LengthAssumption DEF AnswerInv
<1>. QED
  BY <1>1, TypeInvariant, AnswerInvariant, PTL
-----------------------------------------------------------------------------
(* The order of the bytes.                                                 *)

LEMMA SendKeepsOrder == TypeInv /\ AnswerInv /\ SendCommand => OrderInv'
<1>. SUFFICES ASSUME TypeInv, AnswerInv, SendCommand PROVE OrderInv'
  OBVIOUS
<1>1. request + 1 \in Requests
  BY BoundsAssumption DEF SendCommand, Requests, TypeInv, TypeOK
<1>2. /\ wire' = <<>> \o Frame(request + 1) /\ rx' = <<>>
      /\ request' = request + 1 /\ reads' = 0 /\ count' = 0
  BY DEF SendCommand, AnswerInv
<1>3. wire' = Frame(request')
  BY <1>1, <1>2, FrameIsSeq, ConcatEmptySeq
<1>4. /\ Len(wire') = FRAME_LEN /\ Len(rx') = 0
      /\ \A i \in 1 .. FRAME_LEN : wire'[i] = <<request', i>>
  BY <1>1, <1>2, <1>3, FrameIsSeq, EmptySeq
<1>5. Consumed' = 0
  BY <1>4, LengthAssumption DEF Consumed
<1>. QED
  BY <1>2, <1>4, <1>5, LengthAssumption DEF OrderInv

LEMMA ReadKeepsOrder == TypeInv /\ AnswerInv /\ OrderInv /\ ReadBytes => OrderInv'
<1>. SUFFICES ASSUME TypeInv, AnswerInv, OrderInv, ReadBytes, lost_bytes.now = 0
              PROVE  OrderInv'
  BY ReadStep DEF OrderInv
<1>. DEFINE n == Len(rx)
            w == Len(wire)
            c == Consumed
<1>1. /\ \A i \in 1 .. n : rx[i] = <<request, c + i>>
      /\ \A i \in 1 .. w : wire[i] = <<request, c + n + i>>
      /\ reads = 0 => c = 0 /\ count = 0
      /\ reads = 1 =>
           /\ count = c \/ c = FRAME_LEN
           /\ \A i \in 1 .. c : data[i] = <<request, i>>
      /\ reads = 2 =>
           c < FRAME_LEN \/ \A i \in Positions : data[i] = <<request, i>>
  BY ReadStep DEF OrderInv
<1>2. /\ n \in Nat /\ w \in Nat /\ c \in 0 .. FRAME_LEN /\ c = FRAME_LEN - n - w
      /\ w = 0 <=> wire = <<>>
  <2>1. n \in Nat /\ w \in Nat /\ n + w <= FRAME_LEN
    BY GotBounds, ReadStep DEF AnswerInv, TypeInv, LoopInv
  <2>2. w = 0 <=> wire = <<>>
    BY EmptySeq DEF TypeInv, TypeOK
  <2>. QED
    BY <2>1, <2>2, LengthAssumption DEF Consumed
<1>3. /\ Got \in Nat /\ Got <= n /\ (Got = 0 => n = 0)
      /\ Len(rx') = n - Got /\ Len(wire') = w
      /\ \A i \in 1 .. Len(rx') : rx'[i] = rx[Got + i]
      /\ wire' = wire /\ request' = request
      /\ count \in Nat /\ reads \in Nat
  BY GotBounds, BufferRest, ReadStep, LengthAssumption DEF TypeInv, LoopInv, TypeOK
<1>4. reads' = IF Got > 0 \/ (reads > 0 /\ (wire # <<>> \/ Got < n))
                 THEN reads + 1 ELSE reads
  BY ReadStep
<1>5. Consumed' = c + Got
  BY <1>2, <1>3, LengthAssumption DEF Consumed
<1>6. count' = Got
  BY ReadStep
<1>7. /\ \A i \in 1 .. count : data'[i] = data[i]
      /\ \A i \in count + 1 .. count + Got : data'[i] = rx[i - count]
      /\ Got = 0 => data' = data
  BY StoredBytes
<1>. HIDE DEF n, w, c
<1>8. \A i \in 1 .. Len(rx') : rx'[i] = <<request, c + Got + i>>
  <2>. SUFFICES ASSUME NEW i \in 1 .. Len(rx')
                PROVE  rx'[i] = <<request, c + Got + i>>
    OBVIOUS
  <2>1. Got + i \in 1 .. n /\ rx'[i] = rx[Got + i] /\ c + (Got + i) = c + Got + i
    BY <1>2, <1>3
  <2>. QED
    BY <1>1, <2>1
<1>9. \A i \in 1 .. w : wire'[i] = <<request, c + Got + Len(rx') + i>>
  <2>. SUFFICES ASSUME NEW i \in 1 .. w
                PROVE  wire'[i] = <<request, c + Got + Len(rx') + i>>
    OBVIOUS
  <2>1. c + Got + Len(rx') + i = c + n + i
    BY <1>2, <1>3
  <2>. QED
    BY <1>1, <1>3, <2>1
<1>10. reads' = 0 => c + Got = 0 /\ Got = 0
  BY <1>1, <1>2, <1>3, <1>4
<1>11. ASSUME reads' = 1
       PROVE  /\ Got = c + Got \/ c + Got = FRAME_LEN
              /\ \A i \in 1 .. c + Got : data'[i] = <<request, i>>
  <2>1. CASE reads = 0
    <3>1. c = 0 /\ count = 0
      BY <1>1, <2>1
    <3>2. ASSUME NEW i \in 1 .. Got PROVE data'[i] = <<request, i>>
      <4>1. i \in Nat /\ 1 <= i /\ i <= Got
        BY <1>3
      <4>2. i \in count + 1 .. count + Got
        BY <1>3, <3>1, <4>1
      <4>3. i - count = i /\ c + i = i
        BY <3>1, <4>1
      <4>4. i \in 1 .. n
        BY <1>2, <1>3, <4>1
      <4>. QED
        BY <1>1, <1>7, <4>2, <4>3, <4>4
    <3>. QED
      BY <1>3, <3>1, <3>2
  <2>2. CASE reads # 0
    <3>1. reads = 1 /\ Got = 0 /\ wire = <<>> /\ n = 0
      BY <1>3, <1>4, <1>11, <2>2
    <3>2. c = FRAME_LEN /\ c + Got = c
      BY <1>2, <3>1, LengthAssumption
    <3>. QED
      BY <1>1, <1>7, <3>1, <3>2
  <2>. QED
    BY <2>1, <2>2
<1>12. ASSUME reads' = 2, ~(c + Got < FRAME_LEN), NEW i \in Positions
       PROVE  data'[i] = <<request, i>>
  <2>1. c + Got = FRAME_LEN /\ i \in 1 .. FRAME_LEN
    BY <1>2, <1>3, <1>12, LengthAssumption DEF Positions
  <2>2. reads = 1 \/ reads = 2
    BY <1>3, <1>4, <1>12
  <2>3. CASE c = FRAME_LEN
    <3>1. Got = 0 /\ wire = <<>> /\ n = 0
      BY <1>2, <1>3, <2>3, LengthAssumption
    <3>2. reads = 2
      BY <1>3, <1>4, <1>12, <3>1
    <3>3. data' = data
      BY <1>7, <3>1
    <3>4. data[i] = <<request, i>>
      BY <1>1, <2>3, <3>2, LengthAssumption
    <3>. QED
      BY <3>3, <3>4
  <2>4. CASE c # FRAME_LEN
    <3>1. Got > 0
      BY <1>2, <1>3, <2>1, <2>4, LengthAssumption
    <3>2. reads = 1 /\ count = c
      BY <1>1, <1>3, <1>4, <1>12, <2>2, <2>4, <3>1
    <3>3. CASE i <= count
      <4>1. i \in 1 .. count /\ i \in 1 .. c
        BY <1>3, <2>1, <3>2, <3>3
      <4>. QED
        BY <1>1, <1>7, <3>2, <4>1
    <3>4. CASE ~(i <= count)
      <4>1. /\ i \in count + 1 .. count + Got
            /\ i - count \in 1 .. n /\ c + (i - count) = i
        BY <1>2, <1>3, <2>1, <3>2, <3>4, LengthAssumption
      <4>. QED
        BY <1>1, <1>7, <4>1
    <3>. QED
      BY <3>3, <3>4
  <2>. QED
    BY <2>3, <2>4
<1>. QED
  BY <1>3, <1>5, <1>6, <1>8, <1>9, <1>10, <1>11, <1>12 DEF OrderInv

LEMMA LineKeepsOrder ==
  TypeInv /\ AnswerInv /\ OrderInv /\ (ByteArrives \/ ByteIsLost) => OrderInv'
<1>. SUFFICES ASSUME TypeInv, AnswerInv, OrderInv, ByteArrives \/ ByteIsLost
              PROVE  OrderInv'
  OBVIOUS
<1>1. CASE ByteArrives
  <2>. SUFFICES ASSUME lost_bytes.now = 0 PROVE OrderInv'
    BY <1>1 DEF ByteArrives, OrderInv
  <2>1. /\ wire # <<>> /\ pc' = pc /\ UNCHANGED <<request, data, count, reads>>
    BY <1>1 DEF ByteArrives
  <2>2. pc # "idle"
    BY <2>1 DEF AnswerInv
  <2>. DEFINE n == Len(rx)
              w == Len(wire)
              c == Consumed
  <2>3. /\ \A i \in 1 .. n : rx[i] = <<request, c + i>>
        /\ \A i \in 1 .. w : wire[i] = <<request, c + n + i>>
    BY <2>2 DEF OrderInv
  <2>4. /\ n \in Nat /\ w \in Nat \ {0} /\ c \in Int
        /\ Len(rx') = n + 1 /\ Len(wire') = w - 1
        /\ rx'[n + 1] = wire[1]
        /\ \A i \in 1 .. n : rx'[i] = rx[i]
        /\ \A i \in 1 .. w - 1 : wire'[i] = wire[i + 1]
    BY <1>1, <2>1, LineMoves, LengthAssumption DEF ByteArrives, Consumed
  <2>5. Consumed' = c
    BY <2>4, LengthAssumption DEF Consumed
  <2>. HIDE DEF n, w, c
  <2>6. ASSUME NEW i \in 1 .. n + 1 PROVE rx'[i] = <<request, c + i>>
    <3>1. CASE i = n + 1
      <4>1. 1 \in 1 .. w /\ c + n + 1 = c + (n + 1)
        BY <2>4
      <4>. QED
        BY <2>3, <2>4, <3>1, <4>1
    <3>2. CASE i # n + 1
      <4>1. i \in 1 .. n
        BY <2>4, <3>2
      <4>. QED
        BY <2>3, <2>4, <4>1
    <3>. QED
      BY <3>1, <3>2
  <2>7. ASSUME NEW i \in 1 .. w - 1 PROVE wire'[i] = <<request, c + (n + 1) + i>>
    <3>1. i + 1 \in 1 .. w /\ c + n + (i + 1) = c + (n + 1) + i
      BY <2>4
    <3>. QED
      BY <2>3, <2>4, <3>1
  <2>8. /\ reads = 0 => c = 0 /\ count = 0
        /\ reads = 1 =>
             /\ count = c \/ c = FRAME_LEN
             /\ \A i \in 1 .. c : data[i] = <<request, i>>
        /\ reads = 2 =>
             c < FRAME_LEN \/ \A i \in Positions : data[i] = <<request, i>>
    BY <2>2 DEF OrderInv, c
  <2>. QED
    BY <2>1, <2>4, <2>5, <2>6, <2>7, <2>8 DEF OrderInv
<1>2. CASE ByteIsLost
  <2>1. lost_bytes'.now = lost_bytes.now + 1 /\ lost_bytes.now \in Nat
    BY <1>2 DEF ByteIsLost, TypeInv, LoopInv
  <2>2. lost_bytes'.now # 0
    BY <2>1
  <2>. QED
    BY <2>2 DEF OrderInv
<1>. QED
  BY <1>1, <1>2

THEOREM OrderInvariant == Spec => []OrderInv
<1>1. Init => OrderInv
  BY DEF Init, OrderInv
<1>2. OrderInv /\ CheckFrame => OrderInv'
  BY DEF CheckFrame, OrderInv
<1>3. OrderInv /\ UNCHANGED vars => OrderInv'
  BY DEF vars, OrderInv, Consumed
<1>4. TypeInv /\ AnswerInv /\ OrderInv /\ [Next]_vars => OrderInv'
  BY <1>2, <1>3, SendKeepsOrder, ReadKeepsOrder, LineKeepsOrder
  DEF Next, fill_values
<1>. QED
  BY <1>1, <1>4, TypeInvariant, AnswerInvariant, PTL DEF Spec

\* An answer of any length that two reads in a row return completely is taken
\* whole, although `count' forgets the first of them.
THEOREM TwoReadsSafe == Spec => []TwoReadsSuffice
<1>1. TypeInv /\ AnswerInv /\ OrderInv => TwoReadsSuffice
  <2>. SUFFICES ASSUME TypeInv, AnswerInv, OrderInv,
                       pc = "check", lost_bytes.now = 0, reads <= 2
                PROVE  data = Frame(request)
    BY DEF TwoReadsSuffice
  <2>1. Consumed = FRAME_LEN
    BY EmptySeq, LengthAssumption DEF AnswerInv, Consumed
  <2>2. reads \in {1, 2}
    BY <2>1, LengthAssumption DEF OrderInv, TypeInv, TypeOK
  <2>3. \A i \in Positions : data[i] = <<request, i>>
    BY <2>1, <2>2, LengthAssumption DEF OrderInv, Positions
  <2>. QED
    BY <2>3 DEF Frame, TypeInv, TypeOK
<1>. QED
  BY <1>1, TypeInvariant, AnswerInvariant, OrderInvariant, PTL
-----------------------------------------------------------------------------
(* How long the loop may go on.                                            *)

\* The calls of uart_read_bytes the loop can still make: each returns a byte
\* of the answer or uses up an attempt.
CallsLeft == Len(wire) + Len(rx) + (MAX_FAILS + 1 - fails_count)

LEMMA SendSetsCalls ==
  ASSUME TypeInv, AnswerInv, SendCommand
  PROVE  CallsLeft' = FRAME_LEN + MAX_FAILS + 1
<1>1. request + 1 \in Requests
  BY BoundsAssumption DEF TypeInv, TypeOK, SendCommand, Requests
<1>2. wire' = <<>> \o Frame(request + 1) /\ rx' = <<>> /\ fails_count' = 0
  BY DEF SendCommand, AnswerInv
<1>3. Frame(request + 1) \in Seq(Bytes) /\ Len(Frame(request + 1)) = FRAME_LEN
  BY <1>1, FrameIsSeq
<1>4. Len(wire') = FRAME_LEN /\ Len(rx') = 0
  BY <1>2, <1>3, EmptySeq, ConcatProperties
<1>. QED
  BY <1>2, <1>4, LengthAssumption, FailsAssumption DEF CallsLeft

LEMMA ReadUsesACall ==
  ASSUME TypeInv, ReadBytes
  PROVE  CallsLeft' < CallsLeft
<1>1. Len(rx) \in Nat /\ Len(wire) \in Nat /\ Got \in Nat /\ fails_count \in Nat
  BY GotBounds, LengthAssumption, FailsAssumption DEF TypeInv, TypeOK, LoopInv
<1>2. Len(rx') = Len(rx) - Got /\ wire' = wire
  BY BufferRest, ReadStep
<1>3. fails_count' = IF Got = 0 THEN fails_count + 1 ELSE fails_count
  BY ReadStep DEF FailsAfter
<1>. QED
  BY <1>1, <1>2, <1>3, FailsAssumption DEF CallsLeft

LEMMA LineAddsNoCall ==
  ASSUME TypeInv, ByteArrives \/ ByteIsLost
  PROVE  CallsLeft' <= CallsLeft
<1>1. wire # <<>>
  BY DEF ByteArrives, ByteIsLost
<1>2. /\ Len(wire) \in Nat /\ Len(rx) \in Nat /\ fails_count \in Nat
      /\ Len(wire') = Len(wire) - 1 /\ fails_count' = fails_count
      /\ Len(rx') \in {Len(rx), Len(rx) + 1}
  BY <1>1, LineMoves DEF ByteArrives, ByteIsLost, TypeInv, TypeOK
<1>. QED
  BY <1>2, FailsAssumption DEF CallsLeft

\* The safety half of ReadLoopEnds: however the answer is cut up, delayed or
\* lost, and although the loop loses count of what it has, it calls
\* uart_read_bytes at most once for each byte and each failure allowed.
THEOREM CallsAreBounded ==
  Spec => [][/\ pc = "reading" => CallsLeft \in Nat \ {0}
             /\ SendCommand => CallsLeft' = FRAME_LEN + MAX_FAILS + 1
             /\ ReadBytes => CallsLeft' < CallsLeft
             /\ ByteArrives \/ ByteIsLost => CallsLeft' <= CallsLeft]_vars
<1>1. TypeInv /\ pc = "reading" => CallsLeft \in Nat \ {0}
  BY LenProperties, FailsAssumption DEF TypeInv, TypeOK, LoopInv, CallsLeft
<1>. QED
  BY <1>1, SendSetsCalls, ReadUsesACall, LineAddsNoCall, TypeInvariant,
     AnswerInvariant, PTL DEF Spec
=============================================================================

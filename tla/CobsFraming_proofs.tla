------------------------- MODULE CobsFraming_proofs -------------------------
(***************************************************************************)
(* Theorems about the serial framing, for bytes, buffers and CRCs of any     *)
(* size.  The decoder stays in step with the sender: while a frame is sent   *)
(* undamaged it holds exactly the bytes sent so far, and its RunLen is what  *)
(* is left of the run that the sender is in.                                 *)
(***************************************************************************)
EXTENDS CobsFraming, SequenceTheorems, TLAPS

\* The receive buffer has room for every message and its CRC.
FramesFit == \A m \in Messages : Len(m) + CrcLen <= Cap

FrameOf(m) == m \o Crc(m)

\* Outside of a frame the sender holds nothing, and inside one its frame.
SenderInv ==
  /\ sp = "idle" => frame = Empty /\ at = 0
  /\ sp # "idle" => \E m \in Messages : frame = FrameOf(m)
  /\ sp = "first" => at = 0

InStep ==
  /\ sp = "idle" => ~inFrame
  /\ sp = "first" => inFrame /\ rxBuf = Empty /\ runLen = 0
  /\ sp = "data" => /\ inFrame /\ runLen > 0 /\ Len(rxBuf) = at
                    /\ \A i \in 1 .. at : rxBuf[i] = frame[i]
                    /\ IsRun(frame, at, runLen - 1)

IInv ==
  /\ TypeOK
  /\ SenderInv
  /\ FramesFit /\ ~hurt => InStep

-----------------------------------------------------------------------------
(* Frames.                                                                  *)

LEMMA CapIsNat == Cap \in Nat /\ Cap <= BufSize
  BY FramingAssumption DEF Cap

LEMMA FrameFacts ==
  ASSUME NEW m \in Messages
  PROVE  /\ m \in Seq(Byte) /\ Len(m) \in Nat \ {0} /\ Crc(m) \in Seq(Byte)
         /\ FrameOf(m) \in Seq(Byte) /\ Len(FrameOf(m)) = Len(m) + CrcLen
         /\ Len(FrameOf(m)) \in Nat /\ Len(FrameOf(m)) < MaxByte
         /\ SubSeq(FrameOf(m), 1, Len(FrameOf(m)) - CrcLen) = m
         /\ SubSeq(FrameOf(m), Len(m) + 1, Len(FrameOf(m))) = Crc(m)
         /\ CrcGood(FrameOf(m))
<1>1. /\ m \in Seq(Byte) /\ m # Empty /\ Crc(m) \in Seq(Byte)
      /\ Len(Crc(m)) = CrcLen /\ CrcLen \in Nat \ {0}
      /\ Len(m) + CrcLen < MaxByte /\ MaxByte \in Nat
  BY FramingAssumption
<1>2. Len(m) \in Nat \ {0}
  BY <1>1, EmptySeq DEF Empty
<1> DEFINE f == FrameOf(m)
<1>3. /\ f \in Seq(Byte) /\ Len(f) = Len(m) + CrcLen
      /\ \A i \in 1 .. Len(f) :
           f[i] = IF i <= Len(m) THEN m[i] ELSE Crc(m)[i - Len(m)]
  BY <1>1, ConcatProperties DEF FrameOf
<1>4. SubSeq(f, 1, Len(m)) = m
  <2>1. SubSeq(f, 1, Len(m)) \in Seq(Byte) /\ Len(SubSeq(f, 1, Len(m))) = Len(m)
    BY <1>1, <1>2, <1>3, SubSeqProperties
  <2>2. \A i \in 1 .. Len(m) : SubSeq(f, 1, Len(m))[i] = m[i]
    BY <1>1, <1>2, <1>3, SubSeqProperties
  <2> QED
    BY <2>1, <2>2, <1>1, SeqEqual
<1>5. SubSeq(f, Len(m) + 1, Len(f)) = Crc(m)
  <2> DEFINE c == SubSeq(f, Len(m) + 1, Len(f))
  <2>1. c \in Seq(Byte) /\ Len(c) = CrcLen
    BY <1>1, <1>2, <1>3, SubSeqProperties
  <2>2. \A i \in 1 .. CrcLen : c[i] = Crc(m)[i]
    BY <1>1, <1>2, <1>3, SubSeqProperties
  <2> QED
    BY <2>1, <2>2, <1>1, SeqEqual
<1>6. Len(f) - CrcLen = Len(m)
  BY <1>1, <1>2, <1>3
<1>7. CrcGood(f)
  <2> HIDE DEF f
  <2>1. SubSeq(f, 1, Len(f) - CrcLen) = m
    BY <1>4, <1>6
  <2>2. Crc(SubSeq(f, 1, Len(f) - CrcLen)) = Crc(m)
    BY <2>1
  <2>3. SubSeq(f, Len(f) - CrcLen + 1, Len(f)) = Crc(m)
    BY <1>5, <1>6
  <2>4. Len(f) - CrcLen >= 0
    BY <1>2, <1>6
  <2> QED
    BY <2>2, <2>3, <2>4 DEF CrcGood
<1> QED
  BY <1>1, <1>2, <1>3, <1>4, <1>5, <1>6, <1>7

\* A run of a frame fits a byte.
LEMMA RunFitsByte ==
  ASSUME SenderInv, TypeOK, sp # "idle", NEW n \in 0 .. Len(frame)
  PROVE  n + 1 \in Byte /\ n + 1 # 0
<1>1. Len(frame) \in Nat /\ Len(frame) < MaxByte
  BY FrameFacts DEF SenderInv
<1> QED
  BY <1>1, FramingAssumption DEF Byte

-----------------------------------------------------------------------------
(* Types.                                                                   *)

ReceiverType ==
  /\ inFrame \in BOOLEAN /\ rxBuf \in Seq(Byte) /\ Len(rxBuf) <= Cap
  /\ runLen \in Byte /\ heard \in Seq(Byte)

LEMMA LeaveType ==
  ASSUME Leave, heard' \in Seq(Byte)
  PROVE  ReceiverType'
<1>1. Empty \in Seq(Byte) /\ Len(Empty) = 0
  BY EmptySeq DEF Empty
<1>2. 0 \in Byte
  BY FramingAssumption DEF Byte
<1>3. Cap' = Cap /\ Cap >= 0
  BY CapIsNat DEF Cap
<1> QED
  BY <1>1, <1>2, <1>3 DEF Leave, ReceiverType

LEMMA ParseType ==
  ASSUME TypeOK, NEW b \in Byte, ParseByte(b)
  PROVE  ReceiverType'
<1>1. /\ Empty \in Seq(Byte) /\ Len(Empty) = 0 /\ 0 \in Byte
      /\ Cap \in Nat /\ Len(rxBuf) \in Nat /\ Cap' = Cap
  BY EmptySeq, FramingAssumption, CapIsNat, LenProperties DEF Empty, Byte, TypeOK, Cap
<1>2. CASE StartOfFrame
  BY <1>1, <1>2 DEF StartOfFrame, ReceiverType
<1>3. CASE GoodEnd
  <2>1. SubSeq(rxBuf, 1, Len(rxBuf) - CrcLen) \in Seq(Byte)
    BY <1>1, SubSeqProperties, FramingAssumption, LenProperties DEF TypeOK
  <2> QED
    BY <1>3, <2>1, LeaveType DEF GoodEnd
<1>4. CASE BadEnd \/ NotInFrame \/ FirstRun(b)
  BY <1>1, <1>4 DEF BadEnd, NotInFrame, FirstRun, ReceiverType, TypeOK
<1>5. CASE Store(b)
  <2> DEFINE e == IF runLen = 1 THEN 0 ELSE b
  <2>1. e \in Byte
    BY <1>1
  <2>2. Append(rxBuf, e) \in Seq(Byte) /\ Len(Append(rxBuf, e)) = Len(rxBuf) + 1
    BY <2>1, AppendProperties DEF TypeOK
  <2>3. runLen' \in Byte
    BY <1>5, FramingAssumption DEF Store, TypeOK, Byte
  <2> QED
    BY <1>1, <1>5, <2>2, <2>3 DEF Store, ReceiverType, TypeOK
<1>6. CASE TooLong
  BY <1>1, <1>6, LeaveType DEF TooLong
<1> QED
  BY <1>2, <1>3, <1>4, <1>5, <1>6 DEF ParseByte

LEMMA LineType ==
  ASSUME TypeOK, NEW b \in Byte, NEW good \in BOOLEAN, Line(b, good)
  PROVE  ReceiverType' /\ hurt' \in BOOLEAN
<1>1. CASE Arrives(b)
  BY <1>1, ParseType DEF Arrives
<1>2. CASE Damaged(b)
  <2>1. CASE \E c \in Byte \ {b} : ParseByte(c)
    BY <1>2, <2>1, ParseType DEF Damaged
  <2>2. CASE heard' = Empty /\ UNCHANGED <<inFrame, rxBuf, runLen>>
    BY <1>2, <2>2, EmptySeq DEF Damaged, TypeOK, ReceiverType, Empty, Cap
  <2> QED
    BY <1>2, <2>1, <2>2 DEF Damaged
<1> QED
  BY <1>1, <1>2 DEF Line

\* What a step does to the sender, and the byte that it puts on the line.
LEMMA SenderStep ==
  ASSUME TypeOK, SenderInv, NEW good \in BOOLEAN,
         SendMsg(good) \/ FrameByte(good) \/ Text(good)
  PROVE  /\ frame' \in Seq(Byte) /\ at' \in 0 .. Len(frame')
         /\ sp' \in {"idle", "first", "data"} /\ SenderInv'
         /\ \E b \in Byte : Line(b, good)
<1>1. Len(frame) \in Nat /\ 0 \in Byte /\ Empty \in Seq(Byte) /\ Len(Empty) = 0
  BY LenProperties, EmptySeq, FramingAssumption DEF TypeOK, Empty, Byte
<1>2. CASE SendMsg(good)
  <2>1. PICK m \in Messages : frame' = FrameOf(m)
    BY <1>2 DEF SendMsg, FrameOf
  <2>2. frame' \in Seq(Byte) /\ Len(frame') \in Nat
    BY <2>1, FrameFacts
  <2> QED
    BY <1>1, <1>2, <2>1, <2>2 DEF SendMsg, SenderInv
<1>3. CASE SendFirstRun(good)
  BY <1>3, RunFitsByte DEF SendFirstRun, SenderInv, TypeOK
<1>4. CASE SendData(good)
  <2>1. frame[at + 1] \in Byte
    BY <1>1, <1>4, LenProperties DEF SendData, TypeOK
  <2> QED
    BY <1>1, <1>4, <2>1 DEF SendData, SenderInv, TypeOK
<1>5. CASE SendRun(good)
  <2>1. at' \in 0 .. Len(frame')
    BY <1>1, <1>5 DEF SendRun, TypeOK
  <2>2. \E b \in Byte : Line(b, good)
    BY <1>5, RunFitsByte DEF SendRun
  <2> QED
    BY <1>5, <2>1, <2>2 DEF SendRun, SenderInv, TypeOK
<1>6. CASE SendEnd(good)
  BY <1>1, <1>6 DEF SendEnd, SenderInv
<1>7. CASE Text(good)
  <2>1. \E b \in Byte : Line(b, good)
    BY <1>7 DEF Text
  <2> QED
    BY <1>7, <2>1 DEF Text, sender, SenderInv, TypeOK
<1> QED
  BY <1>2, <1>3, <1>4, <1>5, <1>6, <1>7 DEF FrameByte

\* Types and the sender's frame, which no damage on the line can change.
LEMMA StepType ==
  ASSUME TypeOK, SenderInv, [Next]_vars
  PROVE  (TypeOK /\ SenderInv)'
<1>1. CASE Next
  <2>1. PICK good \in BOOLEAN : SendMsg(good) \/ FrameByte(good) \/ Text(good)
    BY <1>1 DEF Next
  <2>2. ReceiverType' /\ hurt' \in BOOLEAN
    BY <2>1, SenderStep, LineType
  <2> QED
    BY <2>1, <2>2, SenderStep DEF TypeOK, ReceiverType
<1>2. CASE UNCHANGED vars
  BY <1>2 DEF vars, sender, receiver, TypeOK, SenderInv, Cap
<1> QED
  BY <1>1, <1>2

LEMMA InitType == Init => TypeOK /\ SenderInv
<1> SUFFICES ASSUME Init PROVE TypeOK /\ SenderInv
  OBVIOUS
<1>1. Empty \in Seq(Byte) /\ Len(Empty) = 0 /\ 0 \in Byte
  BY EmptySeq, FramingAssumption DEF Empty, Byte
<1>2. inFrame \in BOOLEAN /\ hurt \in BOOLEAN
  BY DEF Init
<1>3. Len(rxBuf) <= Cap /\ at \in 0 .. Len(frame)
  BY <1>1, CapIsNat DEF Init
<1> QED
  BY <1>1, <1>2, <1>3 DEF Init, TypeOK, SenderInv

\* Every variable keeps its type, and the decoder never writes beyond its
\* buffer, whatever bytes arrive (SerialFrameIO_ParseByte).
THEOREM TypeCorrect == Spec => []TypeOK
<1>1. TypeOK /\ SenderInv /\ [Next]_vars => (TypeOK /\ SenderInv)'
  BY StepType
<1> QED
  BY <1>1, InitType, PTL DEF Spec

-----------------------------------------------------------------------------
(* Sender and decoder in step: what a byte that is not damaged does.         *)

LEMMA SendMsgInStep ==
  ASSUME IInv, FramesFit, ~hurt, SendMsg(TRUE)
  PROVE  InStep' /\ heard' = Empty
<1>1. StartOfFrame /\ sp' = "first"
  BY DEF SendMsg, Line, Arrives, ParseByte, IInv, InStep, GoodEnd, BadEnd
<1> QED
  BY <1>1 DEF StartOfFrame, InStep

LEMMA SendFirstRunInStep ==
  ASSUME IInv, FramesFit, ~hurt, SendFirstRun(TRUE)
  PROVE  InStep' /\ heard' = Empty
<1>1. PICK n \in 0 .. Len(frame) : IsRun(frame, 0, n) /\ ParseByte(n + 1)
  BY DEF SendFirstRun, Line, Arrives
<1>2. n + 1 # 0 /\ n + 1 > 0 /\ (n + 1) - 1 = n
  BY LenProperties DEF IInv, TypeOK
<1>3. inFrame /\ rxBuf = Empty /\ runLen = 0 /\ at = 0
  BY DEF IInv, InStep, SendFirstRun, SenderInv
<1>4. FirstRun(n + 1)
  BY <1>1, <1>2, <1>3 DEF ParseByte, NotInFrame, Store, TooLong
<1>5. runLen' = n + 1 /\ UNCHANGED <<frame, at, inFrame, rxBuf>> /\ sp' = "data"
  BY <1>4 DEF FirstRun, SendFirstRun
<1>6. IsRun(frame, at, runLen - 1)'
  BY <1>1, <1>2, <1>3, <1>5 DEF IsRun
<1>7. Len(rxBuf)' = 0
  BY <1>3, <1>5, EmptySeq DEF Empty
<1> QED
  BY <1>2, <1>3, <1>4, <1>5, <1>6, <1>7 DEF InStep, FirstRun

\* While there is frame left there is room for it in the buffer.
LEMMA RoomLeft ==
  ASSUME IInv, FramesFit, sp = "data", at < Len(frame), ~hurt
  PROVE  /\ inFrame /\ runLen > 0 /\ Len(rxBuf) = at /\ Len(rxBuf) < Cap
         /\ at \in Nat /\ Len(frame) \in Nat /\ runLen \in Nat
         /\ \A i \in 1 .. at : rxBuf[i] = frame[i]
         /\ IsRun(frame, at, runLen - 1)
<1>1. PICK m \in Messages : frame = FrameOf(m)
  BY DEF IInv, SenderInv
<1>2. Len(frame) <= Cap /\ Len(frame) \in Nat
  BY <1>1, FrameFacts DEF FramesFit
<1>3. at \in Nat /\ runLen \in Nat
  BY <1>2, FramingAssumption DEF IInv, TypeOK, Byte
<1> QED
  BY <1>2, <1>3, CapIsNat DEF IInv, InStep

LEMMA ByteStored ==
  ASSUME IInv, FramesFit, sp = "data", at < Len(frame), ~hurt,
         NEW b, b # 0, ParseByte(b)
  PROVE  Store(b)
<1>1. inFrame /\ runLen # 0 /\ ~(Len(rxBuf) >= Cap)
  BY RoomLeft, CapIsNat
<1>2. NotInFrame \/ FirstRun(b) \/ Store(b) \/ TooLong
  BY DEF ParseByte
<1> QED
  BY <1>1, <1>2 DEF NotInFrame, FirstRun, TooLong

\* A byte stored that is the next one of the frame, with the run behind it.
LEMMA StoredInStep ==
  ASSUME IInv, FramesFit, ~hurt, sp = "data", at < Len(frame),
         NEW e \in Byte, e = frame[at + 1], rxBuf' = Append(rxBuf, e),
         UNCHANGED <<frame, sp, inFrame>>, at' = at + 1,
         runLen' > 0, IsRun(frame, at + 1, runLen' - 1)
  PROVE  InStep'
<1>1. Len(rxBuf)' = at + 1 /\ \A i \in 1 .. at + 1 : rxBuf'[i] = frame[i]
  BY RoomLeft, AppendProperties DEF IInv, TypeOK
<1>2. IsRun(frame, at, runLen - 1)'
  BY DEF IsRun
<1> QED
  BY <1>1, <1>2, RoomLeft DEF InStep

LEMMA SendDataInStep ==
  ASSUME IInv, FramesFit, ~hurt, SendData(TRUE)
  PROVE  InStep' /\ heard' = Empty
<1>1. /\ at < Len(frame) /\ at' = at + 1 /\ UNCHANGED <<frame, sp>> /\ sp = "data"
      /\ frame[at + 1] # 0 /\ ParseByte(frame[at + 1])
  BY DEF SendData, Line, Arrives
<1>2. PICK e \in Byte : e = frame[at + 1] /\ e # 0 /\ ParseByte(e)
  BY <1>1, LenProperties DEF IInv, TypeOK
<1>3. Store(e)
  BY <1>1, <1>2, ByteStored
<1>4. runLen > 1
  <2>1. IsRun(frame, at, runLen - 1) /\ runLen \in Nat /\ at \in Nat /\ runLen > 0
    BY <1>1, RoomLeft
  <2>2. runLen - 1 # 0
    BY <1>1, <2>1 DEF IsRun
  <2> QED
    BY <2>1, <2>2
<1>5. rxBuf' = Append(rxBuf, e) /\ runLen' = runLen - 1 /\ inFrame' = inFrame
  BY <1>3, <1>4 DEF Store
<1>6. IsRun(frame, at + 1, runLen' - 1)
  <2>1. /\ IsRun(frame, at, runLen - 1) /\ runLen \in Nat /\ at \in Nat
        /\ Len(frame) \in Nat
    BY <1>1, RoomLeft
  <2> QED
    BY <2>1, <1>4, <1>5 DEF IsRun
<1>7. runLen' > 0
  BY <1>1, <1>4, <1>5, RoomLeft
<1>8. InStep'
  BY <1>1, <1>2, <1>5, <1>6, <1>7, StoredInStep
<1> QED
  BY <1>3, <1>8 DEF Store

LEMMA SendRunInStep ==
  ASSUME IInv, FramesFit, ~hurt, SendRun(TRUE)
  PROVE  InStep' /\ heard' = Empty
<1>1. PICK n \in 0 .. Len(frame) : IsRun(frame, at + 1, n) /\ ParseByte(n + 1)
  BY DEF SendRun, Line, Arrives
<1>2. /\ at < Len(frame) /\ at' = at + 1 /\ UNCHANGED <<frame, sp>> /\ sp = "data"
      /\ frame[at + 1] = 0
  BY DEF SendRun
<1>3. n + 1 # 0 /\ n + 1 > 0 /\ (n + 1) - 1 = n
  BY <1>2, RoomLeft
<1>4. Store(n + 1)
  BY <1>1, <1>2, <1>3, ByteStored
<1>5. runLen = 1
  BY <1>2, RoomLeft DEF IsRun
<1>6. rxBuf' = Append(rxBuf, 0) /\ runLen' = n + 1 /\ inFrame' = inFrame
  BY <1>4, <1>5 DEF Store
<1>7. IsRun(frame, at + 1, runLen' - 1)
  BY <1>1, <1>3, <1>6
<1>8. 0 \in Byte
  BY FramingAssumption DEF Byte
<1> QED
  BY <1>2, <1>3, <1>4, <1>6, <1>7, <1>8, StoredInStep DEF Store

\* At the end of the frame the decoder has all of it.
LEMMA SendEndInStep ==
  ASSUME IInv, FramesFit, ~hurt, SendEnd(TRUE)
  PROVE  InStep' /\ heard' = Sending
<1>1. PICK m \in Messages : frame = FrameOf(m)
  BY DEF IInv, SenderInv, SendEnd
<1>2. frame \in Seq(Byte) /\ Len(frame) \in Nat \ {0} /\ CrcGood(frame)
  BY <1>1, FrameFacts, FramingAssumption
<1>3. rxBuf = frame
  BY <1>2, SeqEqual DEF IInv, TypeOK, InStep, SendEnd
<1>4. rxBuf # Empty /\ inFrame
  BY <1>2, <1>3, EmptySeq DEF Empty, IInv, InStep, SendEnd
<1>5. GoodEnd
  BY <1>2, <1>3, <1>4 DEF SendEnd, Line, Arrives, ParseByte, StartOfFrame, BadEnd
<1> QED
  BY <1>3, <1>5 DEF GoodEnd, Leave, SendEnd, InStep, Sending

LEMMA TextInStep ==
  ASSUME IInv, FramesFit, ~hurt, Text(TRUE)
  PROVE  InStep' /\ heard' = Empty
<1>1. sp = "idle" /\ ~inFrame /\ UNCHANGED sender
  BY DEF Text, IInv, InStep
<1>2. NotInFrame
  BY <1>1 DEF Text, Line, Arrives, ParseByte, FirstRun, Store, TooLong
<1> QED
  BY <1>1, <1>2 DEF NotInFrame, InStep, sender

-----------------------------------------------------------------------------
(* The invariant, and the link.                                             *)

\* A byte that leaves the link unhurt was not damaged, and either it was
\* unhurt before or the ends have got in step again, between frames.
LEMMA Unhurt ==
  ASSUME NEW b, NEW good \in BOOLEAN, Line(b, good), ~hurt', hurt \in BOOLEAN
  PROVE  good = TRUE /\ (hurt => sp' = "idle" /\ ~inFrame')
  BY DEF Line, Arrives, Damaged

\* What the steps of an unhurt link are to the two programs.
LEMMA StepInStep ==
  ASSUME IInv, FramesFit, ~hurt, ~hurt', Next
  PROVE  /\ InStep'
         /\ \/ heard' = Empty /\ SendMsg(TRUE)
            \/ heard' = Empty /\ sp # "idle" /\ UNCHANGED frame
            \/ heard' = Sending /\ SendEnd(TRUE)
            \/ heard' = Empty /\ sp = "idle" /\ UNCHANGED frame
<1>1. PICK good \in BOOLEAN : SendMsg(good) \/ FrameByte(good) \/ Text(good)
  BY DEF Next
<1>2. good = TRUE
  <2>1. PICK b \in Byte : Line(b, good)
    BY <1>1, SenderStep DEF IInv
  <2> QED
    BY <2>1, Unhurt DEF IInv, TypeOK
<1>3. CASE SendMsg(TRUE)
  BY <1>3, SendMsgInStep
<1>4. CASE SendFirstRun(TRUE)
  BY <1>4, SendFirstRunInStep DEF SendFirstRun
<1>5. CASE SendData(TRUE)
  BY <1>5, SendDataInStep DEF SendData
<1>6. CASE SendRun(TRUE)
  BY <1>6, SendRunInStep DEF SendRun
<1>7. CASE SendEnd(TRUE)
  BY <1>7, SendEndInStep
<1>8. CASE Text(TRUE)
  BY <1>8, TextInStep DEF Text, sender, IInv, InStep
<1> QED
  BY <1>1, <1>2, <1>3, <1>4, <1>5, <1>6, <1>7, <1>8 DEF FrameByte

\* The link gets unhurt between frames only.
LEMMA MendedInStep ==
  ASSUME TypeOK, SenderInv, hurt, ~hurt', Next
  PROVE  InStep' /\ sp' = "idle"
<1>1. PICK good \in BOOLEAN : SendMsg(good) \/ FrameByte(good) \/ Text(good)
  BY DEF Next
<1>2. PICK b \in Byte : Line(b, good)
  BY <1>1, SenderStep
<1> QED
  BY <1>2, Unhurt DEF TypeOK, InStep

LEMMA Inductive == Spec => []IInv
<1>1. Init => IInv
  BY InitType DEF Init, IInv, InStep
<1>2. IInv /\ [Next]_vars => IInv'
  <2> SUFFICES ASSUME IInv, [Next]_vars PROVE IInv'
    OBVIOUS
  <2>1. (TypeOK /\ SenderInv)'
    BY StepType DEF IInv
  <2>2. ASSUME FramesFit, ~hurt' PROVE InStep'
    <3>1. CASE Next /\ ~hurt
      BY <2>2, <3>1, StepInStep
    <3>2. CASE Next /\ hurt
      BY <2>2, <3>2, MendedInStep DEF IInv
    <3>3. CASE UNCHANGED vars
      BY <2>2, <3>3 DEF vars, sender, receiver, IInv, InStep, IsRun
    <3> QED
      BY <3>1, <3>2, <3>3
  <2>3. FramesFit' = FramesFit
    BY DEF FramesFit, Cap
  <2> QED
    BY <2>1, <2>2, <2>3 DEF IInv
<1> QED
  BY <1>1, <1>2, PTL DEF Spec

LEMMA SendingIs ==
  ASSUME SenderInv
  PROVE  /\ sp = "idle" => Sending = Empty
         /\ sp # "idle" => Sending \in Messages /\ Sending # Empty
<1>1. CASE sp = "idle"
  <2>1. Len(frame) - CrcLen \in Int /\ Len(frame) - CrcLen < 1 /\ frame = Empty
    BY <1>1, EmptySeq, FramingAssumption DEF SenderInv, Empty
  <2> QED
    BY <1>1, <2>1, SubSeqEmpty DEF Sending, Empty
<1>2. CASE sp # "idle"
  <2>1. PICK m \in Messages : frame = FrameOf(m)
    BY <1>2 DEF SenderInv
  <2>2. Sending = m
    BY <2>1, FrameFacts DEF Sending
  <2> QED
    BY <1>2, <2>2, FramingAssumption
<1> QED
  BY <1>1, <1>2

\* The same of the state that a step leads to.
LEMMA SendingPrimed ==
  ASSUME SenderInv'
  PROVE  /\ sp' = "idle" => Sending' = Empty
         /\ sp' # "idle" => Sending' \in Messages
<1>1. CASE sp' = "idle"
  <2>1. Len(frame') - CrcLen \in Int /\ Len(frame') - CrcLen < 1 /\ frame' = Empty
    BY <1>1, EmptySeq, FramingAssumption DEF SenderInv, Empty
  <2> QED
    BY <1>1, <2>1, SubSeqEmpty DEF Sending, Empty
<1>2. CASE sp' # "idle"
  <2>1. PICK m \in Messages : frame' = FrameOf(m)
    BY <1>2 DEF SenderInv
  <2> QED
    BY <1>2, <2>1, FrameFacts DEF Sending
<1> QED
  BY <1>1, <1>2

\* A message that is begun is the one that is sent.
LEMMA Begun ==
  ASSUME IInv, SendMsg(TRUE)
  PROVE  Sending = Empty /\ Sending' \in Messages
<1>1. sp = "idle" /\ sp' # "idle" /\ SenderInv'
  BY SenderStep DEF SendMsg, IInv
<1>2. Sending' \in Messages
  BY <1>1, SendingPrimed
<1> QED
  BY <1>1, <1>2, SendingIs DEF IInv

\* If the buffer of the receiver fits every message and its CRC, the framing
\* is a link that delivers what is sent (SendMsg and ParseByte together).
THEOREM FramingIsALink == FramesFit => (Spec => ImplementsLink)
<1> SUFFICES ASSUME FramesFit PROVE Spec => ImplementsLink
  OBVIOUS
<1>1. Init => Link!Init
  <2> SUFFICES ASSUME Init PROVE Link!Init
    OBVIOUS
  <2>1. Sending = Empty
    BY InitType, SendingIs DEF Init
  <2> QED
    BY <2>1 DEF Init, Link!Init
<1>2. IInv /\ IInv' /\ [Next]_vars => [Link!Next]_(Link!linkVars)
  <2> SUFFICES ASSUME IInv, IInv', [Next]_vars
               PROVE  [Link!Next]_(Link!linkVars)
    OBVIOUS
  <2>1. heard' \in Seq(Byte) /\ hurt' \in BOOLEAN /\ hurt \in BOOLEAN /\ SenderInv'
    BY DEF IInv, TypeOK
  <2>2. CASE UNCHANGED vars
    BY <2>2 DEF vars, sender, receiver, Sending, Link!linkVars
  <2>3. CASE Next /\ hurt'
    <3>1. Sending' \in Messages \cup {Empty}
      <4>1. CASE sp' = "idle"
        BY <2>1, <4>1, SendingPrimed
      <4>2. CASE sp' # "idle"
        BY <2>1, <4>2, SendingPrimed
      <4> QED
        BY <4>1, <4>2
    <3> QED
      BY <2>1, <2>3, <3>1 DEF Link!Next, Link!Disturbed
  <2>4. CASE Next /\ ~hurt' /\ hurt
    <3>1. sp' = "idle"
      BY <2>4, MendedInStep DEF IInv
    <3>2. Sending' = Empty
      BY <2>1, <3>1, SendingPrimed
    <3> QED
      BY <2>1, <2>4, <3>2 DEF Link!Next, Link!Mend
  <2>5. CASE Next /\ ~hurt' /\ ~hurt
    <3>1. CASE heard' = Empty /\ SendMsg(TRUE)
      BY <2>5, <3>1, Begun DEF Link!Next, Link!Undisturbed, Link!Begin
    <3>2. CASE heard' = Empty /\ sp # "idle" /\ UNCHANGED frame
      <4>1. Sending # Empty /\ Sending' = Sending
        BY <3>2, SendingIs DEF IInv, Sending
      <4> QED
        BY <2>5, <3>2, <4>1 DEF Link!Next, Link!Undisturbed, Link!Carry
    <3>3. CASE heard' = Sending /\ SendEnd(TRUE)
      <4>1. Sending # Empty
        BY <3>3, SendingIs DEF IInv, SendEnd
      <4>2. Sending' = Empty
        BY <2>1, <3>3, SendingPrimed DEF SendEnd
      <4> QED
        BY <2>5, <3>3, <4>1, <4>2 DEF Link!Next, Link!Undisturbed, Link!Deliver
    <3>4. CASE heard' = Empty /\ sp = "idle" /\ UNCHANGED frame
      <4>1. Sending = Empty /\ Sending' = Sending
        BY <3>4, SendingIs DEF IInv, Sending
      <4> QED
        BY <2>5, <3>4, <4>1 DEF Link!Next, Link!Undisturbed, Link!Chatter
    <3> QED
      BY <2>5, <3>1, <3>2, <3>3, <3>4, StepInStep
  <2> QED
    BY <2>1, <2>2, <2>3, <2>4, <2>5
<1> QED
  BY <1>1, <1>2, Inductive, PTL DEF Spec, ImplementsLink, Link!Spec
=============================================================================

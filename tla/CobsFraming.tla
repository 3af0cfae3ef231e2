----------------------------- MODULE CobsFraming -----------------------------
(***************************************************************************)
(* The framing of messages on the serial line between the proxy and the     *)
(* host (common/CobsFraming.c): a sender that stuffs a message and its CRC  *)
(* byte by byte, and the decoder that the other end calls for each byte.    *)
(* A frame stands between two 0 bytes and has no other: each run of data    *)
(* bytes that are not 0 goes behind a byte that says where the next 0 is.   *)
(* Log text may stand between frames.  Any byte may be damaged or lost.     *)
(*                                                                         *)
(* The values of a byte and the lengths of CRC and buffer are parameters.   *)
(* The branch of SendCobsData for runs of 254 bytes is left out: with the   *)
(* frames of proxy_msgs.h (MAX_FRAME_IO_LEN, 120) no run is that long.      *)
(***************************************************************************)
EXTENDS Integers, Sequences

CONSTANTS
  MaxByte,   \* greatest value of a byte
  Messages,  \* what the two programs send
  Crc(_),    \* the CRC of some bytes
  CrcLen,    \* its length
  BufSize    \* what the receiver passes to SerialFrameIO_Init

Byte  == 0 .. MaxByte
Empty == <<>>

ASSUME FramingAssumption ==
  /\ MaxByte \in Nat \ {0} /\ CrcLen \in Nat \ {0}
  /\ BufSize \in Nat /\ BufSize >= 5
  /\ Messages \subseteq Seq(Byte) /\ Empty \notin Messages
  /\ \A m \in Messages :
       /\ Crc(m) \in Seq(Byte) /\ Len(Crc(m)) = CrcLen
       /\ Len(m) + CrcLen < MaxByte

\* gCOBS.MaxMsgLen, the bytes that the decoder has room for.
Cap == BufSize - 5 - (BufSize - 5) \div 254

VARIABLES
  frame,    \* the message and CRC being sent, empty between frames
  at,       \* how many bytes of it are sent
  sp,       \* where SendCobsData is: "idle", "first" run to begin, "data"
  inFrame,  \* RxCount >= 0
  rxBuf,    \* the RxCount bytes in the receive buffer
  runLen,   \* RunLen of the decoder
  heard,    \* the message that the last call of ParseByte returned
  hurt      \* a byte was damaged, and the ends are not in step again

sender   == <<frame, at, sp>>
receiver == <<inFrame, rxBuf, runLen, heard>>
vars     == <<sender, receiver, hurt>>

Init ==
  /\ frame = Empty /\ at = 0 /\ sp = "idle"
  /\ inFrame = FALSE /\ rxBuf = Empty /\ runLen = 0 /\ heard = Empty
  /\ hurt = FALSE

-----------------------------------------------------------------------------
(* SerialFrameIO_ParseByte.                                                 *)

\* Crc = 0: the last bytes are the CRC of those before them.
CrcGood(buf) ==
  LET n == Len(buf) - CrcLen
  IN  n >= 0 /\ SubSeq(buf, n + 1, Len(buf)) = Crc(SubSeq(buf, 1, n))

\* Outside of a frame, RunLen and the buffer hold nothing that is used again.
Leave == inFrame' = FALSE /\ rxBuf' = Empty /\ runLen' = 0

\* (mutant: the run of an earlier frame is not forgotten)
StartInRun ==
  /\ ~inFrame \/ rxBuf = Empty
  /\ inFrame' = TRUE /\ rxBuf' = Empty /\ runLen' = 1 /\ heard' = Empty

StartOfFrame ==
  /\ ~inFrame \/ rxBuf = Empty
  /\ inFrame' = TRUE /\ rxBuf' = Empty /\ runLen' = 0 /\ heard' = Empty

GoodEnd ==
  /\ inFrame /\ rxBuf # Empty /\ CrcGood(rxBuf)
  /\ heard' = SubSeq(rxBuf, 1, Len(rxBuf) - CrcLen)
  /\ Leave

\* Nothing is reset: decoding goes on behind what is there.
BadEnd ==
  /\ inFrame /\ rxBuf # Empty /\ ~CrcGood(rxBuf)
  /\ heard' = Empty /\ UNCHANGED <<inFrame, rxBuf, runLen>>

NotInFrame ==
  /\ ~inFrame
  /\ heard' = Empty /\ UNCHANGED <<inFrame, rxBuf, runLen>>

FirstRun(b) ==
  /\ inFrame /\ runLen = 0
  /\ runLen' = b /\ heard' = Empty /\ UNCHANGED <<inFrame, rxBuf>>

\* (mutant: one byte more than there is room for)
StoreOneMore(b) ==
  /\ inFrame /\ runLen > 0 /\ Len(rxBuf) <= Cap
  /\ rxBuf' = Append(rxBuf, IF runLen = 1 THEN 0 ELSE b)
  /\ runLen' = IF runLen = 1 THEN b ELSE runLen - 1
  /\ heard' = Empty /\ UNCHANGED inFrame

\* At the end of a run the byte says how long the next one is, and stands for 0.
Store(b) ==
  /\ inFrame /\ runLen > 0 /\ Len(rxBuf) < Cap
  /\ rxBuf' = Append(rxBuf, IF runLen = 1 THEN 0 ELSE b)
  /\ runLen' = IF runLen = 1 THEN b ELSE runLen - 1
  /\ heard' = Empty /\ UNCHANGED inFrame

\* (mutant: the byte is dropped and the frame is not)
DropByte ==
  /\ inFrame /\ runLen > 0 /\ Len(rxBuf) >= Cap
  /\ heard' = Empty /\ UNCHANGED <<inFrame, rxBuf, runLen>>

TooLong ==
  /\ inFrame /\ runLen > 0 /\ Len(rxBuf) >= Cap
  /\ heard' = Empty /\ Leave

ParseByte(b) ==
  \/ b = 0 /\ (StartOfFrame \/ GoodEnd \/ BadEnd)
  \/ b # 0 /\ (NotInFrame \/ FirstRun(b) \/ Store(b) \/ TooLong)

-----------------------------------------------------------------------------
(* The line, and SendCobsData: one byte in each step.                       *)

\* A byte arrives as it was sent.
Arrives(b) ==
  /\ ParseByte(b)
  /\ hurt' = (hurt /\ ~(sp' = "idle" /\ ~inFrame'))

\* Another arrives in its place, or none.
Damaged(b) ==
  /\ \/ \E c \in Byte \ {b} : ParseByte(c)
     \/ heard' = Empty /\ UNCHANGED <<inFrame, rxBuf, runLen>>
  /\ hurt' = TRUE

Line(b, good) == IF good THEN Arrives(b) ELSE Damaged(b)

\* Behind the first i bytes of f stand n that are not 0, and then a 0 or the end.
IsRun(f, i, n) ==
  /\ i + n <= Len(f)
  /\ \A k \in i + 1 .. i + n : f[k] # 0
  /\ i + n < Len(f) => f[i + n + 1] = 0

\* SerialFrameIO_SendMsg appends the CRC.
SendMsg(good) ==
  /\ sp = "idle"
  /\ \E m \in Messages : frame' = m \o Crc(m)
  /\ at' = 0 /\ sp' = "first"
  /\ Line(0, good)

SendFirstRun(good) ==
  /\ sp = "first" /\ sp' = "data" /\ UNCHANGED <<frame, at>>
  /\ \E n \in 0 .. Len(frame) : IsRun(frame, 0, n) /\ Line(n + 1, good)

SendData(good) ==
  /\ sp = "data" /\ at < Len(frame) /\ frame[at + 1] # 0
  /\ at' = at + 1 /\ UNCHANGED <<frame, sp>>
  /\ Line(frame[at + 1], good)

\* In the place of a 0 goes the length of the run behind it.
SendRun(good) ==
  /\ sp = "data" /\ at < Len(frame) /\ frame[at + 1] = 0
  /\ at' = at + 1 /\ UNCHANGED <<frame, sp>>
  /\ \E n \in 0 .. Len(frame) : IsRun(frame, at + 1, n) /\ Line(n + 1, good)

SendEnd(good) ==
  /\ sp = "data" /\ at = Len(frame)
  /\ frame' = Empty /\ at' = 0 /\ sp' = "idle"
  /\ Line(0, good)

\* What a program prints goes down the same line, between frames.
Text(good) ==
  /\ sp = "idle" /\ UNCHANGED sender
  /\ \E c \in Byte \ {0} : Line(c, good)

FrameByte(good) ==
  SendFirstRun(good) \/ SendData(good) \/ SendRun(good) \/ SendEnd(good)

Next == \E good \in BOOLEAN : SendMsg(good) \/ FrameByte(good) \/ Text(good)

Spec == Init /\ [][Next]_vars

\* SendCobsData is one loop: a frame that is begun is sent to its end.
FairSpec == Spec /\ WF_vars(\E good \in BOOLEAN : FrameByte(good))

-----------------------------------------------------------------------------
(* Properties.                                                              *)

\* Every variable has its type, and the decoder writes inside its buffer.
TypeOK ==
  /\ frame \in Seq(Byte) /\ at \in 0 .. Len(frame)
  /\ sp \in {"idle", "first", "data"}
  /\ inFrame \in BOOLEAN /\ hurt \in BOOLEAN
  /\ rxBuf \in Seq(Byte) /\ Len(rxBuf) <= Cap
  /\ runLen \in Byte
  /\ heard \in Seq(Byte)

Sending == SubSeq(frame, 1, Len(frame) - CrcLen)

Link == INSTANCE SerialLink
          WITH sending <- Sending, Heard <- Seq(Byte), Nothing <- Empty

\* Whatever bytes a message has, the decoder returns it at its last byte,
\* and nothing else, as long as the link is not hurt: text between frames is
\* no message, and a frame never ends early.
ImplementsLink == Link!Spec

\* When bytes are no longer damaged and nothing is printed between frames,
\* the decoder, which resets nothing after a bad CRC, gets in step again if
\* only messages keep coming: its buffer fills up, and it lets go.
Recovers ==
  (/\ <>[][SendMsg(TRUE) \/ FrameByte(TRUE)]_vars
   /\ []<><<SendMsg(TRUE)>>_vars)
  => <>[]~hurt
=============================================================================

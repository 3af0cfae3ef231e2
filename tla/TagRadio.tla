------------------------------ MODULE TagRadio ------------------------------
(***************************************************************************)
(* The radio driver of the sub-GHz tags (firmware/soc/cc111x/radio.c): the  *)
(* DMA fills a ring of buffers packet by packet, its interrupt queues what  *)
(* passes the filter, and the main loop takes packets out (commsRx).  The   *)
(* receiver stops when the ring is full, for a transmission, and when it is *)
(* switched off, and has to be started again by whoever ends that.          *)
(*                                                                         *)
(* The interrupt handler is one step.  The main loop is split wherever the  *)
(* interrupt may come between.  radioRxFlush has no callers.                *)
(***************************************************************************)
EXTENDS Integers, Sequences

CONSTANTS
  Packets,   \* contents that the filter lets through
  Noise,     \* contents that it does not, or whose CRC is wrong
  Length,    \* the length of each
  RingSize,  \* RX_BUFFER_NUM
  None

Slots    == 0 .. RingSize - 1
Contents == Packets \cup Noise

ASSUME RadioAssumption ==
  /\ RingSize \in Nat \ {0}
  /\ Packets \cap Noise = {} /\ None \notin Contents
  /\ Length \in [Contents \cup {None} -> Nat]

VARIABLES
  len,     \* the first byte of each buffer of mRxBufs, which arrives first
  body,    \* the rest of each buffer, None when it is only partly there
  nextW,   \* mRxBufNextW
  nextR,   \* mRxBufNextR
  numFree, \* mRxBufNumFree
  rxOn,    \* mRxOn
  rx,      \* receiver and DMA: "off", "listening", "receiving", "done"
  irqOn,   \* is the DMA interrupt enabled?
  pc,      \* where the main loop is
  read,    \* the length that radioRxDequeuePktGet has read
  got,     \* what commsRx was given: a length and a content
  fresh    \* did the packet begin after that length was read?

ring == <<nextW, nextR, numFree>>
vars == <<len, body, nextW, nextR, numFree, rxOn, rx, irqOn, pc, read, got, fresh>>

After(i) == IF i + 1 = RingSize THEN 0 ELSE i + 1

NoPacket == <<0, None>>

Init ==
  /\ len = [i \in Slots |-> 0] /\ body = [i \in Slots |-> None]
  /\ nextW = 0 /\ nextR = 0 /\ numFree = RingSize
  /\ rxOn = FALSE /\ rx = "off" /\ irqOn = FALSE
  /\ pc = "idle" /\ read = 0 /\ got = NoPacket /\ fresh = FALSE

-----------------------------------------------------------------------------
(* Receiving.                                                               *)

\* Mutant: a transmission starts the receiver again though the ring is full.
StartListenUnchecked(on, free) ==
  \/ on /\ rx' = "listening" /\ irqOn' = TRUE
  \/ ~on /\ UNCHANGED <<rx, irqOn>>

\* radioPrvRxStartListenIfNeeded, with the counts as they are by then.
StartListen(on, free) ==
  \/ /\ on /\ free > 0
     /\ rx' = "listening" /\ irqOn' = TRUE
  \/ /\ ~(on /\ free > 0)
     /\ UNCHANGED <<rx, irqOn>>

\* The DMA writes the length of a packet on the air.
Arrive ==
  /\ rx = "listening"
  /\ \E c \in Contents : len' = [len EXCEPT ![nextW] = Length[c]]
  /\ body' = [body EXCEPT ![nextW] = None]
  /\ rx' = "receiving" /\ fresh' = (pc = "get")
  /\ UNCHANGED <<ring, rxOn, irqOn, pc, read, got>>

\* It writes the rest.  A packet is on the air for milliseconds and the main
\* loop between its two reads for microseconds: none fits in between.
Complete ==
  /\ rx = "receiving"
  /\ ~(fresh /\ pc = "get")
  /\ \E c \in Contents :
       /\ Length[c] = len[nextW]
       /\ body' = [body EXCEPT ![nextW] = c]
  /\ rx' = "done"
  /\ UNCHANGED <<len, ring, rxOn, irqOn, pc, read, got, fresh>>

\* Mutant: the interrupt goes on listening whatever room there is.
InterruptListensOn ==
  /\ rx = "done" /\ irqOn
  /\ IF body[nextW] \in Packets
       THEN nextW' = After(nextW) /\ numFree' = numFree - 1
       ELSE UNCHANGED <<nextW, numFree>>
  /\ rx' = IF rxOn THEN "listening" ELSE "off"
  /\ UNCHANGED <<len, body, nextR, rxOn, irqOn, pc, read, got, fresh>>

\* DMA_ISR.
Interrupt ==
  /\ rx = "done" /\ irqOn
  /\ \/ /\ body[nextW] \in Packets
        /\ nextW' = After(nextW) /\ numFree' = numFree - 1
     \/ /\ body[nextW] \notin Packets
        /\ UNCHANGED <<nextW, numFree>>
  /\ \/ /\ rxOn /\ numFree' > 0
        /\ rx' = "listening"
     \/ /\ ~(rxOn /\ numFree' > 0)
        /\ rx' = "off"
  /\ UNCHANGED <<len, body, nextR, rxOn, irqOn, pc, read, got, fresh>>

-----------------------------------------------------------------------------
(* The main loop: commsRx.                                                  *)

\* radioRxDequeuePktGet reads the length, whether there is a packet or not,
DequeuePktGet ==
  /\ pc = "idle"
  /\ read' = len[nextR] /\ pc' = "get" /\ fresh' = FALSE
  /\ UNCHANGED <<len, body, ring, rxOn, rx, irqOn, got>>

\* and then looks whether there is.
DequeuePktCheck ==
  /\ pc = "get"
  /\ pc' = IF numFree = RingSize THEN "idle" ELSE "held"
  /\ UNCHANGED <<len, body, ring, rxOn, rx, irqOn, read, got, fresh>>

\* commsRx copies the packet, unless its first checks fail.
Copy ==
  /\ pc = "held" /\ got = NoPacket
  /\ got' = <<read, body[nextR]>>
  /\ UNCHANGED <<len, body, ring, rxOn, rx, irqOn, pc, read, fresh>>

\* radioRxDequeuedPktRelease: the index,
DequeuedPktRelease ==
  /\ pc = "held"
  /\ nextR' = After(nextR) /\ pc' = "release"
  /\ UNCHANGED <<len, body, nextW, numFree, rxOn, rx, irqOn, read, got, fresh>>

\* Mutant: a release forgets the receiver that stopped for want of room.
ReleaseCountOnly ==
  /\ pc = "release"
  /\ numFree' = numFree + 1 /\ got' = NoPacket
  /\ pc' = "idle"
  /\ UNCHANGED <<len, body, nextW, nextR, rxOn, rx, irqOn, read, fresh>>

\* the count, in a critical section,
ReleaseCount ==
  /\ pc = "release"
  /\ numFree' = numFree + 1 /\ got' = NoPacket
  /\ pc' = IF numFree = 0 THEN "restart" ELSE "idle"
  /\ UNCHANGED <<len, body, nextW, nextR, rxOn, rx, irqOn, read, fresh>>

\* and the receiver, when it had stopped for want of a buffer.
Restart ==
  /\ pc = "restart"
  /\ StartListen(rxOn, numFree)
  /\ pc' = "idle"
  /\ UNCHANGED <<len, body, ring, rxOn, read, got, fresh>>

-----------------------------------------------------------------------------
(* The main loop: radioTx and radioRxEnable.  radioRxStopIfRunning throws   *)
(* away a packet whose interrupt has not run.                               *)

StopIfRunning == irqOn' = FALSE /\ rx' = "off"

Tx ==
  /\ pc = "idle"
  /\ StopIfRunning /\ pc' = "tx"
  /\ UNCHANGED <<len, body, ring, rxOn, read, got, fresh>>

TxDone ==
  /\ pc = "tx"
  /\ StartListen(rxOn, numFree)
  /\ pc' = "idle"
  /\ UNCHANGED <<len, body, ring, rxOn, read, got, fresh>>

RxEnable ==
  /\ pc = "idle" /\ ~rxOn
  /\ rxOn' = TRUE
  /\ StartListen(TRUE, numFree)
  /\ UNCHANGED <<len, body, ring, pc, read, got, fresh>>

RxDisable ==
  /\ pc = "idle" /\ rxOn
  /\ rxOn' = FALSE /\ StopIfRunning
  /\ UNCHANGED <<len, body, ring, pc, read, got, fresh>>

MainLoop ==
  \/ DequeuePktGet \/ DequeuePktCheck \/ Copy
  \/ DequeuedPktRelease \/ ReleaseCount \/ Restart
  \/ Tx \/ TxDone \/ RxEnable \/ RxDisable

Next == Arrive \/ Complete \/ Interrupt \/ MainLoop

Spec == Init /\ [][Next]_vars

-----------------------------------------------------------------------------
(* Type invariant: every variable has the shape the code gives it.          *)
TypeOK ==
  /\ len \in [Slots -> Nat]
  /\ body \in [Slots -> Contents \cup {None}]
  /\ nextW \in Slots /\ nextR \in Slots /\ numFree \in 0 .. RingSize
  /\ rxOn \in BOOLEAN /\ irqOn \in BOOLEAN /\ fresh \in BOOLEAN
  /\ rx \in {"off", "listening", "receiving", "done"}
  /\ pc \in {"idle", "get", "held", "release", "restart", "tx"}
  /\ read \in Nat
  /\ got \in Nat \X (Contents \cup {None})

\* Packets that are queued and not released: while a release has moved the
\* index and not the count, one less than the count says.
Queued == IF pc = "release" THEN RingSize - numFree - 1 ELSE RingSize - numFree

\* The buffer i places behind buffer b.
Behind(b, i) == IF b + i >= RingSize THEN b + i - RingSize ELSE b + i

\* The packets that wait, each as its buffer holds it.
Waiting == [i \in 1 .. Queued |->
              LET b == Behind(nextR, i - 1) IN <<len[b], body[b]>>]

Given == IF pc = "release" THEN NoPacket ELSE got

(* The receiver listens, or is about to, whenever it is on and there is a   *)
(* buffer: however packets, releases and transmissions interleave, no stop  *)
(* lasts longer than its reason.                                            *)
NeverDeaf ==
  rxOn /\ numFree > 0 => rx # "off" \/ pc \in {"restart", "tx"}

(* The buffers between the indices are the packets, whole and in order:     *)
(* none is overwritten while it waits or while commsRx copies it, and the   *)
(* length that was read before the check is the length of the packet.       *)
Queue == INSTANCE PacketQueue
           WITH Packets <- {<<Length[p], p>> : p \in Packets},
                Size    <- RingSize,
                None    <- NoPacket,
                queue   <- Waiting,
                got     <- Given
ImplementsQueue == Queue!Spec

=============================================================================

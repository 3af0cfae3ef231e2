---------------------------- MODULE StationRadios ----------------------------
(***************************************************************************)
(* The two radios of the station and the loop that serves them: the 2.4 GHz *)
(* radio of the processor (Station/radio.c), the sub-GHz radio behind SPI   *)
(* (Station/tiRadio.c), and commsRx, commsTx (Station/comms.c) as the main  *)
(* loop (Station/main.c) calls them.  Each radio has a ring of buffers that *)
(* its interrupt handler fills and the main loop empties.                   *)
(*                                                                         *)
(* A handler is one step; the main loop is split wherever a handler may     *)
(* come between.  Every transfer to the sub-GHz radio may fail: its chip is *)
(* not ready in time (tiRadioPrvSelect).  Both receivers are switched on    *)
(* before the main loop and not off again: mRxEnabled, mAutoAck are true.    A frame is what the     *)
(* handlers tell apart: whether the filter accepts it, whether it asks for  *)
(* an acknowledgement, and of an acknowledgement its sequence number.       *)
(***************************************************************************)
EXTENDS Integers, Sequences

CONSTANTS
  Mine,     \* frames that the filter of this station accepts
  Others,   \* frames that it does not, a bad CRC included
  WantAck,  \* frames with ackReqd, among those whose CRC is good
  Seqs,     \* sequence numbers
  MaxRx,    \* MAX_RX_PKTS
  MaxTries, \* transmissions of a packet that wants an acknowledgement
  None

Radios == {"nrf", "ti"}
Slots  == 0 .. MaxRx - 1
Frames == Mine \cup Others \cup Seqs

ASSUME RadiosAssumption ==
  /\ MaxRx \in Nat \ {0} /\ MaxTries \in Nat \ {0}
  /\ Mine \cap Others = {} /\ Seqs \cap (Mine \cup Others) = {}
  /\ WantAck \subseteq Mine \cup Others
  /\ None \notin Frames /\ Seqs # {}

VARIABLES
  bufs,      \* mRxBufs of each radio
  nextWrite, \* mRxNextWrite
  nextRead,  \* mRxNextRead
  numFree,   \* mRxNumFree
  numGot,    \* mRxNumGot
  rx,        \* each receiver: "off", "listening", "frame" when it has one,
             \* "failed" when it is off since it could not be started
  lastAck,   \* mLastAck, None for -1
  pc,        \* where the main loop is
  radio,     \* radioIdx, the radio it is at
  pkt,       \* the packet it has
  seq,       \* the sequence number of the answer
  tries      \* transmissions left, 0 when the answer wants no acknowledgement

ring    == <<bufs, nextWrite, nextRead, numFree, numGot>>
air     == <<rx, lastAck>>
main    == <<pc, radio, pkt, seq, tries>>
vars    == <<ring, air, main>>

After(i)  == IF i + 1 = MaxRx THEN 0 ELSE i + 1
Before(i) == IF i = 0 THEN MaxRx - 1 ELSE i - 1

Init ==
  /\ bufs = [r \in Radios |-> [i \in Slots |-> None]]
  /\ nextWrite = [r \in Radios |-> 0] /\ nextRead = [r \in Radios |-> 0]
  /\ numFree = [r \in Radios |-> MaxRx] /\ numGot = [r \in Radios |-> 0]
  /\ rx = [r \in Radios |-> "listening"]
  /\ lastAck = [r \in Radios |-> None]
  /\ pc = "poll" /\ radio = "nrf" /\ pkt = None /\ seq \in Seqs /\ tries = 0

-----------------------------------------------------------------------------
(* The handlers.                                                            *)

\* A frame is on the air and comes in.  Which one, its handler finds out.
Arrive(r) ==
  /\ rx[r] = "listening"
  /\ rx' = [rx EXCEPT ![r] = "frame"]
  /\ UNCHANGED <<ring, lastAck, main>>

\* What both handlers do with a frame.  What the buffer holds of one that is
\* not accepted does not matter, only that it is written over.
Take(r, f) ==
  /\ bufs' = [bufs EXCEPT ![r][nextWrite[r]] = IF f \in Mine THEN f ELSE None]
  /\ lastAck' = [lastAck EXCEPT ![r] = IF f \in Seqs THEN f ELSE @]
  /\ \/ /\ f \in Mine
        /\ numFree' = [numFree EXCEPT ![r] = @ - 1]
        /\ nextWrite' = [nextWrite EXCEPT ![r] = After(nextWrite[r])]
        /\ numGot' = [numGot EXCEPT ![r] = @ + 1]
     \/ /\ f \notin Mine
        /\ UNCHANGED <<numFree, nextWrite, numGot>>
  /\ UNCHANGED nextRead

\* RADIO_IRQHandler.  It sends the acknowledgement itself, and then listens
\* again unless the ring is full (radioPrvQueueUpRx).
NrfHandler ==
  /\ rx["nrf"] = "frame"
  /\ \E f \in Frames : Take("nrf", f)
  /\ rx' = [rx EXCEPT !["nrf"] = IF numFree'["nrf"] > 0 THEN "listening" ELSE "off"]
  /\ UNCHANGED main

\* tiRadioPrvStrobe(CMD_SRX).  Nobody looks at whether it failed: it is -1 then,
\* which the end of tiRadioTxLL takes for success.
Strobed == {"listening", "failed"}

TiBecomes(S) == \E s \in S : rx' = [rx EXCEPT !["ti"] = s]

\* A frame that asks for an acknowledgement and is not accepted: sendAck is set,
\* and nothing is sent.
NotAnswered(f) == f \in WantAck \ Mine

\* Mutant: no look at the free buffers.
TiHandlerNoRoom ==
  /\ rx["ti"] = "frame"
  /\ \E f \in Frames :
       /\ Take("ti", f)
       /\ TiBecomes(IF NotAnswered(f) THEN {"off"} ELSE Strobed)
  /\ UNCHANGED main

\* Mutant: the receiver is left alone after an acknowledgement of its own.
TiHandlerAckStops ==
  /\ rx["ti"] = "frame"
  /\ \/ TiBecomes(Strobed) /\ UNCHANGED <<ring, lastAck>>
     \/ /\ numFree["ti"] > 0
        /\ \E f \in Frames :
             /\ Take("ti", f)
             /\ TiBecomes(IF f \in WantAck THEN {"off"} ELSE Strobed)
  /\ UNCHANGED main

\* GPIOTE_IRQHandler, which calls tiRadioPrvPacketRx until no frame is left.  The
\* radio has stopped by itself, and whichever way a frame goes there is one
\* attempt to start it again:
\*   - thrown away, for want of a buffer or because it could not be read: the
\*     strobe at the end;
\*   - taken: the same, or the acknowledgement (tiRadioTxLL), which may fail on
\*     its way to the strobe or at it;
\*   - not accepted, but asking for an acknowledgement: none.
TiHandler ==
  /\ rx["ti"] = "frame"
  /\ \/ TiBecomes(Strobed) /\ UNCHANGED <<ring, lastAck>>
     \/ /\ numFree["ti"] > 0
        /\ \E f \in Frames :
             /\ Take("ti", f)
             /\ TiBecomes(IF NotAnswered(f) THEN {"off"} ELSE Strobed)
  /\ UNCHANGED main

Handlers == (\E r \in Radios : Arrive(r)) \/ NrfHandler \/ TiHandler

-----------------------------------------------------------------------------
(* Receiving in the main loop: commsRx.                                     *)

\* radioRxDequeuePkt and tiRadioRxDequeuePkt copy the packet and move the index,
Dequeue(r) ==
  /\ numGot[r] > 0
  /\ pkt' = bufs[r][nextRead[r]]
  /\ nextRead' = [nextRead EXCEPT ![r] = After(nextRead[r])]
  /\ radio' = r /\ pc' = "count"
  /\ UNCHANGED <<bufs, nextWrite, numFree, numGot, air, seq, tries>>

\* commsRx asks the 2.4 GHz radio first.
PollNrf ==
  /\ pc = "poll"
  /\ \/ Dequeue("nrf")
     \/ /\ numGot["nrf"] = 0
        /\ pc' = "pollTi"
        /\ UNCHANGED <<ring, air, radio, pkt, seq, tries>>

PollTi ==
  /\ pc = "pollTi"
  /\ \/ Dequeue("ti")
     \/ /\ numGot["ti"] = 0
        /\ pc' = "poll"
        /\ UNCHANGED <<ring, air, radio, pkt, seq, tries>>

\* Mutant: the counts, and no look at the receiver.
CountOnly ==
  /\ pc = "count"
  /\ bufs' = [bufs EXCEPT ![radio][Before(nextRead[radio])] = None]
  /\ numFree' = [numFree EXCEPT ![radio] = @ + 1]
  /\ numGot' = [numGot EXCEPT ![radio] = @ - 1]
  /\ pc' = "handle"
  /\ UNCHANGED <<nextWrite, nextRead, air, radio, pkt, seq, tries>>

\* and then the counts, with the interrupt masked.  What the buffer holds does not
\* matter any more.
Count ==
  /\ pc = "count"
  /\ bufs' = [bufs EXCEPT ![radio][Before(nextRead[radio])] = None]
  /\ numFree' = [numFree EXCEPT ![radio] = @ + 1]
  /\ numGot' = [numGot EXCEPT ![radio] = @ - 1]
  /\ pc' = IF radio = "nrf" THEN "resume" ELSE "handle"
  /\ UNCHANGED <<nextWrite, nextRead, air, radio, pkt, seq, tries>>

\* Mutant: the receiver is started whatever room there is.
QueueUpRxAlways(r) == rx' = [rx EXCEPT ![r] = "listening"]

\* radioPrvQueueUpRx.
QueueUpRx(r) ==
  rx' = [rx EXCEPT ![r] = IF numFree[r] > 0 THEN "listening" ELSE "off"]

\* Of the 2.4 GHz radio, the receiver too, when it has stalled.
Resume ==
  /\ pc = "resume"
  /\ \/ rx["nrf"] = "off" /\ QueueUpRx("nrf")
     \/ rx["nrf"] # "off" /\ UNCHANGED rx
  /\ pc' = "handle"
  /\ UNCHANGED <<ring, lastAck, radio, pkt, seq, tries>>

-----------------------------------------------------------------------------
(* Answering: commsTx.                                                      *)

\* The packet gets no answer, an answer (a check-in or a chunk request), or one
\* that wants to be acknowledged (an association request).
Handle ==
  /\ pc = "handle"
  /\ pkt' = None
  /\ \/ pc' = "poll" /\ UNCHANGED <<seq, tries>>
     \/ /\ pc' = "ackReset"
        /\ seq' \in Seqs /\ tries' \in {0, MaxTries}
  /\ UNCHANGED <<ring, air, radio>>

AckReset ==
  /\ pc = "ackReset"
  /\ lastAck' = [lastAck EXCEPT ![radio] = None]
  /\ pc' = "send"
  /\ UNCHANGED <<ring, rx, radio, pkt, seq, tries>>

\* commsTx breaks out of its loop when a transmission fails.
GiveUpAnswer == tries' = 0 /\ pc' = "poll"

\* radioTxLL and tiRadioTxLL stop the receiver, and a frame that was coming in
\* is lost.  An interrupt that is due comes before the SPI transfer; one in the
\* middle of a transfer is not modelled.  When the sub-GHz radio cannot be
\* reached, it is as it was.
SendStart ==
  /\ pc = "send"
  /\ radio = "ti" => rx["ti"] # "frame"
  /\ \/ rx' = [rx EXCEPT ![radio] = "off"] /\ pc' = "sending" /\ UNCHANGED tries
     \/ radio = "ti" /\ UNCHANGED rx /\ GiveUpAnswer
  /\ UNCHANGED <<ring, lastAck, radio, pkt, seq>>

\* When the packet is out they start it again; tiRadioTxLL does not when one of
\* its transfers failed before the packet was out.
SendEnd ==
  /\ pc = "sending"
  /\ \/ /\ \/ radio = "nrf" /\ QueueUpRx("nrf")
           \/ radio = "ti" /\ TiBecomes(Strobed)
        /\ pc' = IF tries = 0 THEN "poll" ELSE "wait"
        /\ UNCHANGED tries
     \/ /\ radio = "ti"
        /\ rx' = [rx EXCEPT !["ti"] = "failed"]
        /\ GiveUpAnswer
  /\ UNCHANGED <<ring, lastAck, radio, pkt, seq>>

\* commsTx waits for the acknowledgement for half a millisecond at a time.
Acked ==
  /\ pc = "wait" /\ lastAck[radio] = seq
  /\ tries' = 0 /\ pc' = "poll"
  /\ UNCHANGED <<ring, air, radio, pkt, seq>>


TimeOut ==
  /\ pc = "wait"
  /\ tries' = tries - 1
  /\ pc' = IF tries = 1 THEN "poll" ELSE "ackReset"
  /\ UNCHANGED <<ring, air, radio, pkt, seq>>

MainLoop ==
  \/ PollNrf \/ PollTi \/ Count \/ Resume \/ Handle
  \/ AckReset \/ SendStart \/ SendEnd \/ Acked \/ TimeOut

Next == Handlers \/ MainLoop

Spec == Init /\ [][Next]_vars

\* Handlers run when their interrupt is due, and the loop goes on.  A frame is
\* on the air for longer than the loop takes between two of its steps, so the
\* loop gets to send though frames keep coming in.
FairSpec ==
  /\ Spec
  /\ WF_vars(NrfHandler) /\ WF_vars(TiHandler)
  /\ WF_vars(MainLoop) /\ SF_vars(SendStart)

-----------------------------------------------------------------------------
(* Type invariant: every variable has the shape the code gives it; no count *)
(* or index leaves its ring.                                                *)
TypeOK ==
  /\ bufs \in [Radios -> [Slots -> Mine \cup {None}]]
  /\ nextWrite \in [Radios -> Slots] /\ nextRead \in [Radios -> Slots]
  /\ numFree \in [Radios -> 0 .. MaxRx] /\ numGot \in [Radios -> 0 .. MaxRx]
  /\ rx \in [Radios -> {"off", "listening", "frame", "failed"}]
  /\ lastAck \in [Radios -> Seqs \cup {None}]
  /\ pc \in {"poll", "pollTi", "count", "resume", "handle", "ackReset", "send",
             "sending", "wait"}
  /\ radio \in Radios /\ pkt \in Mine \cup {None}
  /\ seq \in Seqs /\ tries \in 0 .. MaxTries

Sending(r) == pc = "sending" /\ radio = r

(* The 2.4 GHz receiver stalls for want of a buffer and no longer: whoever   *)
(* frees one finds it stalled and starts it, whatever the handler does       *)
(* between (radio.c: RADIO_IRQHandler, radioRxDequeuePkt, radioTxLL).        *)
NrfListens ==
  rx["nrf"] = "off" =>
    numFree["nrf"] = 0 \/ pc = "resume" \/ Sending("nrf")

(* The sub-GHz receiver (tiRadio.c: tiRadioPrvPacketRx, tiRadioTxLL) is off   *)
(* only while the station itself transmits, or after an attempt to start it    *)
(* that failed: no order of frames, answers and full buffers stops it.  "ti    *)
(* radio never stalls RX state machine" (tiRadioRxDequeuePkt), it says.        *)
TiListens == rx["ti"] = "off" => Sending("ti")

\* Packets that wait in a ring.  While one has been copied and not yet been
\* counted, the index is past it.
Taken(r) == pc = "count" /\ radio = r
First(r) == IF Taken(r) THEN Before(nextRead[r]) ELSE nextRead[r]
Behind(b, i) == IF b + i >= MaxRx THEN b + i - MaxRx ELSE b + i

Waiting(r) == [i \in 1 .. numGot[r] |-> bufs[r][Behind(First(r), i - 1)]]
Given(r)   == IF Taken(r) THEN pkt ELSE None

(* Each ring is a queue: packets come out in the order in which they came,   *)
(* none twice, and none is overwritten while it waits or is copied.          *)
NrfQueue == INSTANCE PacketQueue
              WITH Packets <- Mine, Size <- MaxRx,
                   queue <- Waiting("nrf"), got <- Given("nrf")
TiQueue  == INSTANCE PacketQueue
              WITH Packets <- Mine, Size <- MaxRx,
                   queue <- Waiting("ti"), got <- Given("ti")
ImplementsQueues == NrfQueue!Spec /\ TiQueue!Spec


=============================================================================

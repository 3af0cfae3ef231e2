--------------------------- MODULE TagRadio_proofs ---------------------------
(***************************************************************************)
(* Proofs about TagRadio, for any number of buffers: the receiver is never *)
(* left off without a reason, and the ring is a queue.                     *)
(***************************************************************************)
EXTENDS TagRadio, SequenceTheorems, TLAPS

-----------------------------------------------------------------------------
(* The inductive invariant.                                                 *)

\* The writing index is as far behind the reading one as packets wait.
RingInv ==
  /\ pc \in {"held", "release"} => numFree < RingSize
  /\ nextW = Behind(nextR, Queued)

\* A packet that waits passed the filter and has its own length.
WholeInv ==
  \A i \in 0 .. Queued - 1 :
    LET b == Behind(nextR, i) IN
      body[b] \in Packets /\ len[b] = Length[body[b]]

\* The receiver runs only with a buffer to write to, which it fills in order.
RxInv ==
  /\ rx # "off" => rxOn /\ numFree > 0 /\ irqOn /\ pc # "tx"
  /\ rx = "done" => body[nextW] \in Contents /\ len[nextW] = Length[body[nextW]]

\* What the main loop has read is the packet at the head of the queue.  Before
\* it has looked whether there is one, this may be false of a packet that is
\* still on its way.
ReadInv ==
  /\ pc = "get" =>
       \/ read = len[nextR]
       \/ /\ numFree = RingSize
          /\ rx \in {"off", "listening"} \/ (fresh /\ rx = "receiving")
  /\ pc = "held" => read = len[nextR]
  /\ got # NoPacket /\ pc # "release" => pc = "held" /\ got = <<read, body[nextR]>>

IInv == TypeOK /\ RingInv /\ WholeInv /\ RxInv /\ ReadInv /\ NeverDeaf

-----------------------------------------------------------------------------
(* Arithmetic of the ring.                                                  *)

\* Indices stay in the ring, and one step on is one buffer further behind.
LEMMA BehindStep ==
  ASSUME NEW b \in Slots, NEW i \in 0 .. RingSize
  PROVE  /\ Behind(b, i) \in Int
         /\ i < RingSize => Behind(b, i) \in Slots
         /\ Behind(b, 0) = b
         /\ i < RingSize => After(Behind(b, i)) = Behind(b, i + 1)
         /\ i > 0 => Behind(After(b), i - 1) = Behind(b, i)
         /\ After(b) \in Slots
  BY RadioAssumption DEF Behind, After, Slots

\* Buffers at different distances are different.
LEMMA BehindDiffers ==
  ASSUME NEW b \in Slots, NEW i \in 0 .. RingSize - 1, NEW j \in 0 .. RingSize - 1,
         i # j
  PROVE  Behind(b, i) # Behind(b, j)
  BY RadioAssumption DEF Behind, Slots

\* No more packets wait than there are buffers; while the receiver runs, fewer.
LEMMA QueuedBound ==
  ASSUME IInv
  PROVE  /\ Queued \in 0 .. RingSize
         /\ numFree > 0 => Queued < RingSize
         /\ pc # "release" => Queued = RingSize - numFree
         /\ pc = "release" => Queued = RingSize - numFree - 1
  BY RadioAssumption DEF IInv, TypeOK, RingInv, Queued

-----------------------------------------------------------------------------
(* The invariant holds.                                                     *)

LEMMA InitIInv == Init => IInv
<1> SUFFICES ASSUME Init PROVE IInv
  OBVIOUS
<1> USE RadioAssumption DEF Init
<1>0. Queued = 0
  BY DEF Queued
<1>1. TypeOK
  <2>1. len \in [Slots -> Nat] /\ body \in [Slots -> Contents \cup {None}]
    OBVIOUS
  <2>2. got \in Nat \X (Contents \cup {None})
    BY DEF NoPacket
  <2>3. nextW \in Slots /\ nextR \in Slots /\ numFree \in 0 .. RingSize
    BY DEF Slots
  <2> QED
    BY <2>1, <2>2, <2>3 DEF TypeOK
<1>2. RingInv
  BY <1>0 DEF RingInv, Behind
<1>3. WholeInv
  BY <1>0 DEF WholeInv
<1>4. RxInv /\ ReadInv /\ NeverDeaf
  BY DEF RxInv, ReadInv, NeverDeaf
<1> QED
  BY <1>1, <1>2, <1>3, <1>4 DEF IInv

\* Steps of the main loop that leave the ring alone, and of the receiver that
\* do: queue and buffers stay as they are.
LEMMA RingKept ==
  ASSUME IInv, UNCHANGED <<len, body, ring>>,
         pc = "release" <=> pc' = "release",
         pc' = "held" => numFree < RingSize
  PROVE  RingInv' /\ WholeInv' /\ Queued' = Queued
<1>1. Queued' = Queued
  BY Zenon DEF Queued, ring
<1>2. RingInv'
  BY <1>1, RadioAssumption DEF RingInv, Behind, IInv, ring, TypeOK
<1>3. WholeInv'
  BY <1>1, Zenon DEF WholeInv, Behind, IInv, ring
<1> QED
  BY <1>1, <1>2, <1>3

LEMMA ArriveKeeps == IInv /\ Arrive => IInv'
<1> SUFFICES ASSUME IInv, Arrive PROVE IInv'
  OBVIOUS
<1> USE RadioAssumption
<1>0. /\ rx = "listening" /\ rx' = "receiving" /\ fresh' = (pc = "get")
      /\ UNCHANGED <<nextW, nextR, numFree, rxOn, irqOn, pc, read, got>>
  BY DEF Arrive, ring
<1>1. PICK c \in Contents : len' = [len EXCEPT ![nextW] = Length[c]]
  BY DEF Arrive
<1>2. body' = [body EXCEPT ![nextW] = None]
  BY DEF Arrive
<1>3. TypeOK'
  BY <1>0, <1>1, <1>2, Zenon DEF TypeOK, IInv, Contents
<1>4. Queued' = Queued /\ numFree > 0 /\ Queued \in 0 .. RingSize - 1
  BY <1>0, QueuedBound DEF Queued, IInv, RxInv, TypeOK
<1>5. RingInv'
  BY <1>0, <1>4 DEF IInv, RingInv, Behind
<1>6. ASSUME NEW i \in 0 .. Queued - 1
      PROVE  /\ Behind(nextR, i) \in Slots /\ Behind(nextR, i) # nextW
             /\ len'[Behind(nextR, i)] = len[Behind(nextR, i)]
             /\ body'[Behind(nextR, i)] = body[Behind(nextR, i)]
  <2>0. i \in 0 .. RingSize /\ i < RingSize /\ nextR \in Slots
    BY <1>4 DEF IInv, TypeOK
  <2>1. Behind(nextR, i) \in Slots
    BY <2>0, BehindStep
  <2>2. Behind(nextR, i) # Behind(nextR, Queued)
    BY <1>4, BehindDiffers DEF IInv, TypeOK
  <2> QED
    BY <2>1, <2>2, <1>1, <1>2 DEF IInv, TypeOK, RingInv
<1>7. WholeInv'
  BY <1>0, <1>4, <1>6 DEF WholeInv, IInv, Behind
<1>8. RxInv' /\ NeverDeaf'
  BY <1>0 DEF RxInv, NeverDeaf, IInv
<1>9. ReadInv'
  <2>1. CASE Queued = 0
    <3>1. pc # "held" /\ (pc = "get" => numFree = RingSize)
      BY <2>1, QueuedBound DEF IInv, RingInv, TypeOK
    <3> QED
      BY <3>1, <1>0 DEF ReadInv, IInv
  <2>2. CASE Queued > 0
    <3>1. Behind(nextR, 0) = nextR
      BY BehindStep DEF IInv, TypeOK
    <3>2. len'[nextR] = len[nextR] /\ body'[nextR] = body[nextR]
      BY <3>1, <2>2, <1>4, <1>6
    <3>3. pc = "get" => numFree # RingSize
      BY <2>2, QueuedBound DEF IInv, TypeOK
    <3> QED
      BY <3>2, <3>3, <1>0 DEF ReadInv, IInv
  <2> QED
    BY <2>1, <2>2, <1>4
<1> QED
  BY <1>3, <1>5, <1>7, <1>8, <1>9 DEF IInv

LEMMA CompleteKeeps == IInv /\ Complete => IInv'
<1> SUFFICES ASSUME IInv, Complete PROVE IInv'
  OBVIOUS
<1> USE RadioAssumption
<1>0. /\ rx = "receiving" /\ rx' = "done" /\ ~(fresh /\ pc = "get")
      /\ UNCHANGED <<len, nextW, nextR, numFree, rxOn, irqOn, pc, read, got, fresh>>
  BY DEF Complete, ring
<1>1. PICK c \in Contents : /\ Length[c] = len[nextW]
                            /\ body' = [body EXCEPT ![nextW] = c]
  BY DEF Complete
<1>3. TypeOK'
  BY <1>0, <1>1, Zenon DEF TypeOK, IInv
<1>4. Queued' = Queued /\ numFree > 0 /\ Queued \in 0 .. RingSize - 1
  BY <1>0, QueuedBound DEF Queued, IInv, RxInv, TypeOK
<1>5. RingInv'
  BY <1>0, <1>4 DEF IInv, RingInv, Behind
<1>6. ASSUME NEW i \in 0 .. Queued - 1
      PROVE  /\ Behind(nextR, i) \in Slots /\ Behind(nextR, i) # nextW
             /\ body'[Behind(nextR, i)] = body[Behind(nextR, i)]
  <2>0. i \in 0 .. RingSize /\ i < RingSize /\ nextR \in Slots
    BY <1>4 DEF IInv, TypeOK
  <2>1. Behind(nextR, i) \in Slots
    BY <2>0, BehindStep
  <2>2. Behind(nextR, i) # Behind(nextR, Queued)
    BY <1>4, BehindDiffers DEF IInv, TypeOK
  <2> QED
    BY <2>1, <2>2, <1>1 DEF IInv, TypeOK, RingInv
<1>7. WholeInv'
  BY <1>0, <1>4, <1>6 DEF WholeInv, IInv, Behind
<1>8. RxInv' /\ NeverDeaf'
  BY <1>0, <1>1 DEF RxInv, NeverDeaf, IInv, TypeOK
<1>9. ReadInv'
  <2>1. pc = "held" => body'[nextR] = body[nextR]
    <3>1. Behind(nextR, 0) = nextR
      BY BehindStep DEF IInv, TypeOK
    <3>2. pc = "held" => Queued > 0
      BY QueuedBound DEF IInv, RingInv, TypeOK
    <3> QED
      BY <3>1, <3>2, <1>4, <1>6
  <2>2. pc = "get" => read = len[nextR]
    BY <1>0 DEF ReadInv, IInv
  <2> QED
    BY <2>1, <2>2, <1>0 DEF ReadInv, IInv
<1> QED
  BY <1>3, <1>5, <1>7, <1>8, <1>9 DEF IInv
LEMMA InterruptKeeps == IInv /\ Interrupt => IInv'
<1> SUFFICES ASSUME IInv, Interrupt PROVE IInv'
  OBVIOUS
<1> USE RadioAssumption
<1>0. /\ rx = "done" /\ rxOn /\ irqOn /\ numFree > 0 /\ pc # "tx"
      /\ UNCHANGED <<len, body, nextR, rxOn, irqOn, pc, read, got, fresh>>
      /\ rx' = IF rxOn /\ numFree' > 0 THEN "listening" ELSE "off"
  BY DEF Interrupt, IInv, RxInv
<1>1. Queued \in 0 .. RingSize - 1 /\ nextR \in Slots /\ nextW \in Slots
  BY <1>0, QueuedBound DEF IInv, TypeOK
<1>2. /\ After(nextW) = Behind(nextR, Queued + 1) /\ After(nextW) \in Slots
      /\ Behind(nextR, 0) = nextR
  BY <1>1, BehindStep DEF IInv, RingInv
<1>3. TypeOK' /\ numFree' \in 0 .. RingSize
  <2>1. nextW' \in Slots /\ numFree' \in 0 .. RingSize
    BY <1>0, <1>1, <1>2 DEF Interrupt, TypeOK, IInv
  <2>2. rx' \in {"off", "listening", "receiving", "done"}
    BY <1>0
  <2> QED
    BY <2>1, <2>2, <1>0, Zenon DEF TypeOK, IInv
<1>4. CASE body[nextW] \in Packets
  <2>1. nextW' = After(nextW) /\ numFree' = numFree - 1
    BY <1>4 DEF Interrupt
  <2>2. Queued' = Queued + 1
    <3>1. numFree \in Int /\ RingSize \in Int /\ pc' = pc
      BY <1>0 DEF IInv, TypeOK
    <3> QED
      BY <2>1, <3>1 DEF Queued
  <2>3. RingInv'
    BY <2>1, <2>2, <1>0, <1>1, <1>2 DEF IInv, TypeOK, RingInv, Behind
  <2>4. WholeInv'
    <3> SUFFICES ASSUME NEW i \in 0 .. Queued
                 PROVE  /\ body[Behind(nextR, i)] \in Packets
                        /\ len[Behind(nextR, i)] = Length[body[Behind(nextR, i)]]
      BY <2>2, <1>0, <1>1 DEF WholeInv, Behind
    <3>1. CASE i = Queued
      BY <3>1, <1>0, <1>4 DEF IInv, RingInv, RxInv
    <3>2. CASE i \in 0 .. Queued - 1
      BY <3>2 DEF IInv, WholeInv
    <3> QED
      BY <3>1, <3>2, <1>1
  <2>5. RxInv' /\ NeverDeaf'
    BY <2>1, <1>0, <1>3 DEF RxInv, NeverDeaf, IInv, TypeOK
  <2>6. ReadInv'
    BY <2>1, <1>0 DEF ReadInv, IInv
  <2> QED
    BY <1>3, <2>3, <2>4, <2>5, <2>6 DEF IInv
<1>5. CASE body[nextW] \notin Packets
  <2>1. UNCHANGED ring
    BY <1>5, <1>0 DEF Interrupt, ring
  <2>2. RingInv' /\ WholeInv'
    BY <2>1, <1>0, RingKept DEF IInv, RingInv
  <2>3. RxInv' /\ NeverDeaf' /\ ReadInv'
    BY <2>1, <1>0 DEF RxInv, NeverDeaf, IInv, ReadInv, ring
  <2> QED
    BY <1>3, <2>2, <2>3 DEF IInv
<1> QED
  BY <1>4, <1>5

\* The steps that read, and those that switch the receiver.
LEMMA ReadStepsKeep ==
  IInv /\ (DequeuePktGet \/ DequeuePktCheck \/ Copy) => IInv'
<1> SUFFICES ASSUME IInv, DequeuePktGet \/ DequeuePktCheck \/ Copy PROVE IInv'
  OBVIOUS
<1> USE RadioAssumption
<1>0. UNCHANGED <<len, body, ring, rxOn, rx, irqOn>>
  BY Zenon DEF DequeuePktGet, DequeuePktCheck, Copy, ring
<1>1. TypeOK'
  <2>1. nextR \in Slots /\ len \in [Slots -> Nat]
        /\ body \in [Slots -> Contents \cup {None}] /\ read \in Nat
        /\ fresh \in BOOLEAN
    BY Zenon DEF IInv, TypeOK
  <2>2. /\ read' \in Nat /\ fresh' \in BOOLEAN
        /\ pc' \in {"idle", "get", "held", "release", "restart", "tx"}
        /\ got' = got \/ got' = <<read, body[nextR]>>
    BY <2>1 DEF DequeuePktGet, DequeuePktCheck, Copy, IInv, TypeOK
  <2>3. got' \in Nat \X (Contents \cup {None})
    BY <2>1, <2>2 DEF IInv, TypeOK
  <2> QED
    BY <2>2, <2>3, <1>0, Zenon DEF ring, IInv, TypeOK
<1>2. RingInv' /\ WholeInv'
  <2>1. /\ pc = "release" <=> pc' = "release"
        /\ pc' = "held" => numFree < RingSize
    BY <1>0 DEF DequeuePktGet, DequeuePktCheck, Copy, IInv, RingInv, TypeOK
  <2> QED
    BY <2>1, <1>0, RingKept
<1>3. RxInv' /\ NeverDeaf'
  BY <1>0 DEF DequeuePktGet, DequeuePktCheck, Copy, RxInv, NeverDeaf, IInv, ring
<1>4. ReadInv'
  BY <1>0 DEF DequeuePktGet, DequeuePktCheck, Copy, ReadInv, IInv, ring
<1> QED
  BY <1>1, <1>2, <1>3, <1>4 DEF IInv

LEMMA SwitchStepsKeep ==
  IInv /\ (Restart \/ Tx \/ TxDone \/ RxEnable \/ RxDisable) => IInv'
<1> SUFFICES ASSUME IInv, Restart \/ Tx \/ TxDone \/ RxEnable \/ RxDisable
             PROVE  IInv'
  OBVIOUS
<1> USE RadioAssumption
<1> USE DEF Restart, Tx, TxDone, RxEnable, RxDisable
<1>0. /\ UNCHANGED <<len, body, ring, read, got, fresh>>
      /\ pc \in {"idle", "restart", "tx"} /\ pc' \in {"idle", "tx"}
  BY Zenon DEF ring
<1>1. TypeOK'
  <2>1. rx' \in {"off", "listening", "receiving", "done"} /\ irqOn' \in BOOLEAN
    BY DEF StartListen, StopIfRunning, IInv, TypeOK
  <2>2. rxOn' \in BOOLEAN
    BY Zenon DEF IInv, TypeOK
  <2>3. pc' \in {"get", "held", "idle", "release", "restart", "tx"}
    BY <1>0
  <2> QED
    BY <2>1, <2>2, <2>3, <1>0, Zenon DEF IInv, TypeOK, ring
<1>2. RingInv' /\ WholeInv'
  BY <1>0, RingKept
<1>3. RxInv' /\ NeverDeaf'
  BY <1>0 DEF RxInv, NeverDeaf, IInv, ring, StartListen, StopIfRunning
<1>4. ReadInv'
  BY <1>0 DEF ReadInv, IInv
<1> QED
  BY <1>1, <1>2, <1>3, <1>4 DEF IInv

LEMMA DequeuedPktReleaseKeeps == IInv /\ DequeuedPktRelease => IInv'
<1> SUFFICES ASSUME IInv, DequeuedPktRelease PROVE IInv'
  OBVIOUS
<1> USE RadioAssumption
<1>0. /\ pc = "held" /\ pc' = "release" /\ nextR' = After(nextR)
      /\ UNCHANGED <<len, body, nextW, numFree, rxOn, rx, irqOn, read, got, fresh>>
  BY DEF DequeuedPktRelease
<1>1. /\ Queued \in 1 .. RingSize /\ nextR \in Slots /\ numFree < RingSize
      /\ Queued = RingSize - numFree /\ Queued' = Queued - 1
  BY <1>0, QueuedBound DEF IInv, TypeOK, RingInv, Queued
<1>2. After(nextR) \in Slots
  BY <1>1, BehindStep
<1>3. ASSUME NEW i \in 1 .. RingSize
      PROVE  Behind(nextR', i - 1) = Behind(nextR, i)
  <2>1. i \in 0 .. RingSize /\ i > 0
    OBVIOUS
  <2> QED
    BY <2>1, <1>0, <1>1, BehindStep
<1>4. TypeOK'
  BY <1>0, <1>2, Zenon DEF IInv, TypeOK
<1>5. RingInv'
  <2>1. Behind(nextR', Queued') = Behind(nextR, Queued)
    BY <1>1, <1>3
  <2> QED
    BY <2>1, <1>0, <1>1 DEF IInv, RingInv, Behind
<1>6. WholeInv'
  <2> SUFFICES ASSUME NEW i \in 0 .. Queued - 2
               PROVE  /\ body[Behind(nextR', i)] \in Packets
                      /\ len[Behind(nextR', i)] = Length[body[Behind(nextR', i)]]
    BY <1>0, <1>1 DEF WholeInv, Behind
  <2>1. Behind(nextR', i) = Behind(nextR, i + 1)
    BY <1>1, <1>3
  <2> QED
    BY <2>1, <1>1 DEF IInv, WholeInv
<1>7. RxInv' /\ NeverDeaf' /\ ReadInv'
  BY <1>0 DEF RxInv, NeverDeaf, ReadInv, IInv
<1> QED
  BY <1>4, <1>5, <1>6, <1>7 DEF IInv

LEMMA ReleaseCountKeeps == IInv /\ ReleaseCount => IInv'
<1> SUFFICES ASSUME IInv, ReleaseCount PROVE IInv'
  OBVIOUS
<1> USE RadioAssumption
<1>0. /\ pc = "release" /\ numFree' = numFree + 1 /\ got' = NoPacket
      /\ pc' = IF numFree = 0 THEN "restart" ELSE "idle"
      /\ UNCHANGED <<len, body, nextW, nextR, rxOn, rx, irqOn, read, fresh>>
  BY DEF ReleaseCount
<1>1. Queued' = Queued /\ numFree' \in 1 .. RingSize
  BY <1>0 DEF IInv, TypeOK, RingInv, Queued
<1>2. TypeOK'
  <2>1. got' \in Nat \X (Contents \cup {None})
    BY <1>0 DEF NoPacket
  <2> QED
    BY <2>1, <1>0, <1>1 DEF IInv, TypeOK
<1>3. RingInv' /\ WholeInv'
  BY <1>0, <1>1 DEF IInv, RingInv, WholeInv, Behind
<1>4. RxInv' /\ NeverDeaf' /\ ReadInv'
  BY <1>0, <1>1 DEF RxInv, NeverDeaf, ReadInv, IInv, TypeOK
<1> QED
  BY <1>2, <1>3, <1>4 DEF IInv

LEMMA StepKeeps == IInv /\ [Next]_vars => IInv'
<1> SUFFICES ASSUME IInv, [Next]_vars PROVE IInv'
  OBVIOUS
<1>1. CASE UNCHANGED vars
  <2>1. UNCHANGED <<len, body, ring, pc>> /\ (pc' = "held" => numFree < RingSize)
    BY <1>1, Zenon DEF vars, IInv, RingInv, ring
  <2>2. RingInv' /\ WholeInv'
    BY <2>1, RingKept
  <2> QED
    BY <2>2, <1>1, Zenon DEF vars, ring, IInv, TypeOK, RxInv, ReadInv, NeverDeaf
<1>2. CASE Next
  BY <1>2, ArriveKeeps, CompleteKeeps, InterruptKeeps, ReadStepsKeep,
     SwitchStepsKeep, DequeuedPktReleaseKeeps, ReleaseCountKeeps, Zenon
     DEF Next, MainLoop
<1> QED
  BY <1>1, <1>2

LEMMA Inductive == Spec => []IInv
<1> QED
  BY InitIInv, StepKeeps, PTL DEF Spec

\* Every variable keeps its type; no index or count leaves the ring.
THEOREM TypeCorrect == Spec => []TypeOK
<1>1. IInv => TypeOK
  BY DEF IInv
<1> QED
  BY <1>1, Inductive, PTL

\* The receiver is never left off while it is wanted and has room: neither a
\* release, nor a transmission, nor the interrupt between any two of their
\* steps (radio.c: DMA_ISR, radioRxDequeuedPktRelease, radioTx) loses it.
THEOREM ReceiverNeverDeaf == Spec => []NeverDeaf
<1>1. IInv => NeverDeaf
  BY DEF IInv
<1> QED
  BY <1>1, Inductive, PTL

-----------------------------------------------------------------------------
(* The ring is a queue.                                                     *)

Things == Nat \X (Contents \cup {None})

LEMMA FunctionIsSeq ==
  ASSUME NEW S, NEW n \in Nat, NEW f \in [1 .. n -> S]
  PROVE  f \in Seq(S) /\ Len(f) = n
<1>1. f \in Seq(S)
  BY SeqDef
<1>2. 1 .. Len(f) = 1 .. n /\ Len(f) \in Nat
  BY <1>1, LenProperties
<1> QED
  BY <1>1, <1>2

LEMMA WaitingIsSeq ==
  ASSUME IInv
  PROVE  /\ Waiting \in [1 .. Queued -> Things] /\ Queued \in Nat
         /\ Waiting \in Seq(Things) /\ Len(Waiting) = Queued
         /\ \A i \in 1 .. Queued : Waiting[i] =
              <<len[Behind(nextR, i - 1)], body[Behind(nextR, i - 1)]>>
<1> USE RadioAssumption
<1>1. Queued \in 0 .. RingSize /\ nextR \in Slots
  BY QueuedBound DEF IInv, TypeOK
<1>2. ASSUME NEW i \in 1 .. Queued
      PROVE  <<len[Behind(nextR, i - 1)], body[Behind(nextR, i - 1)]>> \in Things
  <2>1. i - 1 \in 0 .. RingSize /\ i - 1 < RingSize
    BY <1>1
  <2>2. Behind(nextR, i - 1) \in Slots
    BY <2>1, <1>1, BehindStep
  <2> QED
    BY <2>2 DEF IInv, TypeOK, Things
<1>3. Waiting \in [1 .. Queued -> Things]
  BY <1>2 DEF Waiting
<1>4. \A i \in 1 .. Queued : Waiting[i] =
         <<len[Behind(nextR, i - 1)], body[Behind(nextR, i - 1)]>>
  BY DEF Waiting
<1>5. Queued \in Nat
  BY <1>1
<1>6. Waiting \in Seq(Things) /\ Len(Waiting) = Queued
  BY ONLY <1>3, <1>5, FunctionIsSeq
<1> QED
  BY ONLY <1>3, <1>4, <1>5, <1>6

\* The buffer that is being filled is none of those that wait.
LEMMA BusyBuffer ==
  ASSUME IInv, rx # "off"
  PROVE  /\ Queued \in 0 .. RingSize - 1 /\ nextR \in Slots
         /\ \A i \in 0 .. Queued - 1 :
              Behind(nextR, i) \in Slots /\ Behind(nextR, i) # nextW
<1> USE RadioAssumption
<1>1. Queued \in 0 .. RingSize - 1 /\ nextR \in Slots
  BY QueuedBound DEF IInv, TypeOK, RxInv
<1> SUFFICES ASSUME NEW i \in 0 .. Queued - 1
             PROVE  Behind(nextR, i) \in Slots /\ Behind(nextR, i) # nextW
  BY <1>1
<1>2. i \in 0 .. RingSize /\ i < RingSize
  BY <1>1
<1>3. Behind(nextR, i) \in Slots
  BY <1>1, <1>2, BehindStep
<1>4. Behind(nextR, i) # Behind(nextR, Queued)
  BY <1>1, BehindDiffers
<1> QED
  BY <1>3, <1>4 DEF IInv, RingInv

\* Two queues of the same length whose buffers agree are the same.
LEMMA WaitingSame ==
  ASSUME IInv, Queued' = Queued,
         \A i \in 0 .. Queued - 1 :
           /\ len'[Behind(nextR, i)'] = len[Behind(nextR, i)]
           /\ body'[Behind(nextR, i)'] = body[Behind(nextR, i)]
  PROVE  Waiting' = Waiting
<1>1. Queued \in Nat
  BY WaitingIsSeq
<1>2. ASSUME NEW i \in 1 .. Queued
      PROVE  <<len[Behind(nextR, i - 1)], body[Behind(nextR, i - 1)]>>' =
             <<len[Behind(nextR, i - 1)], body[Behind(nextR, i - 1)]>>
  <2>1. i - 1 \in 0 .. Queued - 1
    BY <1>1
  <2> QED
    BY <2>1
<1> QED
  BY <1>2 DEF Waiting

LEMMA ReceiverRefines ==
  IInv /\ (Arrive \/ Complete) => UNCHANGED <<Waiting, Given>>
<1> SUFFICES ASSUME IInv, Arrive \/ Complete PROVE UNCHANGED <<Waiting, Given>>
  OBVIOUS
<1>0. rx # "off" /\ UNCHANGED <<nextR, numFree, pc, got>>
  BY Zenon DEF Arrive, Complete, ring
<1>1. Given' = Given /\ Queued' = Queued
  BY <1>0, Zenon DEF Given, Queued
<1>2. ASSUME NEW i \in 0 .. Queued - 1
      PROVE  /\ len'[Behind(nextR, i)] = len[Behind(nextR, i)]
             /\ body'[Behind(nextR, i)] = body[Behind(nextR, i)]
  <2>1. Behind(nextR, i) \in Slots /\ Behind(nextR, i) # nextW
    BY <1>0, BusyBuffer
  <2> QED
    BY <2>1 DEF Arrive, Complete, IInv, TypeOK
<1>3. \A i : Behind(nextR, i)' = Behind(nextR, i)
  BY <1>0 DEF Behind
<1>4. Waiting' = Waiting
  BY <1>1, <1>2, <1>3, WaitingSame
<1> QED
  BY <1>1, <1>4

LEMMA QuietRefines ==
  ASSUME IInv, UNCHANGED <<len, body, ring, got>>,
         pc = "release" <=> pc' = "release"
  PROVE  UNCHANGED <<Waiting, Given>>
  BY Zenon DEF Waiting, Given, Queued, Behind, ring

LEMMA InterruptRefines ==
  IInv /\ Interrupt => Queue!Receive \/ UNCHANGED <<Waiting, Given>>
<1> SUFFICES ASSUME IInv, Interrupt
             PROVE  Queue!Receive \/ UNCHANGED <<Waiting, Given>>
  OBVIOUS
<1> USE RadioAssumption
<1>0. rx = "done" /\ UNCHANGED <<len, body, nextR, pc, got>>
  BY DEF Interrupt
<1>1. CASE body[nextW] \notin Packets
  BY <1>0, <1>1, QuietRefines DEF Interrupt, ring
<1>2. CASE body[nextW] \in Packets
  <2> DEFINE p == <<Length[body[nextW]], body[nextW]>>
  <2>1. numFree' = numFree - 1
    BY <1>2 DEF Interrupt
  <2>2. Queued' = Queued + 1 /\ Queued \in 0 .. RingSize - 1
    <3>1. numFree \in Int /\ RingSize \in Int
      BY DEF IInv, TypeOK
    <3>2. Queued' = Queued + 1
      BY <2>1, <3>1, <1>0 DEF Queued
    <3> QED
      BY <3>2, <1>0, BusyBuffer
  <2>3. p = <<len[Behind(nextR, Queued)], body[Behind(nextR, Queued)]>>
    BY <1>0 DEF IInv, RxInv, RingInv
  <2>4. /\ Waiting \in Seq(Things) /\ Len(Waiting) = Queued
        /\ \A i \in 1 .. Queued : Waiting[i] =
             <<len[Behind(nextR, i - 1)], body[Behind(nextR, i - 1)]>>
    BY WaitingIsSeq
  <2>5. p \in Things
    BY <1>2 DEF Things, Contents
  <2>6. /\ Append(Waiting, p) \in Seq(Things)
        /\ Len(Append(Waiting, p)) = Queued + 1
        /\ \A i \in 1 .. Queued : Append(Waiting, p)[i] = Waiting[i]
        /\ Append(Waiting, p)[Queued + 1] = p
    BY <2>4, <2>5, AppendProperties
  <2>7. Waiting' = [i \in 1 .. Queued + 1 |->
                      <<len[Behind(nextR, i - 1)], body[Behind(nextR, i - 1)]>>]
    BY <2>2, <1>0 DEF Waiting, Behind
  <2>8. ASSUME NEW i \in 1 .. Queued + 1
        PROVE  Append(Waiting, p)[i] =
               <<len[Behind(nextR, i - 1)], body[Behind(nextR, i - 1)]>>
    <3>1. CASE i = Queued + 1
      <4>1. i - 1 = Queued
        BY <3>1, <2>2
      <4> QED
        BY <3>1, <4>1, <2>3, <2>6
    <3>2. CASE i \in 1 .. Queued
      BY <3>2, <2>4, <2>6
    <3>3. i = Queued + 1 \/ i \in 1 .. Queued
      BY <2>2
    <3> QED
      BY <3>1, <3>2, <3>3, Zenon
  <2>9. Append(Waiting, p) \in [1 .. Queued + 1 -> Things]
    BY <2>6, LenProperties
  <2>10. Waiting' = Append(Waiting, p)
    BY <2>7, <2>8, <2>9
  <2>11. p \in {<<Length[q], q>> : q \in Packets}
    BY <1>2
  <2>12. Len(Waiting) < RingSize
    BY <2>2, <2>4
  <2>13. Given' = Given
    BY <1>0, Zenon DEF Given
  <2> QED
    BY <2>10, <2>11, <2>12, <2>13, Zenon DEF Queue!Receive
<1> QED
  BY <1>1, <1>2

LEMMA CopyRefines == IInv /\ Copy => Queue!Read
<1> SUFFICES ASSUME IInv, Copy PROVE Queue!Read
  OBVIOUS
<1> USE RadioAssumption
<1>0. /\ pc = "held" /\ got' = <<read, body[nextR]>>
      /\ UNCHANGED <<len, body, ring, pc>>
  BY DEF Copy
<1>1. Queued \in 1 .. RingSize /\ nextR \in Slots
  BY <1>0, QueuedBound DEF IInv, TypeOK, RingInv
<1>2. Behind(nextR, 1 - 1) = nextR
  BY <1>1 DEF Behind, Slots
<1>3. /\ Waiting \in Seq(Things) /\ Len(Waiting) = Queued
      /\ Waiting[1] = <<len[Behind(nextR, 1 - 1)], body[Behind(nextR, 1 - 1)]>>
  BY <1>1, WaitingIsSeq
<1>4. Waiting # <<>> /\ Head(Waiting) = Waiting[1]
  BY <1>1, <1>3
<1>5. Given' = Head(Waiting)
  BY <1>0, <1>2, <1>3, <1>4 DEF Given, IInv, ReadInv
<1>6. Waiting' = Waiting
  BY <1>0, Zenon DEF Waiting, Queued, Behind, ring
<1> QED
  BY <1>4, <1>5, <1>6, Zenon DEF Queue!Read

LEMMA ReleaseRefines == IInv /\ DequeuedPktRelease => Queue!Release
<1> SUFFICES ASSUME IInv, DequeuedPktRelease PROVE Queue!Release
  OBVIOUS
<1> USE RadioAssumption
<1>0. /\ pc = "held" /\ pc' = "release" /\ nextR' = After(nextR)
      /\ UNCHANGED <<len, body, nextW, numFree, got>>
  BY DEF DequeuedPktRelease
<1>1. /\ Queued \in 1 .. RingSize /\ nextR \in Slots
      /\ Queued' = Queued - 1
  BY <1>0, QueuedBound DEF IInv, TypeOK, RingInv, Queued
<1>2. ASSUME NEW i \in 1 .. RingSize
      PROVE  Behind(nextR', i - 1) = Behind(nextR, i)
  <2>1. i \in 0 .. RingSize /\ i > 0
    OBVIOUS
  <2> QED
    BY <2>1, <1>0, <1>1, BehindStep
<1>3. /\ Waiting \in Seq(Things) /\ Len(Waiting) = Queued
      /\ \A i \in 1 .. Queued : Waiting[i] =
           <<len[Behind(nextR, i - 1)], body[Behind(nextR, i - 1)]>>
  BY WaitingIsSeq
<1>4. Waiting # <<>>
  BY <1>1, <1>3
<1>5. /\ Tail(Waiting) \in Seq(Things)
      /\ Len(Tail(Waiting)) = Queued - 1
      /\ \A i \in 1 .. Queued - 1 : Tail(Waiting)[i] = Waiting[i + 1]
  BY <1>3, <1>4, HeadTailProperties
<1>6. Waiting' = [i \in 1 .. Queued - 1 |->
                    <<len[Behind(nextR', i - 1)], body[Behind(nextR', i - 1)]>>]
  BY <1>0, <1>1 DEF Waiting, Behind
<1>7. ASSUME NEW i \in 1 .. Queued - 1
      PROVE  Tail(Waiting)[i] =
             <<len[Behind(nextR', i - 1)], body[Behind(nextR', i - 1)]>>
  <2>1. i \in 1 .. RingSize /\ i + 1 \in 1 .. Queued /\ (i + 1) - 1 = i
    BY <1>1
  <2>2. Waiting[i + 1] = <<len[Behind(nextR, i)], body[Behind(nextR, i)]>>
    BY <2>1, <1>3
  <2> QED
    BY <2>1, <2>2, <1>2, <1>5
<1>8. Tail(Waiting) \in [1 .. Queued - 1 -> Things]
  BY <1>5, LenProperties
<1>9. Waiting' = Tail(Waiting)
  BY <1>6, <1>7, <1>8
<1>10. Given' = NoPacket
  BY <1>0 DEF Given
<1> QED
  BY <1>4, <1>9, <1>10, Zenon DEF Queue!Release

LEMMA StepRefines ==
  IInv /\ [Next]_vars => [Queue!Next]_(Queue!queueVars)
<1> SUFFICES ASSUME IInv, [Next]_vars
             PROVE  Queue!Next \/ UNCHANGED <<Waiting, Given>>
  BY DEF Queue!queueVars
<1>1. CASE UNCHANGED vars
  <2>1. UNCHANGED <<len, body, ring, got>> /\ (pc = "release" <=> pc' = "release")
    BY <1>1, Zenon DEF vars, ring
  <2> QED
    BY <2>1, QuietRefines
<1>2. CASE Arrive \/ Complete
  BY <1>2, ReceiverRefines
<1>3. CASE Interrupt
  BY <1>3, InterruptRefines, Zenon DEF Queue!Next
<1>4. CASE DequeuePktGet \/ DequeuePktCheck
  <2>1. UNCHANGED <<len, body, ring, got>> /\ pc # "release" /\ pc' # "release"
    BY <1>4 DEF DequeuePktGet, DequeuePktCheck
  <2> QED
    BY <2>1, QuietRefines
<1>5. CASE Copy
  BY <1>5, CopyRefines, Zenon DEF Queue!Next
<1>6. CASE DequeuedPktRelease
  BY <1>6, ReleaseRefines, Zenon DEF Queue!Next
<1>7. CASE ReleaseCount
  <2>1. /\ pc = "release" /\ pc' # "release" /\ numFree' = numFree + 1
        /\ got' = NoPacket /\ UNCHANGED <<len, body, nextR>>
    BY <1>7 DEF ReleaseCount
  <2>2. Queued' = Queued
    BY <2>1, RadioAssumption DEF Queued, IInv, TypeOK
  <2>3. Waiting' = Waiting
    BY <2>1, <2>2, Zenon DEF Waiting, Behind
  <2>4. Given' = Given
    BY <2>1 DEF Given
  <2> QED
    BY <2>3, <2>4
<1>8. CASE Restart \/ Tx \/ TxDone \/ RxEnable \/ RxDisable
  <2>1. UNCHANGED <<len, body, ring, got>> /\ pc # "release" /\ pc' # "release"
    BY <1>8 DEF Restart, Tx, TxDone, RxEnable, RxDisable
  <2> QED
    BY <2>1, QuietRefines
<1> QED
  BY <1>1, <1>2, <1>3, <1>4, <1>5, <1>6, <1>7, <1>8, Zenon DEF Next, MainLoop

\* The ring of buffers is a queue: packets are given to commsRx whole, each
\* with its own length, in the order in which they were received, and none is
\* overwritten while it waits.
THEOREM RingIsAQueue == Spec => ImplementsQueue
<1>1. Init => Queue!Init
  <2> SUFFICES ASSUME Init PROVE Waiting = <<>> /\ Given = NoPacket
    BY Zenon DEF Queue!Init
  <2>1. IInv /\ Queued = 0
    BY InitIInv, RadioAssumption DEF Init, Queued
  <2>2. Waiting \in Seq(Things) /\ Len(Waiting) = 0
    BY <2>1, WaitingIsSeq
  <2>3. Waiting = <<>>
    BY <2>2, EmptySeq
  <2> QED
    BY <2>3 DEF Init, Given
<1> QED
  BY <1>1, Inductive, StepRefines, PTL DEF Spec, ImplementsQueue, Queue!Spec

=============================================================================

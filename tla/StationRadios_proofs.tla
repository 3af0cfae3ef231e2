------------------------ MODULE StationRadios_proofs ------------------------
(***************************************************************************)
(* Proofs about StationRadios, for rings of any size: each ring is a queue, *)
(* the 2.4 GHz receiver stalls only without a free buffer, and the sub-GHz  *)
(* receiver only when a transfer that was to start it failed, provided that *)
(* no other station's frame asks for an acknowledgement.                    *)
(***************************************************************************)
EXTENDS StationRadios, SequenceTheorems, TLAPS

-----------------------------------------------------------------------------
(* The inductive invariant.                                                 *)

\* The counts add up, the writing index is as far behind the reading one as
\* packets wait, and these are packets of ours.
RingInv(r) ==
  /\ numFree[r] + numGot[r] = MaxRx
  /\ nextWrite[r] = Behind(First(r), numGot[r])
  /\ \A i \in 0 .. numGot[r] - 1 : bufs[r][Behind(First(r), i)] \in Mine
  /\ Taken(r) => numGot[r] > 0 /\ pkt = bufs[r][First(r)]

\* The 2.4 GHz radio receives only with a buffer to write to.
RxInv == rx["nrf"] # "off" => numFree["nrf"] > 0

MainInv ==
  /\ pc = "resume" => radio = "nrf"
  /\ pc = "wait" => tries > 0

IInv == /\ TypeOK /\ (\A r \in Radios : RingInv(r))
        /\ RxInv /\ MainInv /\ NrfListens

-----------------------------------------------------------------------------
(* Arithmetic of a ring.                                                    *)

LEMMA RingStep ==
  ASSUME NEW b \in Slots
  PROVE  /\ After(b) \in Slots /\ Before(b) \in Slots
         /\ Before(After(b)) = b /\ After(Before(b)) = b
         /\ Behind(b, 0) = b
  BY RadiosAssumption DEF After, Before, Behind, Slots

LEMMA BehindStep ==
  ASSUME NEW b \in Slots, NEW i \in 0 .. MaxRx
  PROVE  /\ i < MaxRx => Behind(b, i) \in Slots
         /\ i < MaxRx => After(Behind(b, i)) = Behind(b, i + 1)
         /\ i > 0 => Behind(After(b), i - 1) = Behind(b, i)
  BY RadiosAssumption DEF After, Behind, Slots

LEMMA BehindDiffers ==
  ASSUME NEW b \in Slots, NEW i \in 0 .. MaxRx - 1, NEW j \in 0 .. MaxRx - 1,
         i # j
  PROVE  Behind(b, i) # Behind(b, j)
  BY RadiosAssumption DEF Behind, Slots

LEMMA FirstInRing ==
  ASSUME IInv, NEW r \in Radios
  PROVE  /\ First(r) \in Slots /\ numGot[r] \in 0 .. MaxRx
         /\ numFree[r] \in 0 .. MaxRx /\ numGot[r] = MaxRx - numFree[r]
<1>1. /\ nextRead[r] \in Slots /\ numGot[r] \in 0 .. MaxRx
      /\ numFree[r] \in 0 .. MaxRx /\ numFree[r] + numGot[r] = MaxRx
  BY DEF IInv, TypeOK, RingInv
<1>2. First(r) \in Slots
  BY <1>1, RingStep DEF First
<1> QED
  BY <1>1, <1>2, RadiosAssumption

-----------------------------------------------------------------------------
(* The invariant holds.                                                     *)

LEMMA InitIInv == Init => IInv
<1> SUFFICES ASSUME Init PROVE IInv
  OBVIOUS
<1> USE RadiosAssumption DEF Init
<1>1. TypeOK
  BY DEF TypeOK, Slots, Radios
<1>2. ASSUME NEW r \in Radios PROVE RingInv(r)
  BY DEF RingInv, First, Taken, Behind, Radios
<1>3. RxInv /\ MainInv /\ NrfListens
  BY DEF RxInv, MainInv, NrfListens, Radios
<1> QED
  BY <1>1, <1>2, <1>3 DEF IInv

\* Rings stay as they are when nothing touches them.
LEMMA RingKept ==
  ASSUME NEW r \in Radios, RingInv(r), UNCHANGED ring,
         \/ pc # "count" /\ pc' # "count"
         \/ UNCHANGED <<pc, radio, pkt>>
  PROVE  RingInv(r)' /\ Waiting(r)' = Waiting(r) /\ Given(r)' = Given(r)
<1>1. Taken(r)' = Taken(r) /\ (Taken(r) => pkt' = pkt)
  BY Zenon DEF Taken
<1>2. First(r)' = First(r)
  BY <1>1, Zenon DEF First, ring
<1> QED
  BY <1>1, <1>2, Zenon DEF RingInv, Behind, Waiting, Given, ring

\* What a handler does with a frame, when there is a buffer for it.
LEMMA TakeKeeps ==
  ASSUME IInv, NEW r \in Radios, NEW f \in Frames, numFree[r] > 0,
         Take(r, f), UNCHANGED main
  PROVE  /\ \A q \in Radios : RingInv(q)'
         /\ bufs' \in [Radios -> [Slots -> Mine \cup {None}]]
         /\ nextWrite' \in [Radios -> Slots] /\ nextRead' \in [Radios -> Slots]
         /\ numFree' \in [Radios -> 0 .. MaxRx] /\ numGot' \in [Radios -> 0 .. MaxRx]
         /\ lastAck' \in [Radios -> Seqs \cup {None}]
<1> USE RadiosAssumption
<1>0. /\ bufs \in [Radios -> [Slots -> Mine \cup {None}]]
      /\ nextWrite \in [Radios -> Slots] /\ nextRead \in [Radios -> Slots]
      /\ numFree \in [Radios -> 0 .. MaxRx] /\ numGot \in [Radios -> 0 .. MaxRx]
      /\ lastAck \in [Radios -> Seqs \cup {None}]
  BY DEF IInv, TypeOK
<1>1. /\ First(r) \in Slots /\ numGot[r] \in 0 .. MaxRx - 1
      /\ numFree[r] \in 1 .. MaxRx /\ numGot[r] = MaxRx - numFree[r]
  BY FirstInRing
<1>2. nextWrite[r] = Behind(First(r), numGot[r]) /\ nextWrite[r] \in Slots
  BY <1>0 DEF IInv, RingInv
<1>3. After(nextWrite[r]) = Behind(First(r), numGot[r] + 1) /\ After(nextWrite[r]) \in Slots
  BY <1>1, <1>2, BehindStep, RingStep
<1>4. bufs' = [bufs EXCEPT ![r] = [bufs[r] EXCEPT ![nextWrite[r]] =
                                     IF f \in Mine THEN f ELSE None]]
  BY <1>0, <1>2 DEF Take
<1>5. \A q \in Radios : First(q)' = First(q) /\ (Taken(q)' <=> Taken(q)) /\ pkt' = pkt
  BY Zenon DEF First, Taken, Take, main
<1>6. ASSUME NEW i \in 0 .. numGot[r] - 1
      PROVE  bufs'[r][Behind(First(r), i)] = bufs[r][Behind(First(r), i)]
  <2>1. Behind(First(r), i) # nextWrite[r]
    BY <1>1, <1>2, BehindDiffers
  <2> QED
    BY <2>1, <1>0, <1>4
<1>7. bufs'[r][nextWrite[r]] = IF f \in Mine THEN f ELSE None
  BY <1>0, <1>2, <1>4
<1>8. /\ bufs' \in [Radios -> [Slots -> Mine \cup {None}]]
      /\ nextRead' \in [Radios -> Slots]
      /\ lastAck' \in [Radios -> Seqs \cup {None}]
  BY <1>0, <1>4 DEF Take
<1>9. /\ nextWrite' \in [Radios -> Slots]
      /\ numFree' \in [Radios -> 0 .. MaxRx] /\ numGot' \in [Radios -> 0 .. MaxRx]
  <2>1. numFree[r] - 1 \in 0 .. MaxRx /\ numGot[r] + 1 \in 0 .. MaxRx
    BY <1>1
  <2>2. CASE UNCHANGED <<numFree, nextWrite, numGot>>
    BY <2>2, <1>0
  <2>3. CASE /\ numFree' = [numFree EXCEPT ![r] = numFree[r] - 1]
             /\ nextWrite' = [nextWrite EXCEPT ![r] = After(nextWrite[r])]
             /\ numGot' = [numGot EXCEPT ![r] = numGot[r] + 1]
    BY <2>1, <2>3, <1>0, <1>3, Zenon
  <2> QED
    BY <2>2, <2>3 DEF Take
<1>10. ASSUME NEW q \in Radios, q # r PROVE RingInv(q)'
  <2>1. /\ bufs'[q] = bufs[q] /\ nextWrite'[q] = nextWrite[q]
        /\ numFree'[q] = numFree[q] /\ numGot'[q] = numGot[q]
    BY <1>0, <1>10, <1>4 DEF Take
  <2>2. RingInv(q)
    BY DEF IInv
  <2> QED
    BY <2>1, <2>2, <1>5, Zenon DEF RingInv, Behind
<1>11. RingInv(r)'
  <2>1. /\ Taken(r) => numGot[r] > 0 /\ pkt = bufs[r][First(r)]
        /\ \A i \in 0 .. numGot[r] - 1 : bufs[r][Behind(First(r), i)] \in Mine
    BY DEF IInv, RingInv
  <2>2. Taken(r) => bufs'[r][First(r)] = bufs[r][First(r)]
    <3>1. Behind(First(r), 0) = First(r)
      BY <1>1, RingStep
    <3> QED
      BY <3>1, <2>1, <1>1, <1>6
  <2>3. CASE f \in Mine
    <3>1. /\ numFree'[r] = numFree[r] - 1 /\ numGot'[r] = numGot[r] + 1
          /\ nextWrite'[r] = After(nextWrite[r])
      BY <2>3, <1>0 DEF Take, Frames
    <3>2. ASSUME NEW i \in 0 .. numGot[r] PROVE bufs'[r][Behind(First(r), i)] \in Mine
      <4>1. CASE i = numGot[r]
        BY <4>1, <2>3, <1>2, <1>7
      <4>2. CASE i # numGot[r]
        <5>1. i \in 0 .. numGot[r] - 1
          BY <4>2, <1>1
        <5> QED
          BY <5>1, <2>1, <1>6
      <4> QED
        BY <4>1, <4>2
    <3>3. numFree'[r] + numGot'[r] = MaxRx /\ numGot'[r] - 1 = numGot[r]
      BY <3>1, <1>1
    <3>4. nextWrite'[r] = Behind(First(r), numGot'[r])
      BY <3>1, <1>3
    <3>5. Taken(r) => numGot'[r] > 0 /\ pkt = bufs'[r][First(r)]
      BY <3>1, <2>1, <2>2, <1>1
    <3> QED
      BY <3>2, <3>3, <3>4, <3>5, <1>5 DEF RingInv, Behind
  <2>4. CASE f \notin Mine
    <3>1. numFree' = numFree /\ numGot' = numGot /\ nextWrite' = nextWrite
      BY <2>4 DEF Take
    <3>2. \A i \in 0 .. numGot[r] - 1 : bufs'[r][Behind(First(r), i)] \in Mine
      BY <2>1, <1>6
    <3>3. RingInv(r)
      BY DEF IInv
    <3> QED
      BY <3>1, <3>2, <3>3, <2>2, <1>5 DEF RingInv, Behind
  <2> QED
    BY <2>3, <2>4
<1> QED
  BY <1>8, <1>9, <1>10, <1>11
LEMMA HandlersKeep == IInv /\ Handlers => IInv'
<1> SUFFICES ASSUME IInv, Handlers PROVE IInv'
  OBVIOUS
<1> USE RadiosAssumption
<1>0. UNCHANGED main
  BY Zenon DEF Handlers, Arrive, NrfHandler, TiHandler
<1>1. CASE \E r \in Radios : Arrive(r)
  <2>1. PICK r \in Radios : Arrive(r)
    BY <1>1
  <2>2. /\ UNCHANGED <<ring, lastAck, main>> /\ rx[r] = "listening"
        /\ rx' = [rx EXCEPT ![r] = "frame"]
    BY <2>1 DEF Arrive
  <2>3. ASSUME NEW q \in Radios PROVE RingInv(q)'
    <3>1. UNCHANGED ring /\ UNCHANGED <<pc, radio, pkt>>
      BY <2>2 DEF main
    <3> QED
      BY <3>1, RingKept DEF IInv
  <2>4. TypeOK'
    BY <2>2 DEF IInv, TypeOK, ring, main
  <2>5. RxInv' /\ NrfListens' /\ MainInv'
    BY <2>2 DEF IInv, RxInv, NrfListens, Sending, MainInv, TypeOK, ring, main
  <2> QED
    BY <2>3, <2>4, <2>5 DEF IInv
<1>2. CASE NrfHandler
  <2>1. PICK f \in Frames : Take("nrf", f)
    BY <1>2 DEF NrfHandler
  <2>2. /\ rx["nrf"] = "frame" /\ "nrf" \in Radios /\ numFree["nrf"] > 0
        /\ rx' = [rx EXCEPT !["nrf"] = IF numFree'["nrf"] > 0 THEN "listening" ELSE "off"]
    BY <1>2 DEF NrfHandler, Radios, IInv, RxInv
  <2>3. /\ \A q \in Radios : RingInv(q)'
        /\ bufs' \in [Radios -> [Slots -> Mine \cup {None}]]
        /\ nextWrite' \in [Radios -> Slots] /\ nextRead' \in [Radios -> Slots]
        /\ numFree' \in [Radios -> 0 .. MaxRx] /\ numGot' \in [Radios -> 0 .. MaxRx]
        /\ lastAck' \in [Radios -> Seqs \cup {None}]
    BY <2>1, <2>2, <1>0, TakeKeeps
  <2>4. rx' \in [Radios -> {"off", "listening", "frame", "failed"}]
    BY <2>2 DEF IInv, TypeOK
  <2>5. TypeOK'
    BY <2>3, <2>4, <1>0, Zenon DEF IInv, TypeOK, main
  <2>6. RxInv' /\ NrfListens' /\ MainInv'
    <3>1. /\ rx'["nrf"] = IF numFree'["nrf"] > 0 THEN "listening" ELSE "off"
          /\ numFree'["nrf"] \in 0 .. MaxRx
      BY <2>2, <2>3 DEF IInv, TypeOK
    <3> QED
      BY <3>1, <1>0 DEF IInv, RxInv, NrfListens, MainInv, main
  <2> QED
    BY <2>3, <2>5, <2>6 DEF IInv
<1>3. CASE \E f \in Frames :
             /\ numFree["ti"] > 0 /\ Take("ti", f)
             /\ TiBecomes(IF NotAnswered(f) THEN {"off"} ELSE Strobed)
  <2>1. PICK f \in Frames, s \in {"off", "listening", "failed"} :
          numFree["ti"] > 0 /\ Take("ti", f) /\ rx' = [rx EXCEPT !["ti"] = s]
    BY <1>3 DEF TiBecomes, Strobed
  <2>2. "ti" \in Radios /\ "nrf" \in Radios /\ "ti" # "nrf"
    BY DEF Radios
  <2>3. /\ \A q \in Radios : RingInv(q)'
        /\ bufs' \in [Radios -> [Slots -> Mine \cup {None}]]
        /\ nextWrite' \in [Radios -> Slots] /\ nextRead' \in [Radios -> Slots]
        /\ numFree' \in [Radios -> 0 .. MaxRx] /\ numGot' \in [Radios -> 0 .. MaxRx]
        /\ lastAck' \in [Radios -> Seqs \cup {None}]
    BY <2>1, <2>2, <1>0, TakeKeeps
  <2>4. rx' \in [Radios -> {"off", "listening", "frame", "failed"}] /\ rx'["nrf"] = rx["nrf"]
    BY <2>1, <2>2 DEF IInv, TypeOK
  <2>5. TypeOK'
    BY <2>3, <2>4, <1>0, Zenon DEF IInv, TypeOK, main
  <2>6. numFree'["nrf"] = numFree["nrf"]
    BY <2>1, <2>2 DEF Take, IInv, TypeOK
  <2>7. RxInv' /\ NrfListens' /\ MainInv'
    BY <2>4, <2>6, <1>0 DEF IInv, RxInv, NrfListens, Sending, MainInv, main
  <2> QED
    BY <2>3, <2>5, <2>7 DEF IInv
<1>4. CASE TiBecomes(Strobed) /\ UNCHANGED <<ring, lastAck>>
  <2>1. PICK s \in {"listening", "failed"} : rx' = [rx EXCEPT !["ti"] = s]
    BY <1>4 DEF TiBecomes, Strobed
  <2>3. ASSUME NEW q \in Radios PROVE RingInv(q)'
    <3>1. UNCHANGED ring /\ UNCHANGED <<pc, radio, pkt>>
      BY <1>4, <1>0 DEF main
    <3> QED
      BY <3>1, RingKept DEF IInv
  <2>4. TypeOK'
    BY <2>1, <1>0, <1>4 DEF IInv, TypeOK, ring, main
  <2>5. RxInv' /\ NrfListens' /\ MainInv'
    BY <2>1, <1>0, <1>4 DEF IInv, RxInv, NrfListens, Sending, MainInv, TypeOK, Radios, ring, main
  <2> QED
    BY <2>3, <2>4, <2>5 DEF IInv
<1>5. TiHandler =>
        \/ \E f \in Frames :
             /\ numFree["ti"] > 0 /\ Take("ti", f)
             /\ TiBecomes(IF NotAnswered(f) THEN {"off"} ELSE Strobed)
        \/ TiBecomes(Strobed) /\ UNCHANGED <<ring, lastAck>>
  BY Zenon DEF TiHandler
<1> QED
  BY <1>1, <1>2, <1>3, <1>4, <1>5 DEF Handlers

\* Taking a packet out of a ring.
LEMMA DequeueKeeps ==
  ASSUME IInv, NEW r \in Radios, Dequeue(r), pc \in {"poll", "pollTi"}
  PROVE  IInv' /\ First(r)' = First(r) /\ pkt' = bufs[r][First(r)]
<1> USE RadiosAssumption
<1>0. /\ numGot[r] > 0 /\ pkt' = bufs[r][nextRead[r]]
      /\ nextRead' = [nextRead EXCEPT ![r] = After(nextRead[r])]
      /\ radio' = r /\ pc' = "count"
      /\ UNCHANGED <<bufs, nextWrite, numFree, numGot, rx, lastAck, seq, tries>>
  BY DEF Dequeue, air
<1>1. /\ First(r) = nextRead[r] /\ nextRead[r] \in Slots
      /\ ~Taken(r) /\ Taken(r)' /\ nextRead'[r] = After(nextRead[r])
  BY <1>0 DEF First, Taken, IInv, TypeOK
<1>2. First(r)' = First(r)
  BY <1>1, RingStep DEF First
<1>3. pkt' = bufs[r][First(r)] /\ bufs[r][First(r)] \in Mine
  <2>1. 0 \in 0 .. numGot[r] - 1
    BY <1>0 DEF IInv, TypeOK
  <2>2. bufs[r][Behind(First(r), 0)] \in Mine
    BY <2>1 DEF IInv, RingInv
  <2> QED
    BY <2>2, <1>0, <1>1, RingStep
<1>4. nextRead' \in [Radios -> Slots]
  BY <1>0, <1>1, RingStep DEF IInv, TypeOK
<1>5. TypeOK'
  BY <1>0, <1>3, <1>4, Zenon DEF IInv, TypeOK
<1>6. RingInv(r)'
  <2>1. RingInv(r)
    BY DEF IInv
  <2> QED
    BY <2>1, <1>0, <1>2, <1>3, Zenon DEF RingInv, Behind
<1>7. ASSUME NEW q \in Radios, q # r PROVE RingInv(q)'
  <2>1. RingInv(q) /\ nextRead'[q] = nextRead[q]
    BY <1>0, <1>7 DEF IInv, TypeOK
  <2>2. ~Taken(q) /\ ~Taken(q)' /\ First(q)' = First(q)
    BY <2>1, <1>0, <1>7 DEF Taken, First
  <2> QED
    BY <2>1, <2>2, <1>0, Zenon DEF RingInv, Behind
<1>8. RxInv' /\ NrfListens' /\ MainInv'
  BY <1>0 DEF IInv, RxInv, NrfListens, Sending, MainInv
<1> QED
  BY <1>2, <1>3, <1>5, <1>6, <1>7, <1>8 DEF IInv

LEMMA CountKeeps ==
  ASSUME IInv, Count, NEW r \in Radios, radio = r
  PROVE  /\ IInv'
         /\ First(r)' = After(First(r)) /\ numGot'[r] = numGot[r] - 1
         /\ \A i \in 1 .. numGot[r] - 1 :
              bufs'[r][Behind(First(r), i)] = bufs[r][Behind(First(r), i)]
<1> USE RadiosAssumption
<1>0. /\ pc = "count" /\ pc' = IF r = "nrf" THEN "resume" ELSE "handle"
      /\ bufs' = [bufs EXCEPT ![r] = [bufs[r] EXCEPT ![Before(nextRead[r])] = None]]
      /\ numFree' = [numFree EXCEPT ![r] = numFree[r] + 1]
      /\ numGot' = [numGot EXCEPT ![r] = numGot[r] - 1]
      /\ UNCHANGED <<nextWrite, nextRead, rx, lastAck, radio, pkt, seq, tries>>
  BY DEF Count, IInv, TypeOK, air
<1>1. /\ r \in Radios /\ Taken(r) /\ ~Taken(r)' /\ First(r) = Before(nextRead[r])
      /\ nextRead[r] \in Slots /\ RingInv(r)
  BY <1>0 DEF Taken, First, IInv, TypeOK
<1>2. /\ First(r) \in Slots /\ numGot[r] \in 1 .. MaxRx
      /\ numFree[r] = MaxRx - numGot[r]
  BY <1>1, FirstInRing DEF RingInv
<1>3. First(r)' = After(First(r)) /\ First(r)' = nextRead[r]
  BY <1>0, <1>1, RingStep DEF First, Taken
<1>4. numFree'[r] = numFree[r] + 1 /\ numGot'[r] = numGot[r] - 1
  BY <1>0, <1>1 DEF IInv, TypeOK
<1>5. ASSUME NEW i \in 1 .. numGot[r] - 1
      PROVE  bufs'[r][Behind(First(r), i)] = bufs[r][Behind(First(r), i)]
  <2>1. i \in 0 .. MaxRx - 1 /\ 0 \in 0 .. MaxRx - 1 /\ i # 0
    BY <1>2
  <2>2. Behind(First(r), i) # First(r)
    BY <2>1, <1>2, BehindDiffers, RingStep
  <2> QED
    BY <2>2, <1>0, <1>1 DEF IInv, TypeOK
<1>6. TypeOK'
  <2>1. bufs' \in [Radios -> [Slots -> Mine \cup {None}]]
    BY <1>0, <1>1, <1>2 DEF IInv, TypeOK
  <2>2. numFree[r] + 1 \in 0 .. MaxRx /\ numGot[r] - 1 \in 0 .. MaxRx
    BY <1>2
  <2>3. numFree' \in [Radios -> 0 .. MaxRx] /\ numGot' \in [Radios -> 0 .. MaxRx]
    BY <2>2, <1>0, <1>1, Zenon DEF IInv, TypeOK
  <2> QED
    BY <2>1, <2>3, <1>0, Zenon DEF IInv, TypeOK
<1>7. ASSUME NEW i \in 1 .. MaxRx
      PROVE  Behind(First(r)', i - 1) = Behind(First(r), i)
  <2>1. i \in 0 .. MaxRx /\ i > 0
    OBVIOUS
  <2> QED
    BY <2>1, <1>2, <1>3, BehindStep
<1>8. RingInv(r)'
  <2>1. numFree'[r] + numGot'[r] = MaxRx
    BY <1>2, <1>4
  <2>2. nextWrite'[r] = Behind(First(r)', numGot'[r])
    BY <1>0, <1>1, <1>2, <1>4, <1>7 DEF RingInv
  <2>3. ASSUME NEW i \in 0 .. numGot'[r] - 1
        PROVE  bufs'[r][Behind(First(r)', i)] \in Mine
    <3>1. i + 1 \in 1 .. numGot[r] - 1 /\ i + 1 \in 1 .. MaxRx /\ (i + 1) - 1 = i
      BY <1>2, <1>4
    <3>2. Behind(First(r)', i) = Behind(First(r), i + 1)
      BY <3>1, <1>7
    <3>3. bufs[r][Behind(First(r), i + 1)] \in Mine
      BY <3>1, <1>1, <1>2 DEF RingInv
    <3> QED
      BY <3>1, <3>2, <3>3, <1>5
  <2> QED
    BY <2>1, <2>2, <2>3, <1>0, <1>1 DEF RingInv, Behind
<1>9. ASSUME NEW q \in Radios, q # r PROVE RingInv(q)'
  <2>1. /\ RingInv(q) /\ bufs'[q] = bufs[q]
        /\ numFree'[q] = numFree[q] /\ numGot'[q] = numGot[q]
    BY <1>0, <1>9 DEF IInv, TypeOK
  <2>2. ~Taken(q) /\ ~Taken(q)' /\ First(q)' = First(q)
    BY <1>0, <1>9, Zenon DEF Taken, First
  <2> QED
    BY <2>1, <2>2, <1>0, Zenon DEF RingInv, Behind
<1>10. MainInv'
  BY <1>0 DEF MainInv
<1>11. RxInv' /\ NrfListens'
  <2>1. CASE r = "nrf"
    BY <2>1, <1>0, <1>2, <1>4 DEF IInv, RxInv, NrfListens
  <2>2. CASE r # "nrf"
    <3>1. numFree'["nrf"] = numFree["nrf"]
      BY <2>2, <1>0 DEF IInv, TypeOK, Radios
    <3> QED
      BY <3>1, <1>0 DEF IInv, RxInv, NrfListens, Sending
  <2> QED
    BY <2>1, <2>2
<1>12. IInv'
  <2>1. \A q \in Radios : RingInv(q)'
    BY <1>8, <1>9, Zenon
  <2> QED
    BY <2>1, <1>6, <1>10, <1>11 DEF IInv
<1> QED
  BY <1>3, <1>4, <1>5, <1>12

\* The steps of the main loop that leave the rings alone.
QuietStep ==
  \/ (PollNrf /\ numGot["nrf"] = 0)
  \/ (PollTi /\ numGot["ti"] = 0)
  \/ Resume \/ Handle \/ AckReset \/ SendStart \/ SendEnd \/ Acked \/ TimeOut

LEMMA QuietSteps ==
  QuietStep => UNCHANGED ring /\ pc # "count" /\ pc' # "count"
  BY DEF QuietStep, PollNrf, PollTi, Dequeue, Resume, Handle, AckReset,
         SendStart, SendEnd, GiveUpAnswer, Acked, TimeOut

LEMMA QuietKeeps == IInv /\ QuietStep => IInv'
<1> SUFFICES ASSUME IInv, QuietStep PROVE IInv'
  OBVIOUS
<1> USE RadiosAssumption
<1>1. UNCHANGED ring /\ pc # "count" /\ pc' # "count"
  BY QuietSteps
<1>2. ASSUME NEW q \in Radios PROVE RingInv(q)'
  BY <1>1, RingKept DEF IInv
<1>3. TypeOK'
  <2>1. /\ rx' \in [Radios -> {"off", "listening", "frame", "failed"}]
        /\ lastAck' \in [Radios -> Seqs \cup {None}]
    BY DEF QuietStep, PollNrf, PollTi, Dequeue, Resume, Handle, AckReset, air,
           SendStart, SendEnd, GiveUpAnswer, TiBecomes, Strobed,
           Acked, TimeOut, QueueUpRx, IInv, TypeOK
  <2>2. /\ pc' \in {"poll", "pollTi", "count", "resume", "handle", "ackReset",
                    "send", "sending", "wait"}
        /\ radio' \in Radios /\ pkt' \in Mine \cup {None} /\ seq' \in Seqs
    BY DEF QuietStep, PollNrf, PollTi, Dequeue, Resume, Handle, AckReset,
           SendStart, SendEnd, GiveUpAnswer, Acked, TimeOut, IInv, TypeOK
  <2>3. tries' \in 0 .. MaxTries
    BY DEF QuietStep, PollNrf, PollTi, Dequeue, Resume, Handle, AckReset,
           SendStart, SendEnd, GiveUpAnswer, Acked, TimeOut, IInv, TypeOK, MainInv
  <2> QED
    BY <2>1, <2>2, <2>3, <1>1, Zenon DEF IInv, TypeOK, ring
<1>4. MainInv'
  BY DEF QuietStep, PollNrf, PollTi, Dequeue, Resume, Handle, AckReset,
         SendStart, SendEnd, GiveUpAnswer, Acked, TimeOut, IInv, TypeOK, MainInv
<1>5. RxInv' /\ NrfListens'
  <2>1. numFree'["nrf"] = numFree["nrf"] /\ "nrf" \in Radios
    BY <1>1 DEF ring, Radios
  <2>2. CASE UNCHANGED rx /\ pc \notin {"resume", "sending"} 
    BY <2>1, <2>2 DEF IInv, RxInv, NrfListens, Sending
  <2>3. CASE Resume
    BY <2>1, <2>3 DEF Resume, QueueUpRx, IInv, TypeOK, RxInv, NrfListens
  <2>4. CASE SendStart
    BY <2>1, <2>4 DEF SendStart, IInv, TypeOK, RxInv, NrfListens, Sending
  <2>5. CASE SendEnd
    BY <2>1, <2>5 DEF SendEnd, TiBecomes, QueueUpRx, IInv, TypeOK, RxInv, NrfListens, Sending
  <2> QED
    BY <2>2, <2>3, <2>4, <2>5
       DEF QuietStep, PollNrf, PollTi, Dequeue, Handle, AckReset, Acked, TimeOut, air
<1> QED
  BY <1>2, <1>3, <1>4, <1>5 DEF IInv

\* The steps by kind.
LEMMA StepCases ==
  Next => \/ Handlers
          \/ \E r \in Radios : Dequeue(r) /\ pc \in {"poll", "pollTi"}
          \/ Count
          \/ QuietStep
<1> SUFFICES ASSUME Next
             PROVE  \/ Handlers
                    \/ \E r \in Radios : Dequeue(r) /\ pc \in {"poll", "pollTi"}
                    \/ Count
                    \/ QuietStep
  OBVIOUS
<1>1. "nrf" \in Radios /\ "ti" \in Radios
  BY DEF Radios
<1>2. PollNrf => pc = "poll" /\ (Dequeue("nrf") \/ numGot["nrf"] = 0)
  BY Zenon DEF PollNrf
<1>3. PollTi => pc = "pollTi" /\ (Dequeue("ti") \/ numGot["ti"] = 0)
  BY Zenon DEF PollTi
<1>4. CASE PollNrf
  <2>1. pc \in {"poll", "pollTi"}
    BY <1>2, <1>4
  <2> QED
    BY <2>1, <1>1, <1>2, <1>4, Zenon DEF QuietStep
<1>5. CASE PollTi
  <2>1. pc \in {"poll", "pollTi"}
    BY <1>3, <1>5
  <2>2. CASE Dequeue("ti")
    BY <2>1, <2>2, <1>1
  <2>3. CASE numGot["ti"] = 0
    BY <2>3, <1>5, Zenon DEF QuietStep
  <2> QED
    BY <2>2, <2>3, <1>3, <1>5
<1> QED
  BY <1>4, <1>5, Zenon DEF Next, MainLoop, QuietStep

LEMMA StepKeeps == IInv /\ [Next]_vars => IInv'
<1> SUFFICES ASSUME IInv, [Next]_vars PROVE IInv'
  OBVIOUS
<1>1. CASE UNCHANGED vars
  <2>1. UNCHANGED ring /\ UNCHANGED <<pc, radio, pkt>>
    BY <1>1, Zenon DEF vars, main
  <2>2. \A q \in Radios : RingInv(q)'
    BY <2>1, RingKept DEF IInv
  <2> QED
    BY <2>2, <1>1, Zenon DEF vars, ring, air, main, IInv, TypeOK, RxInv, MainInv,
                             NrfListens, Sending
<1>2. CASE Next
  <2>1. radio \in Radios
    BY DEF IInv, TypeOK
  <2>2. Count => IInv'
    BY <2>1, CountKeeps
  <2> QED
    BY <1>2, <2>2, StepCases, HandlersKeep, DequeueKeeps, QuietKeeps
<1> QED
  BY <1>1, <1>2

LEMMA Inductive == Spec => []IInv
<1> QED
  BY InitIInv, StepKeeps, PTL DEF Spec

\* Every variable keeps its type: no index or count leaves its ring.
THEOREM TypeCorrect == Spec => []TypeOK
<1>1. IInv => TypeOK
  BY DEF IInv
<1> QED
  BY <1>1, Inductive, PTL

\* The 2.4 GHz receiver (radio.c) stalls only without a free buffer, and the
\* dequeue that frees one starts it again.
THEOREM NrfNeverDeaf == Spec => []NrfListens
<1>1. IInv => NrfListens
  BY DEF IInv
<1> QED
  BY <1>1, Inductive, PTL

\* The sub-GHz receiver (tiRadio.c) is off only while the station transmits or
\* after a transfer that was to start it failed, if no frame for somebody else
\* asks for an acknowledgement.  These two are the whole of the difference
\* between the code and the comment at the end of tiRadioRxDequeuePkt, which
\* knows of no stall at all: either makes it false.
THEOREM TiNeverDeaf ==
  ASSUME Others \cap WantAck = {}
  PROVE  Spec => []TiListens
<1> DEFINE Inv == TypeOK /\ TiListens
<1>1. Init => Inv
  BY InitIInv DEF Init, IInv, TiListens, Radios
<1>2. ASSUME TypeOK, TypeOK', Inv, [Next]_vars PROVE Inv'
  <2> USE RadiosAssumption
  <2>0. "ti" \in Radios /\ "nrf" \in Radios
    BY DEF Radios
  <2>1. CASE UNCHANGED vars
    BY <1>2, <2>1, Zenon DEF vars, air, main, TiListens, Sending
  <2>2. CASE Handlers
    <3>1. UNCHANGED main
      BY <2>2, Zenon DEF Handlers, Arrive, NrfHandler, TiHandler
    <3>2. rx'["ti"] = "off" => rx["ti"] = "off"
      <4>1. CASE \E r \in Radios : Arrive(r)
        BY <4>1, <1>2 DEF Arrive, TypeOK
      <4>2. CASE NrfHandler
        BY <4>2, <1>2 DEF NrfHandler, TypeOK
      <4>3. CASE TiHandler
        BY <4>3, <1>2, <2>0 DEF TiHandler, TiBecomes, Strobed, NotAnswered, TypeOK, Frames
      <4> QED
        BY <4>1, <4>2, <4>3, <2>2 DEF Handlers
    <3> QED
      BY <3>1, <3>2, <1>2 DEF main, TiListens, Sending
  <2>3. CASE \E r \in Radios : Dequeue(r) /\ pc \in {"poll", "pollTi"}
    BY <2>3, <1>2 DEF Dequeue, air, TiListens, Sending
  <2>4. CASE Count
    BY <2>4, <1>2 DEF Count, air, TiListens, Sending
  <2>5. CASE QuietStep
    BY <2>5, <2>0, <1>2
       DEF QuietStep, PollNrf, PollTi, Dequeue, Resume, Handle, AckReset, air,
           SendStart, SendEnd, GiveUpAnswer, TiBecomes, Strobed,
           Acked, TimeOut, QueueUpRx, TypeOK, TiListens, Sending
  <2> QED
    BY <2>1, <2>2, <2>3, <2>4, <2>5, <1>2, StepCases
<1>3. Inv => TiListens
  OBVIOUS
<1> QED
  BY <1>1, <1>2, <1>3, TypeCorrect, PTL DEF Spec

-----------------------------------------------------------------------------
(* The rings are queues.                                                    *)

LEMMA FunctionIsSeq ==
  ASSUME NEW S, NEW n \in Nat, NEW f \in [1 .. n -> S]
  PROVE  f \in Seq(S) /\ Len(f) = n
<1>1. f \in Seq(S)
  BY SeqDef
<1>2. 1 .. Len(f) = 1 .. n /\ Len(f) \in Nat
  BY <1>1, LenProperties
<1> QED
  BY <1>1, <1>2

LEMMA WaitingIsSeq ==
  ASSUME IInv, NEW q \in Radios
  PROVE  /\ Waiting(q) \in Seq(Mine) /\ Len(Waiting(q)) = numGot[q]
         /\ \A i \in 1 .. numGot[q] :
              Waiting(q)[i] = bufs[q][Behind(First(q), i - 1)]
<1>1. numGot[q] \in Nat /\ RingInv(q)
  BY RadiosAssumption DEF IInv, TypeOK
<1>2. ASSUME NEW i \in 1 .. numGot[q]
      PROVE  bufs[q][Behind(First(q), i - 1)] \in Mine
  <2>1. i - 1 \in 0 .. numGot[q] - 1
    BY <1>1
  <2> QED
    BY <2>1, <1>1 DEF RingInv
<1>3. Waiting(q) \in [1 .. numGot[q] -> Mine]
  BY <1>2 DEF Waiting
<1>4. \A i \in 1 .. numGot[q] :
         Waiting(q)[i] = bufs[q][Behind(First(q), i - 1)]
  BY DEF Waiting
<1>5. Waiting(q) \in Seq(Mine) /\ Len(Waiting(q)) = numGot[q]
  BY ONLY <1>1, <1>3, FunctionIsSeq
<1> QED
  BY ONLY <1>4, <1>5

\* What a step may do to a queue.
DidReceive(q) ==
  /\ Len(Waiting(q)) < MaxRx
  /\ \E p \in Mine : Waiting(q)' = Append(Waiting(q), p)
  /\ Given(q)' = Given(q)
DidRead(q) ==
  Waiting(q) # <<>> /\ Given(q)' = Head(Waiting(q)) /\ Waiting(q)' = Waiting(q)
DidRelease(q) ==
  Waiting(q) # <<>> /\ Waiting(q)' = Tail(Waiting(q)) /\ Given(q)' = None
DidNothing(q) == Waiting(q)' = Waiting(q) /\ Given(q)' = Given(q)

QueueStep(q) == DidReceive(q) \/ DidRead(q) \/ DidRelease(q) \/ DidNothing(q)

LEMMA TakeIsQueueStep ==
  ASSUME IInv, NEW r \in Radios, NEW f \in Frames, numFree[r] > 0,
         Take(r, f), UNCHANGED main, NEW q \in Radios
  PROVE  QueueStep(q)
<1> USE RadiosAssumption
<1>1. /\ First(r) \in Slots /\ numGot[r] \in 0 .. MaxRx - 1
      /\ nextWrite[r] = Behind(First(r), numGot[r])
  BY FirstInRing DEF IInv, RingInv
<1>2. First(q)' = First(q) /\ Given(q)' = Given(q)
  BY Zenon DEF First, Taken, Given, Take, main
<1>3. CASE q # r
  <2>1. bufs'[q] = bufs[q] /\ numGot'[q] = numGot[q]
    BY <1>3 DEF Take, IInv, TypeOK
  <2>2. Waiting(q)' = Waiting(q)
    BY <2>1, <1>2, Zenon DEF Waiting, Behind
  <2> QED
    BY <2>2, <1>2 DEF QueueStep, DidNothing
<1>4. CASE q = r
  <2>1. bufs'[r] = [bufs[r] EXCEPT ![nextWrite[r]] = IF f \in Mine THEN f ELSE None]
    BY DEF Take, IInv, TypeOK
  <2>2. ASSUME NEW i \in 1 .. numGot[r]
        PROVE  bufs'[r][Behind(First(r), i - 1)] = bufs[r][Behind(First(r), i - 1)]
    <3>1. i - 1 \in 0 .. MaxRx - 1 /\ i - 1 # numGot[r]
      BY <1>1
    <3>2. Behind(First(r), i - 1) # nextWrite[r]
      BY <3>1, <1>1, BehindDiffers
    <3> QED
      BY <3>2, <2>1
  <2>3. /\ Waiting(r) \in Seq(Mine) /\ Len(Waiting(r)) = numGot[r]
        /\ \A i \in 1 .. numGot[r] :
             Waiting(r)[i] = bufs[r][Behind(First(r), i - 1)]
    BY WaitingIsSeq
  <2>4. CASE f \notin Mine
    <3>1. numGot' = numGot
      BY <2>4 DEF Take
    <3>2. Waiting(r)' = [i \in 1 .. numGot[r] |-> bufs'[r][Behind(First(r), i - 1)]]
      BY <3>1, <1>2, <1>4 DEF Waiting, Behind
    <3>3. Waiting(r)' = Waiting(r)
      BY <3>2, <2>2 DEF Waiting
    <3> QED
      BY <3>3, <1>2, <1>4 DEF QueueStep, DidNothing
  <2>5. CASE f \in Mine
    <3>1. numGot'[r] = numGot[r] + 1
      BY <2>5 DEF Take, Frames, IInv, TypeOK
    <3>2. /\ Append(Waiting(r), f) \in Seq(Mine)
          /\ Len(Append(Waiting(r), f)) = numGot[r] + 1
          /\ \A i \in 1 .. numGot[r] : Append(Waiting(r), f)[i] = Waiting(r)[i]
          /\ Append(Waiting(r), f)[numGot[r] + 1] = f
      BY <2>3, <2>5, AppendProperties
    <3>3. Waiting(r)' = [i \in 1 .. numGot[r] + 1 |->
                           bufs'[r][Behind(First(r), i - 1)]]
      BY <3>1, <1>2, <1>4 DEF Waiting, Behind
    <3>4. ASSUME NEW i \in 1 .. numGot[r] + 1
          PROVE  Append(Waiting(r), f)[i] = bufs'[r][Behind(First(r), i - 1)]
      <4>1. CASE i = numGot[r] + 1
        <5>1. i - 1 = numGot[r] /\ nextWrite[r] \in Slots
          BY <4>1, <1>1 DEF IInv, TypeOK
        <5>2. bufs'[r][nextWrite[r]] = f
          BY <5>1, <2>1, <2>5 DEF IInv, TypeOK
        <5> QED
          BY <4>1, <5>1, <5>2, <3>2, <1>1
      <4>2. CASE i \in 1 .. numGot[r]
        BY <4>2, <2>2, <2>3, <3>2
      <4>3. i = numGot[r] + 1 \/ i \in 1 .. numGot[r]
        BY <1>1
      <4> QED
        BY <4>1, <4>2, <4>3, Zenon
    <3>5. Append(Waiting(r), f) \in [1 .. numGot[r] + 1 -> Mine]
      BY <3>2, LenProperties
    <3>6. Waiting(r)' = Append(Waiting(r), f)
      BY <3>3, <3>4, <3>5
    <3>7. Len(Waiting(r)) < MaxRx
      BY <2>3, <1>1
    <3> QED
      BY <3>6, <3>7, <2>5, <1>2, <1>4 DEF QueueStep, DidReceive
  <2> QED
    BY <2>4, <2>5
<1> QED
  BY <1>3, <1>4

LEMMA HandlersQueueStep ==
  ASSUME IInv, Handlers, NEW q \in Radios
  PROVE  QueueStep(q)
<1>0. UNCHANGED main /\ "nrf" \in Radios /\ "ti" \in Radios
  BY Zenon DEF Handlers, Arrive, NrfHandler, TiHandler, Radios
<1>1. CASE UNCHANGED ring
  <2>1. RingInv(q) /\ UNCHANGED <<pc, radio, pkt>>
    BY <1>0 DEF IInv, main
  <2> QED
    BY <1>1, <2>1, RingKept DEF QueueStep, DidNothing
<1>2. CASE NrfHandler
  <2>1. PICK f \in Frames : Take("nrf", f)
    BY <1>2 DEF NrfHandler
  <2>2. numFree["nrf"] > 0
    BY <1>2 DEF NrfHandler, IInv, RxInv
  <2> QED
    BY <2>1, <2>2, <1>0, TakeIsQueueStep
<1>3. CASE TiHandler
  <2>1. UNCHANGED ring \/ (numFree["ti"] > 0 /\ \E f \in Frames : Take("ti", f))
    BY <1>3, Zenon DEF TiHandler
  <2> QED
    BY <2>1, <1>0, <1>1, TakeIsQueueStep
<1> QED
  BY <1>1, <1>2, <1>3, Zenon DEF Handlers, Arrive

LEMMA DequeueQueueStep ==
  ASSUME IInv, NEW r \in Radios, Dequeue(r), pc \in {"poll", "pollTi"},
         NEW q \in Radios
  PROVE  QueueStep(q)
<1>0. /\ numGot[r] > 0 /\ radio' = r /\ pc' = "count"
      /\ nextRead' = [nextRead EXCEPT ![r] = After(nextRead[r])]
      /\ UNCHANGED <<bufs, nextWrite, numFree, numGot>>
  BY DEF Dequeue
<1>1. First(r)' = First(r) /\ pkt' = bufs[r][First(r)]
  BY DequeueKeeps
<1>2. CASE q # r
  <2>1. ~Taken(q) /\ ~Taken(q)' /\ nextRead'[q] = nextRead[q]
    BY <1>0, <1>2 DEF Taken, IInv, TypeOK
  <2>2. First(q)' = First(q) /\ Given(q)' = Given(q)
    BY <2>1, Zenon DEF First, Given
  <2>3. Waiting(q)' = Waiting(q)
    BY <2>2, <1>0, Zenon DEF Waiting, Behind
  <2> QED
    BY <2>2, <2>3 DEF QueueStep, DidNothing
<1>3. CASE q = r
  <2>1. Waiting(r)' = Waiting(r)
    BY <1>0, <1>1, Zenon DEF Waiting, Behind
  <2>2. numGot[r] \in Nat /\ First(r) \in Slots
    BY FirstInRing, RadiosAssumption
  <2>3. /\ Waiting(r) \in Seq(Mine) /\ Len(Waiting(r)) = numGot[r]
        /\ \A i \in 1 .. numGot[r] :
             Waiting(r)[i] = bufs[r][Behind(First(r), i - 1)]
    BY WaitingIsSeq
  <2>4. Waiting(r)[1] = bufs[r][First(r)]
    <3>1. 1 \in 1 .. numGot[r] /\ 1 - 1 = 0
      BY <1>0, <2>2
    <3> QED
      BY <3>1, <2>2, <2>3, RingStep
  <2>5. Waiting(r) # <<>> /\ Head(Waiting(r)) = Waiting(r)[1]
    BY <1>0, <2>2, <2>3
  <2>6. Given(r)' = pkt'
    BY <1>0 DEF Given, Taken
  <2> QED
    BY <2>1, <2>4, <2>5, <2>6, <1>1, <1>3 DEF QueueStep, DidRead
<1> QED
  BY <1>2, <1>3

LEMMA CountQueueStep ==
  ASSUME IInv, Count, NEW r \in Radios, radio = r, NEW q \in Radios
  PROVE  QueueStep(q)
<1> USE RadiosAssumption
<1>0. /\ pc = "count" /\ pc' # "count" /\ UNCHANGED <<nextRead, radio>>
      /\ First(r)' = After(First(r)) /\ numGot'[r] = numGot[r] - 1
      /\ \A i \in 1 .. numGot[r] - 1 :
           bufs'[r][Behind(First(r), i)] = bufs[r][Behind(First(r), i)]
  BY CountKeeps DEF Count
<1>1. CASE q # r
  <2>1. bufs'[q] = bufs[q] /\ numGot'[q] = numGot[q]
    BY <1>1 DEF Count, IInv, TypeOK
  <2>2. First(q)' = First(q) /\ Given(q)' = Given(q)
    BY <1>0, <1>1, Zenon DEF First, Given, Taken
  <2>3. Waiting(q)' = Waiting(q)
    BY <2>1, <2>2, Zenon DEF Waiting, Behind
  <2> QED
    BY <2>2, <2>3 DEF QueueStep, DidNothing
<1>2. CASE q = r
  <2>1. First(r) \in Slots /\ numGot[r] \in 1 .. MaxRx
    BY <1>0, FirstInRing DEF IInv, RingInv, Taken
  <2>2. /\ Waiting(r) \in Seq(Mine) /\ Len(Waiting(r)) = numGot[r]
        /\ \A i \in 1 .. numGot[r] :
             Waiting(r)[i] = bufs[r][Behind(First(r), i - 1)]
    BY WaitingIsSeq
  <2>3. Waiting(r) # <<>>
    BY <2>1, <2>2
  <2>4. /\ Tail(Waiting(r)) \in Seq(Mine)
        /\ Len(Tail(Waiting(r))) = numGot[r] - 1
        /\ \A i \in 1 .. numGot[r] - 1 : Tail(Waiting(r))[i] = Waiting(r)[i + 1]
    BY <2>2, <2>3, HeadTailProperties
  <2>5. Waiting(r)' = [i \in 1 .. numGot[r] - 1 |->
                         bufs'[r][Behind(After(First(r)), i - 1)]]
    BY <1>0 DEF Waiting, Behind
  <2>6. ASSUME NEW i \in 1 .. numGot[r] - 1
        PROVE  Tail(Waiting(r))[i] = bufs'[r][Behind(After(First(r)), i - 1)]
    <3>1. /\ i \in 0 .. MaxRx /\ i > 0
          /\ i + 1 \in 1 .. numGot[r] /\ (i + 1) - 1 = i
      BY <2>1
    <3>2. Behind(After(First(r)), i - 1) = Behind(First(r), i)
      BY <3>1, <2>1, BehindStep
    <3>3. Waiting(r)[i + 1] = bufs[r][Behind(First(r), i)]
      BY <3>1, <2>2
    <3> QED
      BY <3>2, <3>3, <2>4, <1>0
  <2>7. Tail(Waiting(r)) \in [1 .. numGot[r] - 1 -> Mine]
    BY <2>4, LenProperties
  <2>8. Waiting(r)' = Tail(Waiting(r))
    BY <2>5, <2>6, <2>7
  <2>9. Given(r)' = None
    BY <1>0 DEF Given, Taken
  <2> QED
    BY <2>3, <2>8, <2>9, <1>2 DEF QueueStep, DidRelease
<1> QED
  BY <1>1, <1>2

LEMMA NextQueueStep ==
  ASSUME IInv, [Next]_vars, NEW q \in Radios
  PROVE  QueueStep(q)
<1>0. RingInv(q) /\ radio \in Radios
  BY DEF IInv, TypeOK
<1>1. CASE UNCHANGED vars
  <2>1. UNCHANGED ring /\ UNCHANGED <<pc, radio, pkt>>
    BY <1>1, Zenon DEF vars, main
  <2> QED
    BY <2>1, <1>0, RingKept DEF QueueStep, DidNothing
<1>2. CASE Handlers
  BY <1>2, HandlersQueueStep
<1>3. CASE \E r \in Radios : Dequeue(r) /\ pc \in {"poll", "pollTi"}
  BY <1>3, DequeueQueueStep
<1>4. CASE Count
  BY <1>4, <1>0, CountQueueStep
<1>5. CASE QuietStep
  BY <1>5, <1>0, QuietSteps, RingKept DEF QueueStep, DidNothing
<1> QED
  BY <1>1, <1>2, <1>3, <1>4, <1>5, StepCases

LEMMA InitQueue ==
  ASSUME Init, NEW q \in Radios
  PROVE  Waiting(q) = <<>> /\ Given(q) = None
<1>1. IInv /\ numGot[q] = 0 /\ ~Taken(q)
  BY InitIInv DEF Init, Taken
<1>2. Waiting(q) \in Seq(Mine) /\ Len(Waiting(q)) = 0
  BY <1>1, WaitingIsSeq
<1>3. Waiting(q) = <<>>
  BY <1>2, EmptySeq
<1> QED
  BY <1>1, <1>3 DEF Given

\* Each ring of a radio of the station is a queue between its interrupt handler
\* and commsRx: whole packets, in their order, each once, whatever the size.
THEOREM RingsAreQueues == Spec => ImplementsQueues
<1>0. "nrf" \in Radios /\ "ti" \in Radios
  BY DEF Radios
<1>1. Init => NrfQueue!Init /\ TiQueue!Init
  BY <1>0, InitQueue DEF NrfQueue!Init, TiQueue!Init
<1>2. IInv /\ [Next]_vars => /\ [NrfQueue!Next]_(NrfQueue!queueVars)
                             /\ [TiQueue!Next]_(TiQueue!queueVars)
  <2> SUFFICES ASSUME IInv, [Next]_vars
               PROVE  /\ NrfQueue!Next \/ UNCHANGED NrfQueue!queueVars
                      /\ TiQueue!Next \/ UNCHANGED TiQueue!queueVars
    OBVIOUS
  <2>1. QueueStep("nrf") /\ QueueStep("ti")
    BY <1>0, NextQueueStep
  <2>2. QueueStep("nrf") => NrfQueue!Next \/ UNCHANGED NrfQueue!queueVars
    BY Zenon DEF QueueStep, DidReceive, DidRead, DidRelease, DidNothing,
       NrfQueue!Next, NrfQueue!Receive, NrfQueue!Read, NrfQueue!Release,
       NrfQueue!queueVars
  <2>3. QueueStep("ti") => TiQueue!Next \/ UNCHANGED TiQueue!queueVars
    BY Zenon DEF QueueStep, DidReceive, DidRead, DidRelease, DidNothing,
       TiQueue!Next, TiQueue!Receive, TiQueue!Read, TiQueue!Release,
       TiQueue!queueVars
  <2> QED
    BY <2>1, <2>2, <2>3
<1> QED
  BY <1>1, <1>2, Inductive, PTL
     DEF Spec, ImplementsQueues, NrfQueue!Spec, TiQueue!Spec

=============================================================================

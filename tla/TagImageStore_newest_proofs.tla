--------------------- MODULE TagImageStore_newest_proofs ---------------------
(***************************************************************************)
(* The newest complete image of a paired tag is never lost: theorems for   *)
(* every board whose images do not start at address 0 and that has room    *)
(* for two of them.                                                        *)
(***************************************************************************)
EXTENDS TagImageStore_proofs

(* What the board must give.  Where the images start at address 0, which    *)
(* the code takes for `no such slot', or where there is room for one only,  *)
(* the next download goes over the newest image.                            *)
Roomy == ImgStart > 0 /\ NumSlots > 1

-----------------------------------------------------------------------------
(* The index, as an operator on headers.                                    *)

Valids(h) == {s \in Slots : h[s].mark = "valid"}
Newest(h) == Best(h, Valids(h))
VerOf(h)  == IF Valids(h) = {} THEN 0 ELSE h[Newest(h)].ver

(* The slot after the newest image, around the end: where a download goes.  *)
NextFree(h) ==
  IF Valids(h) = {} THEN 0
  ELSE IF Newest(h) + 1 = NumSlots THEN 0 ELSE Newest(h) + 1

(* Only the slot after the newest image is ever half filled. *)
Tidy(h) == \A s \in Slots : h[s].mark = "inprogress" => s = NextFree(h)

LEMMA IndexIs ==
  /\ Marked("valid") = Valids(hdr)
  /\ LatestVer = VerOf(hdr)
  /\ Latest(Marked("valid")) = Newest(hdr)
BY DEF Marked, Valids, LatestVer, VerOf, Latest, Newest, Best

LEMMA IndexIsAfter ==
  /\ Marked("valid")' = Valids(hdr')
  /\ LatestVer' = VerOf(hdr')
BY DEF Marked, Valids, LatestVer, VerOf, Latest, Newest, Best

LEMMA NewestFound ==
  ASSUME NEW h \in [Slots -> Header], Valids(h) # {}
  PROVE  /\ Newest(h) \in Valids(h) /\ Newest(h) \in Slots
         /\ \A t \in Valids(h) : \/ h[t].ver < h[Newest(h)].ver
                                 \/ h[t].ver = h[Newest(h)].ver /\ t <= Newest(h)
<1>1. Valids(h) \in SUBSET Slots
  BY DEF Valids
<1>2. Newest(h) \in Valids(h)
  BY <1>1, BestFound DEF Newest
<1> QED
  BY <1>1, <1>2, BestFound DEF Newest

LEMMA NextFreeType ==
  ASSUME NumSlots > 1, NEW h \in [Slots -> Header]
  PROVE  /\ NextFree(h) \in Slots
         /\ Valids(h) # {} => NextFree(h) # Newest(h)
<1>1. CASE Valids(h) = {}
  BY <1>1, ConstantFacts DEF NextFree, Slots
<1>2. CASE Valids(h) # {}
  <2>1. Newest(h) \in 0 .. NumSlots - 1
    BY <1>2, NewestFound DEF Slots
  <2> QED
    BY <1>2, <2>1, ConstantFacts DEF NextFree, Slots
<1> QED
  BY <1>1, <1>2

LEMMA VerOfType ==
  ASSUME NEW h \in [Slots -> Header]
  PROVE  VerOf(h) \in Nat
<1>1. \A s \in Slots : h[s].ver \in Versions \cup {0}
  BY DEF Header
<1>2. Versions \cup {0} \subseteq Nat
  BY ConstantFacts
<1> QED
  BY <1>1, <1>2, NewestFound DEF VerOf

(* Whatever is written to the slot after the newest image, the index is the *)
(* same as long as that slot is not marked valid, or was and has the same   *)
(* version still.                                                           *)
LEMMA NewestStable ==
  ASSUME NumSlots > 1, NEW h \in [Slots -> Header], NEW g \in [Slots -> Header],
         \A s \in Slots : s # NextFree(h) => g[s] = h[s],
         g[NextFree(h)].mark = "valid" => /\ h[NextFree(h)].mark = "valid"
                                         /\ g[NextFree(h)].ver = h[NextFree(h)].ver
  PROVE  /\ VerOf(g) = VerOf(h) /\ NextFree(g) = NextFree(h)
         /\ Valids(h) # {} => Newest(g) = Newest(h)
<1> DEFINE f == NextFree(h)
           n == Newest(h)
<1>1. Valids(g) \subseteq Valids(h)
  BY DEF Valids
<1>2. CASE Valids(h) = {}
  <2>1. Valids(g) = {}
    BY <1>1, <1>2
  <2> QED
    BY <1>2, <2>1 DEF VerOf, NextFree
<1>3. CASE Valids(h) # {}
  <2>1. n \in Slots /\ h[n].mark = "valid" /\ n # f /\ g[n] = h[n] /\ n \in Valids(g)
    BY <1>3, NewestFound, NextFreeType DEF Valids
  <2>2. \A t \in Valids(g) : g[t].ver = h[t].ver /\ t \in Valids(h)
    BY <1>1 DEF Valids
  <2>3. \A t \in Valids(h) : h[t].ver < h[n].ver \/ (h[t].ver = h[n].ver /\ t <= n)
    BY <1>3, NewestFound
  <2>4. \A t \in Valids(g) : g[t].ver < g[n].ver \/ (g[t].ver = g[n].ver /\ t <= n)
    BY <2>1, <2>2, <2>3
  <2>5. Valids(g) \in SUBSET Slots
    BY DEF Valids
  <2> HIDE DEF f, n
  <2>6. Best(g, Valids(g)) = n
    BY <2>1, <2>4, <2>5, BestIsOnly
  <2>7. Newest(g) = n
    BY <2>6 DEF Newest
  <2> QED
    BY <1>3, <2>1, <2>7 DEF VerOf, NextFree, n
<1> QED
  BY <1>2, <1>3

(* Marking a slot valid that has a higher version makes it the newest. *)
LEMMA NewestReplaced ==
  ASSUME NEW h \in [Slots -> Header], NEW g \in [Slots -> Header], NEW f \in Slots,
         \A s \in Slots : s # f => g[s] = h[s],
         g[f].mark = "valid", VerOf(h) < g[f].ver
  PROVE  Newest(g) = f /\ VerOf(g) = g[f].ver
<1>1. f \in Valids(g) /\ Valids(g) \in SUBSET Slots
  BY DEF Valids
<1>2. ASSUME NEW t \in Valids(g)
      PROVE  g[t].ver < g[f].ver \/ (g[t].ver = g[f].ver /\ t <= f)
  <2>1. CASE t = f
    <3>1. f \in Nat
      BY DEF Slots
    <3> QED
      BY <2>1, <3>1
  <2>2. CASE t # f
    <3>1. t \in Slots /\ g[t] = h[t] /\ t \in Valids(h)
      BY <2>2 DEF Valids
    <3>2. Valids(h) # {}
      BY <3>1
    <3>3. \A r \in Slots : h[r].ver \in Versions \cup {0} /\ g[r].ver \in Versions \cup {0}
      BY DEF Header
    <3>4. Versions \cup {0} \subseteq Nat
      BY ConstantFacts
    <3>5. /\ Newest(h) \in Slots
          /\ h[t].ver < h[Newest(h)].ver \/ h[t].ver = h[Newest(h)].ver
      BY <3>1, <3>2, NewestFound
    <3>6. h[Newest(h)].ver < g[f].ver
      BY <3>2 DEF VerOf
    <3>7. PICK x, y, z \in Nat : x = h[t].ver /\ y = h[Newest(h)].ver /\ z = g[f].ver
      BY <3>1, <3>3, <3>4, <3>5
    <3>8. (x < y \/ x = y) /\ y < z
      BY <3>5, <3>6, <3>7
    <3>9. x < z
      BY <3>7, <3>8
    <3> QED
      BY <3>1, <3>7, <3>9
  <2> QED
    BY <2>1, <2>2
<1>3. Best(g, Valids(g)) = f
  BY <1>1, <1>2, BestIsOnly
<1> QED
  BY <1>1, <1>3 DEF Newest, VerOf

(* With the images in order, prvDriveImageDownload picks the slot after the *)
(* newest image, whether there is an unfinished download or not.            *)
LEMMA TargetIs ==
  ASSUME Roomy, hdr \in [Slots -> Header], Tidy(hdr)
  PROVE  Target = NextFree(hdr)
<1>1. \A s \in Slots : Addr(s) # 0 /\ Addr(s) - ImgStart = s /\ s \in 0 .. NumSlots - 1
  BY ConstantFacts DEF Roomy, Slots, Addr
<1>2. CASE Marked("inprogress") # {}
  <2>1. Latest(Marked("inprogress")) \in Marked("inprogress")
    BY <1>2, LatestFound DEF Marked
  <2>2. Latest(Marked("inprogress")) \in Slots /\ Latest(Marked("inprogress")) = NextFree(hdr)
    BY <2>1 DEF Marked, Tidy
  <2> QED
    BY <1>1, <1>2, <2>2 DEF Target, TargetAddr, LatestAddr
<1>3. CASE Marked("inprogress") = {}
  <2>1. LatestAddr("inprogress") = 0
    BY <1>3 DEF LatestAddr
  <2>2. CASE Marked("valid") = {}
    <3>1. Target = ImgStart - ImgStart
      BY <2>1, <2>2 DEF Target, TargetAddr, LatestAddr
    <3> QED
      BY <2>2, <3>1, IndexIs, ConstantFacts DEF NextFree
  <2>3. CASE Marked("valid") # {}
    <3> DEFINE n == Newest(hdr)
    <3>1. Valids(hdr) # {} /\ n \in Slots /\ LatestAddr("valid") = Addr(n)
      BY <2>3, IndexIs, NewestFound DEF LatestAddr
    <3>2. Target = Wrapped(Addr(n) + 1) - ImgStart
      BY <1>1, <2>1, <3>1 DEF Target, TargetAddr
    <3> HIDE DEF n
    <3>3. Wrapped(Addr(n) + 1) - ImgStart = IF n + 1 = NumSlots THEN 0 ELSE n + 1
      BY <3>1, <1>1, ConstantFacts DEF Wrapped, Addr
    <3> QED
      BY <3>1, <3>2, <3>3 DEF NextFree, n
  <2> QED
    BY <2>2, <2>3
<1> QED
  BY <1>2, <1>3

-----------------------------------------------------------------------------
(* The inductive invariant: what the slots of a paired tag look like.       *)

OrderInv ==
  /\ pc = "sleep" => slot = 0
  /\ pc \in Session => paired /\ slot = NextFree(hdr) /\ VerOf(hdr) < ver
  /\ pc \in Filling => hdr[slot].mark # "valid"
  /\ pc \in {"pairErase", "pairSave"} => ~paired
  /\ pc = "pairErase" => \A s \in 0 .. slot - 1 : hdr[s] = ErasedHdr
  /\ pc = "pairSave" => \A s \in Slots : hdr[s] = ErasedHdr
  /\ paired => Tidy(hdr)

(* What a step may do to the newest image, as the user sees it. *)
RegStep ==
  \/ paired' = paired /\ (paired => VerOf(hdr') = VerOf(hdr))
  \/ paired /\ paired' /\ VerOf(hdr) < VerOf(hdr') /\ VerOf(hdr') \in Versions
  \/ ~paired /\ paired' /\ VerOf(hdr') = 0
  \/ paired /\ ~paired'

(* Every step writes to one slot only, the one the firmware works on. *)
LEMMA WritesHere ==
  ASSUME SizesFit, IInv, Next
  PROVE  \A s \in Slots : s # slot => hdr'[s] = hdr[s] /\ cell'[s] = cell[s]
<1>1. TypeOK /\ slot \in Slots
  BY DEF IInv, CtlInv, TypeOK
<1>2. CASE \/ PowerLoss \/ Dissociate \/ Associate \/ PairSave \/ CheckIn
           \/ NoChunk \/ BadChunk \/ \E v \in Versions \cup {0} : Publish(v)
  BY <1>2 DEF PowerLoss, Dissociate, Associate, PairSave, CheckIn, NoChunk, BadChunk,
     Publish, eeprom
<1>3. CASE Erase \/ PairErase
  BY <1>1, <1>3 DEF Erase, PairErase, EraseUnit, TypeOK
<1>4. CASE WriteHeader \/ ClearBit \/ MarkValid \/ TornHeader \/ TornMark
  BY <1>1, <1>4 DEF WriteHeader, ClearBit, MarkValid, TornHeader, TornMark, TypeOK
<1>5. CASE WriteData \/ TornData
  <2>1. pc = "request"
    BY <1>5 DEF WriteData, TornData
  <2>5. PICK whole \in BOOLEAN : Program(piece, whole)
    BY <1>5 DEF WriteData, TornData
  <2>2. piece \in Pieces
    BY <2>1, PieceFits DEF IInv
  <2> DEFINE d == Programmed(cell[slot][piece], ver, whole)
  <2>3. hdr' = hdr /\ cell' = [cell EXCEPT ![slot][piece] = d]
    BY <2>5, <2>2, ConstantFacts DEF Program, Pieces
  <2> HIDE DEF d
  <2> QED
    BY <1>1, <2>3 DEF TypeOK
<1>6. CASE TornErase
  BY <1>6, TornEraseHeaders DEF IInv
<1> QED
  BY <1>2, <1>3, <1>4, <1>5, <1>6 DEF Next, Download, Pairing, Torn

(* A step of a session that leaves the slot it fills without a valid mark,  *)
(* or was cut short before that of an older image was gone.                 *)
LEMMA SessionKeeps ==
  ASSUME Roomy, SizesFit, IInv, IInv', OrderInv, Next, pc \in Session,
         paired' = paired,
         hdr'[slot].mark = "valid" => /\ pc' = "sleep" /\ hdr[slot].mark = "valid"
                                     /\ hdr'[slot].ver = hdr[slot].ver,
         \/ pc' = "sleep" /\ slot' = 0
         \/ pc' \in Session /\ slot' = slot /\ ver' = ver
  PROVE  OrderInv' /\ RegStep
<1>1. hdr \in [Slots -> Header] /\ hdr' \in [Slots -> Header] /\ slot \in Slots
  BY DEF IInv, CtlInv, TypeOK
<1>2. paired /\ slot = NextFree(hdr) /\ VerOf(hdr) < ver /\ Tidy(hdr)
  BY DEF OrderInv
<1>3. \A s \in Slots : s # slot => hdr'[s] = hdr[s]
  BY WritesHere
<1>4. VerOf(hdr') = VerOf(hdr) /\ NextFree(hdr') = NextFree(hdr)
  BY <1>1, <1>2, <1>3, NewestStable DEF Roomy
<1>5. Tidy(hdr')
  BY <1>1, <1>2, <1>3, <1>4 DEF Tidy
<1> QED
  BY <1>2, <1>4, <1>5 DEF OrderInv, RegStep, Session, Filling

(* A step that writes no header, and ends the wake-up or leaves the         *)
(* firmware where it was.                                                   *)
LEMMA QuietKeeps ==
  ASSUME OrderInv, hdr' = hdr,
         \/ pc' = "sleep" /\ slot' = 0 /\ paired' = paired
         \/ UNCHANGED <<pc, slot, ver, paired>>
  PROVE  OrderInv' /\ RegStep
<1>1. VerOf(hdr)' = VerOf(hdr) /\ NextFree(hdr)' = NextFree(hdr) /\ Tidy(hdr)' = Tidy(hdr)
      /\ VerOf(hdr') = VerOf(hdr)
  OBVIOUS
<1> QED
  BY <1>1 DEF OrderInv, RegStep, Session, Filling

LEMMA CheckInOrder ==
  ASSUME Roomy, IInv, OrderInv, CheckIn
  PROVE  OrderInv' /\ RegStep
<1>1. /\ TypeOK /\ paired /\ pc = "sleep" /\ hdr' = hdr /\ paired' = paired
      /\ VerOf(hdr) < station
  BY IndexIs DEF IInv, CtlInv, CheckIn, eeprom
<1>2. VerOf(hdr') = VerOf(hdr) /\ NextFree(hdr') = NextFree(hdr) /\ Tidy(hdr')
  BY <1>1 DEF OrderInv
<1>3. Target = NextFree(hdr) /\ NextFree(hdr) \in Slots
  BY <1>1, TargetIs, NextFreeType DEF OrderInv, TypeOK, Roomy
<1>4. CASE pc' = "sleep" /\ slot' = 0
  BY <1>1, <1>2, <1>4 DEF OrderInv, RegStep, Session, Filling
<1>5. CASE pc' = "erase" /\ slot' = Target /\ ver' = station
  BY <1>1, <1>2, <1>3, <1>5 DEF OrderInv, RegStep, Session, Filling
<1>6. CASE /\ pc' \in {"request", "mark"} /\ slot' = Target /\ ver' = station
           /\ hdr[Target].ver = station
  <2>1. hdr[Target].mark # "valid"
    <3>1. SUFFICES ASSUME hdr[Target].mark = "valid" PROVE FALSE
      OBVIOUS
    <3>2. Target \in Valids(hdr) /\ Valids(hdr) # {}
      BY <1>3, <3>1 DEF Valids
    <3>3. \/ station < VerOf(hdr) \/ station = VerOf(hdr)
      BY <1>1, <1>6, <3>2, NewestFound DEF TypeOK, VerOf
    <3>4. VerOf(hdr) \in Nat /\ station \in Nat
      BY <1>1, VerOfType, ConstantFacts DEF TypeOK
    <3> QED
      BY <1>1, <3>3, <3>4
  <2> QED
    BY <1>1, <1>2, <1>3, <1>6, <2>1 DEF OrderInv, RegStep, Session, Filling
<1> QED
  BY <1>4, <1>5, <1>6 DEF CheckIn, StartPieces, EndSession, Sleep

LEMMA EraseOrder ==
  ASSUME Roomy, SizesFit, IInv, IInv', OrderInv, Erase
  PROVE  OrderInv' /\ RegStep
<1>1. /\ pc = "erase" /\ EraseUnit /\ pc' \in {"erase", "header"}
      /\ slot' = slot /\ ver' = ver /\ paired' = paired
  BY DEF Erase
<1>2. hdr'[slot].mark # "valid"
  BY <1>1, EraseUnitHeaders DEF IInv, ErasedHdr
<1> QED
  BY <1>1, <1>2, SessionKeeps DEF Session, Next, Download

LEMMA WriteHeaderOrder ==
  ASSUME Roomy, SizesFit, IInv, IInv', OrderInv, WriteHeader \/ TornHeader
  PROVE  OrderInv' /\ RegStep
<1>1. /\ TypeOK /\ pc = "header" /\ paired' = paired
      /\ \/ pc' = "sleep" /\ slot' = 0
         \/ pc' \in {"mark", "request"} /\ slot' = slot /\ ver' = ver
  BY DEF IInv, CtlInv, WriteHeader, TornHeader, StartPieces, EndSession, Sleep
<1>2. hdr'[slot].mark # "valid"
  <2>1. slot \in Slots /\ hdr \in [Slots -> Header]
    BY <1>1 DEF TypeOK
  <2>2. CASE WriteHeader
    BY <2>1, <2>2 DEF WriteHeader, NewHdr
  <2>3. CASE TornHeader
    BY <2>1, <2>3 DEF TornHeader
  <2> QED
    BY <2>2, <2>3
<1> QED
  BY <1>1, <1>2, SessionKeeps DEF Session, Next, Download, Torn

LEMMA FillingOrder ==
  ASSUME Roomy, SizesFit, IInv, IInv', OrderInv,
         NoChunk \/ BadChunk \/ WriteData \/ TornData \/ ClearBit \/ TornMark
  PROVE  OrderInv' /\ RegStep
<1>1. TypeOK /\ slot \in Slots /\ hdr \in [Slots -> Header] /\ hdr' \in [Slots -> Header]
  BY DEF IInv, CtlInv, TypeOK
<1>2. /\ pc \in {"request", "bit", "mark"} /\ paired' = paired
      /\ \/ pc' = "sleep" /\ slot' = 0
         \/ pc' \in {"bit", "mark", "request"} /\ slot' = slot /\ ver' = ver
  BY DEF NoChunk, BadChunk, WriteData, TornData, ClearBit, TornMark, EndSession, Sleep, eeprom
<1>3. hdr'[slot].mark # "valid"
  <2>1. hdr[slot].mark # "valid"
    BY <1>2 DEF OrderInv, Filling
  <2>2. CASE NoChunk \/ BadChunk
    BY <2>1, <2>2 DEF NoChunk, BadChunk, eeprom
  <2>3. CASE WriteData
    BY <2>1, <2>3, ProgramKeeps DEF WriteData
  <2>4. CASE TornData
    BY <2>1, <2>4, ProgramKeeps DEF TornData
  <2>5. CASE ClearBit
    <3> DEFINE h == [hdr[slot] EXCEPT !.missing = @ \ {piece}]
    <3>1. h.mark = hdr[slot].mark
      BY <1>1 DEF Header
    <3>2. hdr'[slot] = h
      BY <1>1, <2>5 DEF ClearBit
    <3> QED
      BY <2>1, <3>1, <3>2
  <2>6. CASE TornMark
    <3> DEFINE h == [hdr[slot] EXCEPT !.mark = "other"]
    <3>1. h.mark = "other"
      BY <1>1 DEF Header
    <3>2. hdr'[slot] = h
      BY <1>1, <2>6 DEF TornMark
    <3> QED
      BY <3>1, <3>2
  <2> QED
    BY <2>2, <2>3, <2>4, <2>5, <2>6
<1> QED
  BY <1>2, <1>3, SessionKeeps DEF Session, Next, Download, Torn

LEMMA TornEraseOrder ==
  ASSUME Roomy, SizesFit, IInv, IInv', OrderInv, TornErase
  PROVE  OrderInv' /\ RegStep
<1>1. pc \in {"erase", "pairErase"} /\ pc' = "sleep" /\ slot' = 0 /\ paired' = paired
  BY DEF TornErase, Sleep
<1>2. CASE pc = "erase"
  BY <1>1, <1>2, TornEraseHeaders, SessionKeeps DEF IInv, Session, Next, Torn
<1>3. CASE pc = "pairErase"
  BY <1>1, <1>3 DEF OrderInv, RegStep, Session, Filling
<1> QED
  BY <1>1, <1>2, <1>3

LEMMA MarkValidOrder ==
  ASSUME Roomy, SizesFit, IInv, IInv', OrderInv, MarkValid
  PROVE  OrderInv' /\ RegStep
<1>1. /\ TypeOK /\ pc = "mark" /\ hdr' = [hdr EXCEPT ![slot].mark = "valid"]
      /\ pc' = "sleep" /\ slot' = 0 /\ paired' = paired
  BY DEF IInv, CtlInv, MarkValid, EndSession, Sleep
<1>2. /\ slot \in Slots /\ hdr \in [Slots -> Header] /\ hdr' \in [Slots -> Header]
      /\ hdr[slot].ver = ver /\ ver \in Versions
  BY <1>1, ConstantFacts DEF IInv, CtlInv, TypeOK, WhereInv, FillOk, Session, Filling
<1>3. paired /\ slot = NextFree(hdr) /\ VerOf(hdr) < ver /\ Tidy(hdr)
  BY <1>1 DEF OrderInv, Session
<1> DEFINE h == [hdr[slot] EXCEPT !.mark = "valid"]
<1>4. h.mark = "valid" /\ h.ver = ver
  BY <1>2 DEF Header
<1>5. hdr'[slot] = h /\ \A s \in Slots : s # slot => hdr'[s] = hdr[s]
  BY <1>1, <1>2
<1> HIDE DEF h
<1>6. VerOf(hdr') = ver
  BY <1>2, <1>3, <1>4, <1>5, NewestReplaced
<1>7. Tidy(hdr')
  BY <1>2, <1>3, <1>4, <1>5 DEF Tidy
<1> QED
  BY <1>1, <1>2, <1>3, <1>6, <1>7 DEF OrderInv, RegStep, Session, Filling

LEMMA PairEraseOrder ==
  ASSUME SizesFit, IInv, OrderInv, PairErase
  PROVE  OrderInv' /\ RegStep
<1>1. /\ TypeOK /\ pc = "pairErase" /\ EraseUnit /\ ~paired /\ paired' = paired
      /\ \/ pc' = "pairErase" /\ slot' = slot
         \/ pc' = "pairErase" /\ slot' = slot + 1
         \/ pc' = "pairSave" /\ slot' = slot /\ slot + 1 = NumSlots
  BY DEF IInv, CtlInv, OrderInv, PairErase
<1>2. hdr'[slot] = ErasedHdr
  BY <1>1, EraseUnitHeaders DEF IInv
<1>3. \A s \in Slots : s # slot => hdr'[s] = hdr[s]
  BY WritesHere DEF Next, Pairing
<1>4. \A s \in 0 .. slot : hdr'[s] = ErasedHdr
  BY <1>1, <1>2, <1>3, ConstantFacts DEF OrderInv, TypeOK, Slots
<1>5. slot \in Nat /\ \A s \in 0 .. slot' - 1 : pc' = "pairErase" => s \in 0 .. slot
  BY <1>1, ConstantFacts DEF TypeOK, Slots
<1>6. pc' = "pairSave" => \A s \in Slots : s \in 0 .. slot
  BY <1>1, <1>5, ConstantFacts DEF Slots
<1> QED
  BY <1>1, <1>4, <1>5, <1>6 DEF OrderInv, RegStep, Session, Filling

LEMMA PairSaveOrder ==
  ASSUME IInv, OrderInv, PairSave
  PROVE  OrderInv' /\ RegStep
<1>1. /\ pc = "pairSave" /\ hdr' = hdr /\ paired' = TRUE /\ pc' = "sleep" /\ slot' = 0
  BY DEF PairSave, Sleep
<1>2. ~paired /\ \A s \in Slots : hdr'[s] = ErasedHdr
  BY <1>1 DEF OrderInv
<1>3. VerOf(hdr') = 0 /\ Tidy(hdr')
  BY <1>2 DEF VerOf, Valids, Tidy, ErasedHdr
<1> QED
  BY <1>1, <1>2, <1>3 DEF OrderInv, RegStep, Session, Filling

(* The remaining steps of the world around the tag, and of its pairing. *)
LEMMA WorldOrder ==
  ASSUME IInv, OrderInv,
         \/ PowerLoss \/ Dissociate \/ Associate \/ \E v \in Versions \cup {0} : Publish(v)
  PROVE  OrderInv' /\ RegStep
<1>1. CASE PowerLoss \/ \E v \in Versions \cup {0} : Publish(v)
  BY <1>1, QuietKeeps DEF PowerLoss, Publish, Sleep, eeprom, ram
<1>2. CASE Dissociate
  BY <1>2 DEF Dissociate, OrderInv, RegStep, Session, Filling, ram
<1>3. CASE Associate
  <2>1. pc = "sleep" /\ ~paired /\ pc' = "pairErase" /\ slot' = 0 /\ paired' = paired
    BY <1>3 DEF Associate, OrderInv, eeprom
  <2> QED
    BY <2>1 DEF OrderInv, RegStep, Session, Filling
<1> QED
  BY <1>1, <1>2, <1>3

-----------------------------------------------------------------------------
LEMMA OrderInit ==
  Init => OrderInv
BY DEF Init, OrderInv, Session, Filling

LEMMA OrderNext ==
  ASSUME Roomy, SizesFit, IInv, IInv', OrderInv, [Next]_vars
  PROVE  OrderInv' /\ RegStep
<1>1. CASE Next
  BY <1>1, CheckInOrder, EraseOrder, WriteHeaderOrder, FillingOrder, MarkValidOrder,
     TornEraseOrder, PairEraseOrder, PairSaveOrder, WorldOrder
     DEF Next, Download, Pairing, Torn
<1>2. CASE UNCHANGED vars
  BY <1>2, QuietKeeps DEF vars
<1> QED
  BY <1>1, <1>2

LEMMA OrderAlways ==
  ASSUME Roomy, SizesFit
  PROVE  Spec => [](IInv /\ OrderInv)
<1>1. Init => IInv /\ OrderInv
  BY IInvInit, OrderInit
<1>2. IInv /\ OrderInv /\ [Next]_vars => (IInv /\ OrderInv)'
  BY IInvNext, OrderNext
<1> QED
  BY <1>1, <1>2, PTL DEF Spec

-----------------------------------------------------------------------------
(* No step of a download writes to the slot of the newest complete image.   *)
THEOREM NewestImageKept ==
  ASSUME Roomy, SizesFit
  PROVE  Spec => NewestKept
<1> DEFINE Kept == (paired /\ paired' /\ Marked("valid") # {}) =>
                     LET s == Latest(Marked("valid"))
                     IN hdr'[s] = hdr[s] /\ cell'[s] = cell[s]
<1>1. Spec => [](IInv /\ OrderInv)
  BY OrderAlways
<1>2. IInv /\ OrderInv /\ [Next]_vars => [Kept]_vars
  <2>1. SUFFICES ASSUME IInv, OrderInv, Next, paired, paired', Valids(hdr) # {}
                 PROVE  hdr'[Newest(hdr)] = hdr[Newest(hdr)] /\ cell'[Newest(hdr)] = cell[Newest(hdr)]
    BY IndexIs
  <2>2. Newest(hdr) \in Slots /\ Newest(hdr) # NextFree(hdr)
    BY <2>1, NewestFound, NextFreeType DEF IInv, CtlInv, TypeOK, Roomy
  <2>3. CASE pc \in Session
    BY <2>1, <2>2, <2>3, WritesHere DEF OrderInv
  <2>4. CASE pc \notin Session
    BY <2>1, <2>4 DEF OrderInv, Session, Next, Download, Pairing, Torn, Publish, PowerLoss,
       Dissociate, Associate, PairErase, PairSave, CheckIn, Erase, WriteHeader, NoChunk,
       BadChunk, WriteData, ClearBit, MarkValid, TornHeader, TornData, TornMark, TornErase,
       eeprom
  <2> QED
    BY <2>3, <2>4
<1>3. Spec => [][Kept]_vars
  BY <1>1, <1>2, PTL DEF Spec
<1> QED
  BY <1>3 DEF NewestKept

(* The image store implements the register of ImageRegister: however a      *)
(* download is interrupted, its user sees the newest image replaced in one  *)
(* step, or not at all.                                                     *)
THEOREM StoreIsARegister ==
  ASSUME Roomy, SizesFit
  PROVE  Spec => ImplementsRegister
<1>1. Init => Register!Init
  BY DEF Init, Register!Init
<1>2. IInv /\ OrderInv /\ IInv' /\ [Next]_vars => [Register!Next]_(Register!regVars)
  <2>1. SUFFICES ASSUME IInv, OrderInv, IInv', [Next]_vars
                 PROVE  [Register!Next]_(Register!regVars)
    OBVIOUS
  <2>2. RegStep
    BY <2>1, OrderNext
  <2>3. LatestVer = VerOf(hdr) /\ LatestVer' = VerOf(hdr') /\ paired \in BOOLEAN
        /\ paired' \in BOOLEAN
    BY <2>1, IndexIs, IndexIsAfter DEF IInv, CtlInv, TypeOK
  <2> QED
    BY <2>2, <2>3 DEF RegStep, Register!Next, Register!Pair, Register!Unpair,
       Register!Install, Register!regVars
<1>3. Spec => [](IInv /\ OrderInv)
  BY OrderAlways
<1> QED
  BY <1>1, <1>2, <1>3, PTL DEF Spec, ImplementsRegister, Register!Spec

=============================================================================

------------------------ MODULE TagImageStore_proofs ------------------------
(***************************************************************************)
(* Theorems about TagImageStore, for every number of slots, pieces, erase  *)
(* units, retries and versions.                                            *)
(***************************************************************************)
EXTENDS TagImageStore, WellFoundedInduction, TLAPS

-----------------------------------------------------------------------------
(* Facts about the operators.                                               *)

(* A set of naturals that is not empty has a least member. *)
LEMMA LeastNat ==
  ASSUME NEW T \in SUBSET Nat, T # {}
  PROVE  \E m \in T : \A k \in T : m <= k
<1>1. PICK m \in T : \A k \in T : ~ (<<k, m>> \in OpToRel(<, Nat))
  BY NatLessThanWellFounded, WFMin
<1>2. \A k \in T : <<k, m>> \in Nat \X Nat
  OBVIOUS
<1>3. \A k \in T : ~ (k < m)
  BY <1>1, <1>2 DEF OpToRel
<1> QED
  BY <1>3

LEMMA NPiecesType ==
  ASSUME NEW h \in Header
  PROVE  NPieces(h) \in Nat
BY DEF Header, NPieces, Unwritten

(* FirstMissing finds what the scan of the bitmap in prvDriveDownload finds. *)
LEMMA FirstMissingFound ==
  ASSUME NEW h \in Header
  PROVE  /\ FirstMissing(h) \in 0 .. NPieces(h)
         /\ FirstMissing(h) = NPieces(h) \/ FirstMissing(h) \in h.missing
         /\ \A q \in 0 .. FirstMissing(h) - 1 : q \notin h.missing
<1> DEFINE n == NPieces(h)
           T == {p \in 0 .. n : p = n \/ p \in h.missing}
<1>1. n \in Nat
  BY NPiecesType
<1>2. n \in T /\ T \in SUBSET Nat
  BY <1>1
<1>3. PICK p \in T : \A k \in T : p <= k
  BY <1>2, LeastNat
<1>4. \A q \in 0 .. p - 1 : q \notin h.missing
  BY <1>1, <1>3
<1>5. \E q \in 0 .. n : /\ q = n \/ q \in h.missing
                        /\ \A r \in 0 .. q - 1 : r \notin h.missing
  BY <1>3, <1>4
<1> QED
  BY <1>5 DEF FirstMissing

(* Latest, for any headers, so that it can be applied to those after a step. *)
Best(h, S) ==
  CHOOSE s \in S : \A t \in S :
    h[t].ver < h[s].ver \/ (h[t].ver = h[s].ver /\ t <= s)

(* Among any slots there is one with the highest version and, of those, the *)
(* highest number: the one prvEepromIndex ends up with.                     *)
LEMMA BestFound ==
  ASSUME NEW h \in [Slots -> Header], NEW S \in SUBSET Slots, S # {}
  PROVE  /\ Best(h, S) \in S
         /\ \A t \in S : \/ h[t].ver < h[Best(h, S)].ver
                         \/ h[t].ver = h[Best(h, S)].ver /\ t <= Best(h, S)
<1> DEFINE Gap(s) == MaxVersion - h[s].ver
           Gaps == {Gap(s) : s \in S}
<1> NumSlots \in Nat /\ MaxVersion \in Nat /\ Versions \cup {0} \subseteq 0 .. MaxVersion
  BY CountsAssumption, ImagesAssumption DEF CountsAssumption, ImagesAssumption
<1>1. \A s \in S : h[s].ver \in 0 .. MaxVersion /\ s \in Nat /\ s < NumSlots
  BY DEF Header, Slots
<1>2. Gaps \in SUBSET Nat /\ Gaps # {}
  BY <1>1
<1>3. PICK g \in Gaps : \A k \in Gaps : g <= k
  BY <1>2, LeastNat
<1>4. PICK s0 \in S : g = Gap(s0)
  BY <1>3
<1>5. ASSUME NEW t \in S
      PROVE  h[t].ver <= h[s0].ver
  <2>1. Gap(s0) <= Gap(t)
    BY <1>3, <1>4
  <2> QED
    BY <1>1, <2>1
<1> DEFINE Top == {s \in S : h[s].ver = h[s0].ver}
           Ranks == {NumSlots - s : s \in Top}
<1>6. Ranks \in SUBSET Nat /\ Ranks # {}
  BY <1>1, <1>4
<1>7. PICK r \in Ranks : \A k \in Ranks : r <= k
  BY <1>6, LeastNat
<1>8. PICK s1 \in Top : r = NumSlots - s1
  BY <1>7
<1>9. ASSUME NEW t \in Top
      PROVE  t <= s1
  <2>1. NumSlots - s1 <= NumSlots - t
    BY <1>7, <1>8
  <2> QED
    BY <1>1, <2>1
<1>10. \E s \in S : \A t \in S :
         h[t].ver < h[s].ver \/ (h[t].ver = h[s].ver /\ t <= s)
  BY <1>1, <1>5, <1>8, <1>9
<1> HIDE DEF Gap, Gaps, Top, Ranks
<1> QED
  BY <1>10 DEF Best

(* There is only one such slot. *)
LEMMA BestIsOnly ==
  ASSUME NEW h \in [Slots -> Header], NEW S \in SUBSET Slots, NEW s \in S,
         \A t \in S : h[t].ver < h[s].ver \/ (h[t].ver = h[s].ver /\ t <= s)
  PROVE  Best(h, S) = s
<1>1. \A t \in S : h[t].ver \in Versions \cup {0} /\ t \in Nat
  BY DEF Header, Slots
<1>2. Versions \cup {0} \subseteq Nat
  BY ImagesAssumption DEF ImagesAssumption
<1>3. S # {}
  OBVIOUS
<1>4. \A t \in S : \/ h[t].ver < h[Best(h, S)].ver
                   \/ h[t].ver = h[Best(h, S)].ver /\ t <= Best(h, S)
  BY <1>3, BestFound
<1>5. Best(h, S) \in S
  BY <1>3, BestFound
<1>6. PICK b \in S : b = Best(h, S)
  BY <1>5
<1>7. PICK x, y \in Nat : x = h[s].ver /\ y = h[b].ver
  BY <1>1, <1>2
<1>8. (y < x \/ (y = x /\ b <= s)) /\ (x < y \/ (x = y /\ s <= b))
  BY <1>4, <1>6, <1>7
<1>9. b \in Nat /\ s \in Nat
  BY <1>1
<1> QED
  BY <1>6, <1>7, <1>8, <1>9

LEMMA LatestFound ==
  ASSUME hdr \in [Slots -> Header], NEW S \in SUBSET Slots, S # {}
  PROVE  /\ Latest(S) \in S
         /\ \A t \in S : \/ hdr[t].ver < hdr[Latest(S)].ver
                         \/ hdr[t].ver = hdr[Latest(S)].ver /\ t <= Latest(S)
<1>1. Latest(S) = Best(hdr, S)
  BY DEF Latest, Best
<1> QED
  BY <1>1, BestFound

-----------------------------------------------------------------------------
(* What holds for images of any size, those that spill over included: the   *)
(* headers are in order, and the firmware is where they let it be.          *)

Session == {"erase", "header", "request", "bit", "mark"}
Filling == {"request", "bit", "mark"}

(* What a header says of itself, whatever was cut short. *)
HeaderOk(h) ==
  /\ h.ver # 0 => /\ h.size \in {Unwritten, Size[h.ver]}
                  /\ ~TornWrites /\ MaxHurt = 0 => h.size # Unwritten
  /\ h.mark = "valid" => h.ver # 0 /\ NPieces(h) <= PieceCap

(* What it says of its pieces, unless it outlived an erase. *)
BitmapOk(h) ==
  /\ h.mark = "valid" => \A p \in Bits : p < NPieces(h) => p \notin h.missing
  /\ \A p \in h.missing : \A q \in Bits : q > p => q \in h.missing

InOrder(h, H) ==
  \A s \in Slots : HeaderOk(h[s]) /\ (s \notin H => BitmapOk(h[s]))

(* What the loop over the pieces knows of the header of its slot. *)
FillOk(h) ==
  /\ h.ver = ver
  /\ NPieces(h) <= PieceCap
  /\ \A q \in 0 .. piece - 1 : q \notin h.missing
  /\ pc = "mark" => piece = NPieces(h)
  /\ pc # "mark" => piece < NPieces(h) /\ (slot \notin hurt => piece \in h.missing)

(* Where in an erasure, or in a download, the firmware can be. *)
WhereInv ==
  /\ pc = "sleep" => sec = 0
  /\ pc \in Session => ver # 0
  /\ pc \in {"erase", "pairErase"} => sec < NumSecs
  /\ pc \in {"erase", "pairErase"} /\ sec > 0 => hdr[slot] = ErasedHdr
  /\ pc = "header" => hdr[slot] = ErasedHdr
  /\ pc \in Filling => FillOk(hdr[slot])

CtlInv == TypeOK /\ InOrder(hdr, hurt) /\ WhereInv

LEMMA CtlInvImplies == CtlInv => TypeOK /\ MissingIsTail /\ AsksForMissing
BY DEF CtlInv, InOrder, BitmapOk, WhereInv, FillOk, Filling, MissingIsTail, AsksForMissing

LEMMA ConstantFacts ==
  /\ NumSlots \in Nat \ {0} /\ NumSecs \in Nat \ {0} /\ MaxTries \in Nat \ {0}
  /\ PieceCap \in Nat /\ SlotCap \in Nat /\ ImgStart \in Nat
  /\ MaxVersion \in Nat /\ Versions \subseteq 1 .. MaxVersion
  /\ Size \in [Versions -> Nat]
  /\ SecOf \in [Pieces -> 0 .. NumSecs - 1]
BY CountsAssumption, ImagesAssumption DEF CountsAssumption, ImagesAssumption

LEMMA HdrTypes ==
  /\ ErasedHdr \in Header /\ GarbageHdr \in Header
  /\ \A v \in Versions : NewHdr(v) \in Header
  /\ Blank \in Content
  /\ Junk \in Content
BY ConstantFacts DEF Header, Content, ErasedHdr, GarbageHdr, NewHdr, Blank, Junk, Markers, Unwritten, Bits

(* The headers that the firmware and the flash come up with are in order. *)
LEMMA HdrsOk ==
  /\ HeaderOk(ErasedHdr) /\ BitmapOk(ErasedHdr)
  /\ HeaderOk(GarbageHdr) /\ BitmapOk(GarbageHdr)
  /\ \A v \in Versions : HeaderOk(NewHdr(v)) /\ BitmapOk(NewHdr(v))
<1>1. /\ HeaderOk(ErasedHdr) /\ BitmapOk(ErasedHdr)
      /\ HeaderOk(GarbageHdr) /\ BitmapOk(GarbageHdr)
  BY DEF HeaderOk, BitmapOk, ErasedHdr, GarbageHdr
<1>2. ASSUME NEW v \in Versions
      PROVE  HeaderOk(NewHdr(v)) /\ BitmapOk(NewHdr(v))
  <2>1. Size[v] # Unwritten
    BY ConstantFacts DEF Unwritten
  <2> QED
    BY <2>1 DEF HeaderOk, BitmapOk, NewHdr
<1> QED
  BY <1>1, <1>2

(* Going to sleep keeps the invariant if what is in the EEPROM does. *)
LEMMA SleepKeeps ==
  ASSUME CtlInv, Sleep, hdr' \in [Slots -> Header],
         cell' \in [Slots -> [Pieces -> Content]], InOrder(hdr', hurt'),
         paired' \in BOOLEAN, hurt' \in SUBSET Slots, station' = station,
         delay' \in {"checkin", "retry"}
  PROVE  CtlInv'
<1>1. 0 \in Slots /\ 0 \in 0 .. NumSecs /\ 0 \in 0 .. PieceCap /\ 0 \in 0 .. MaxTries - 1
  BY ConstantFacts DEF Slots
<1>2. TypeOK'
  BY <1>1 DEF CtlInv, TypeOK, Sleep
<1>3. WhereInv'
  BY DEF Sleep, WhereInv, Session, Filling
<1>4. InOrder(hdr, hurt)'
  BY DEF InOrder, HeaderOk, BitmapOk, NPieces
<1> QED
  BY <1>2, <1>3, <1>4 DEF CtlInv

(* One erase command. *)
LEMMA EraseUnitHeaders ==
  ASSUME CtlInv, EraseUnit, pc \in {"erase", "pairErase"}
  PROVE  /\ hdr' \in [Slots -> Header]
         /\ cell' \in [Slots -> [Pieces -> Content]]
         /\ InOrder(hdr', hurt')
         /\ hdr'[slot] = ErasedHdr
         /\ hurt' \subseteq hurt
         /\ \A s \in Slots : s # slot =>
              hdr'[s] = hdr[s] /\ cell'[s] = cell[s] /\ (s \in hurt' <=> s \in hurt)
         /\ \A p \in Pieces :
              cell'[slot][p] = IF SecOf[p] = sec THEN Blank ELSE cell[slot][p]
<1> slot \in Slots /\ hdr \in [Slots -> Header] /\ cell \in [Slots -> [Pieces -> Content]]
    /\ sec \in 0 .. NumSecs
  BY DEF CtlInv, TypeOK
<1>1. hdr' \in [Slots -> Header] /\ hdr'[slot] = ErasedHdr
      /\ \A s \in Slots : s # slot => hdr'[s] = hdr[s]
  <2>1. CASE sec = 0
    BY <2>1, HdrTypes DEF EraseUnit
  <2>2. CASE sec # 0
    <3>1. sec > 0 /\ WhereInv
      BY <2>2, ConstantFacts DEF CtlInv
    <3> QED
      BY <2>2, <3>1 DEF EraseUnit, WhereInv
  <2> QED
    BY <2>1, <2>2
<1>2. cell' \in [Slots -> [Pieces -> Content]]
      /\ \A s \in Slots : s # slot => cell'[s] = cell[s]
  <2> DEFINE row == [p \in Pieces |-> IF SecOf[p] = sec THEN Blank ELSE cell[slot][p]]
  <2>1. row \in [Pieces -> Content]
    BY HdrTypes
  <2>2. cell' = [cell EXCEPT ![slot] = row]
    BY DEF EraseUnit
  <2> HIDE DEF row
  <2> QED
    BY <2>1, <2>2
<1>3. \A p \in Pieces : cell'[slot][p] = IF SecOf[p] = sec THEN Blank ELSE cell[slot][p]
  BY DEF EraseUnit
<1>4. hurt' \subseteq hurt /\ \A s \in Slots : s # slot => (s \in hurt' <=> s \in hurt)
  BY DEF EraseUnit
<1>5. InOrder(hdr', hurt')
  BY <1>1, <1>4, HdrsOk DEF CtlInv, InOrder
<1> QED
  BY <1>1, <1>2, <1>3, <1>4, <1>5

LEMMA EraseCtl ==
  ASSUME CtlInv, Erase
  PROVE  CtlInv'
<1>1. TypeOK /\ WhereInv /\ pc = "erase" /\ EraseUnit /\ pc' \in {"erase", "header"}
  BY DEF CtlInv, Erase
<1>2. /\ hdr' \in [Slots -> Header] /\ cell' \in [Slots -> [Pieces -> Content]]
      /\ InOrder(hdr', hurt')
      /\ hdr'[slot] = ErasedHdr /\ hurt' \subseteq hurt
  BY <1>1, EraseUnitHeaders
<1>3. sec \in Nat /\ sec < NumSecs /\ sec' = sec + 1 /\ slot' = slot /\ ver' = ver
      /\ (pc' = "header" <=> sec + 1 = NumSecs)
  BY <1>1, ConstantFacts DEF TypeOK, WhereInv, Erase
<1>4. TypeOK'
  <2>1. sec' \in 0 .. NumSecs
    BY <1>3, ConstantFacts
  <2> QED
    BY <1>1, <1>2, <2>1 DEF TypeOK, Erase
<1>5. WhereInv'
  BY <1>1, <1>2, <1>3, ConstantFacts DEF WhereInv, Session, Filling
<1>6. InOrder(hdr, hurt)'
  BY <1>2 DEF InOrder, HeaderOk, BitmapOk, NPieces
<1> QED
  BY <1>4, <1>5, <1>6 DEF CtlInv

LEMMA PairEraseCtl ==
  ASSUME CtlInv, PairErase
  PROVE  CtlInv'
<1>1. TypeOK /\ WhereInv /\ pc = "pairErase" /\ EraseUnit /\ pc' \in {"pairErase", "pairSave"}
  BY DEF CtlInv, PairErase
<1>2. /\ hdr' \in [Slots -> Header] /\ cell' \in [Slots -> [Pieces -> Content]]
      /\ InOrder(hdr', hurt')
      /\ hdr'[slot] = ErasedHdr /\ hurt' \subseteq hurt
  BY <1>1, EraseUnitHeaders
<1>3. /\ sec' \in 0 .. NumSecs /\ slot' \in Slots
      /\ pc' = "pairErase" => sec' < NumSecs
      /\ pc' = "pairErase" /\ sec' > 0 => slot' = slot
  BY <1>1, ConstantFacts DEF TypeOK, PairErase, Slots
<1>4. TypeOK'
  BY <1>1, <1>2, <1>3 DEF TypeOK, PairErase
<1>5. WhereInv'
  BY <1>1, <1>2, <1>3 DEF WhereInv, Session, Filling
<1>6. InOrder(hdr, hurt)'
  BY <1>2 DEF InOrder, HeaderOk, BitmapOk, NPieces
<1> QED
  BY <1>4, <1>5, <1>6 DEF CtlInv

(* The start of a download, from a header that is in the slot already or    *)
(* that the same step has just written there.                               *)
LEMMA StartKeeps ==
  ASSUME CtlInv, NEW s \in Slots, NEW v \in Versions,
         hdr' \in [Slots -> Header], hdr'[s].ver = v,
         InOrder(hdr', hurt'),
         StartPieces(s, v, hdr'[s]),
         UNCHANGED <<cell, paired, hurt, station>>
  PROVE  CtlInv'
<1> DEFINE h == hdr'[s]
<1>0. TypeOK /\ h \in Header /\ v # 0
  BY ConstantFacts DEF CtlInv
<1>1. CASE EndSession("checkin")
  BY <1>0, <1>1, SleepKeeps DEF TypeOK, EndSession
<1>2. CASE ~ EndSession("checkin")
  <2>1. /\ NPieces(h) <= PieceCap
        /\ slot' = s /\ ver' = v /\ piece' = FirstMissing(h)
        /\ pc' = IF FirstMissing(h) = NPieces(h) THEN "mark" ELSE "request"
        /\ sec' = 0 /\ tries' = 0 /\ progress' = FALSE /\ delay' = delay
    BY <1>2 DEF StartPieces
  <2>2. /\ NPieces(h) \in Nat /\ FirstMissing(h) \in 0 .. NPieces(h)
        /\ FirstMissing(h) = NPieces(h) \/ FirstMissing(h) \in h.missing
        /\ \A q \in 0 .. FirstMissing(h) - 1 : q \notin h.missing
    BY <1>0, NPiecesType, FirstMissingFound
  <2>3. 0 \in 0 .. NumSecs /\ piece' \in 0 .. PieceCap /\ 0 \in 0 .. MaxTries - 1
    BY <2>1, <2>2, ConstantFacts
  <2>4. TypeOK'
    BY <1>0, <2>1, <2>3 DEF TypeOK
  <2>5. FillOk(hdr[slot])'
    BY <2>1, <2>2 DEF FillOk, NPieces
  <2>6. WhereInv'
    BY <1>0, <2>1, <2>5 DEF WhereInv
  <2>7. InOrder(hdr, hurt)'
    BY DEF InOrder, HeaderOk, BitmapOk, NPieces
  <2> QED
    BY <2>4, <2>6, <2>7 DEF CtlInv
<1> QED
  BY <1>1, <1>2

(* The next download goes to a slot that exists. *)
LEMMA TargetExists ==
  ASSUME hdr \in [Slots -> Header]
  PROVE  Target \in Slots
<1>1. \A m : Marked(m) # {} => Latest(Marked(m)) \in Slots
  BY LatestFound DEF Marked
<1>2. \A s \in Slots : Addr(s) \in ImgStart .. ImgStart + NumSlots - 1
  BY ConstantFacts DEF Slots, Addr
<1>3. \A m : LatestAddr(m) # 0 => LatestAddr(m) \in ImgStart .. ImgStart + NumSlots - 1
  BY <1>1, <1>2 DEF LatestAddr
<1>4. TargetAddr \in ImgStart .. ImgStart + NumSlots - 1
  BY <1>3, ConstantFacts DEF TargetAddr, Wrapped
<1> QED
  BY <1>4, ConstantFacts DEF Target, Slots

LEMMA CheckInCtl ==
  ASSUME CtlInv, CheckIn
  PROVE  CtlInv'
<1>1. /\ TypeOK /\ WhereInv /\ pc = "sleep"
      /\ hdr' = hdr /\ cell' = cell /\ paired' = paired /\ hurt' = hurt /\ station' = station
  BY DEF CtlInv, CheckIn, eeprom
<1>2. InOrder(hdr', hurt')
  BY <1>1 DEF CtlInv
<1>3. Target \in Slots
  BY <1>1, TargetExists DEF TypeOK
<1>4. LatestVer \in Nat
  <2>1. Marked("valid") # {} => Latest(Marked("valid")) \in Slots
    BY <1>1, LatestFound DEF Marked, TypeOK
  <2>2. \A s \in Slots : hdr[s].ver \in Versions \cup {0}
    BY <1>1 DEF TypeOK, Header
  <2>3. Versions \cup {0} \subseteq Nat
    BY ConstantFacts
  <2> QED
    BY <2>1, <2>2, <2>3 DEF LatestVer
<1>5. station \in Versions
  BY <1>1, <1>4, ConstantFacts DEF CheckIn, TypeOK
<1>6. CASE hdr[Target].ver # station
  <2>1. /\ pc' = "erase" /\ slot' = Target /\ ver' = station
        /\ sec' = sec /\ piece' = piece /\ tries' = tries /\ progress' = progress
        /\ delay' = delay
    BY <1>6 DEF CheckIn
  <2>2. TypeOK'
    BY <1>1, <1>3, <2>1 DEF TypeOK
  <2>3. sec' = 0 /\ 0 < NumSecs /\ ver' # 0
    BY <1>1, <1>5, <2>1, ConstantFacts DEF WhereInv
  <2>4. WhereInv'
    BY <2>1, <2>3 DEF WhereInv, Filling
  <2>5. InOrder(hdr, hurt)'
    BY <1>2 DEF InOrder, HeaderOk, BitmapOk, NPieces
  <2> QED
    BY <2>2, <2>4, <2>5 DEF CtlInv
<1>7. CASE hdr[Target].ver = station
  <2>1. StartPieces(Target, station, hdr'[Target])
    BY <1>1, <1>7 DEF CheckIn
  <2> QED
    BY <1>1, <1>2, <1>3, <1>5, <1>7, <2>1, StartKeeps DEF TypeOK
<1> QED
  BY <1>6, <1>7

(* The header of a newly erased slot. *)
LEMMA WriteHeaderCtl ==
  ASSUME CtlInv, WriteHeader
  PROVE  CtlInv'
<1>1. /\ TypeOK /\ WhereInv /\ pc = "header"
      /\ hdr' = [hdr EXCEPT ![slot] = NewHdr(ver)]
      /\ cell' = cell /\ paired' = paired /\ hurt' = hurt /\ station' = station
      /\ StartPieces(slot, ver, NewHdr(ver))
  BY DEF CtlInv, WriteHeader
<1>2. slot \in Slots /\ ver \in Versions /\ NewHdr(ver) \in Header /\ NewHdr(ver).ver = ver
  BY <1>1, HdrTypes DEF TypeOK, WhereInv, Session, NewHdr
<1>3. hdr' \in [Slots -> Header] /\ hdr'[slot] = NewHdr(ver)
      /\ \A s \in Slots : s # slot => hdr'[s] = hdr[s]
  BY <1>1, <1>2 DEF TypeOK
<1>4. InOrder(hdr', hurt')
  BY <1>1, <1>2, <1>3, HdrsOk DEF CtlInv, InOrder
<1> QED
  BY <1>1, <1>2, <1>3, <1>4, StartKeeps

(* Beyond its end a slot spills into those that follow, never into itself.  *)
LEMMA SpillBeyond ==
  ASSUME NEW s \in Nat, NEW k \in Nat, k > 0, NEW p \in Nat, p + 1 >= k
  PROVE  /\ (s * k + p + 1) \div k \in Nat
         /\ (s * k + p + 1) \div k > s
         /\ (s * k + p + 1) % k \in 0 .. k - 1
<1> DEFINE a == s * k + p + 1
           q == a \div k
           r == a % k
<1>1. s * k \in Nat
  OBVIOUS
<1>2. a \in Nat
  BY <1>1
<1> HIDE DEF a
<1>3. q \in Int /\ r \in 0 .. k - 1 /\ a = k * q + r
  BY <1>2
<1> HIDE DEF q, r
<1>4. a >= s * k + k
  BY <1>1 DEF a
<1>5. q > s
  <2>1. SUFFICES ASSUME q <= s PROVE FALSE
    BY <1>3
  <2>2. k * q <= k * s
    BY <1>3, <2>1
  <2>3. k * s = s * k /\ k * q \in Int /\ s * k \in Nat
    BY <1>3
  <2> QED
    BY <1>2, <1>3, <1>4, <2>2, <2>3
<1> QED
  BY <1>3, <1>5 DEF q, r, a

(* What programming a piece may do to the slots, wherever its bytes go.     *)
LEMMA ProgramHeaders ==
  ASSUME CtlInv, pc = "request", NEW whole \in BOOLEAN, Program(piece, whole)
  PROVE  /\ hdr' \in [Slots -> Header]
         /\ cell' \in [Slots -> [Pieces -> Content]]
         /\ hdr'[slot] = hdr[slot]
         /\ \A s \in Slots : hdr'[s] = hdr[s] \/ hdr'[s] = GarbageHdr
<1>1. /\ TypeOK /\ slot \in Slots /\ ver \in Versions \cup {0} /\ piece \in Nat
      /\ hdr \in [Slots -> Header] /\ cell \in [Slots -> [Pieces -> Content]]
  BY ConstantFacts DEF CtlInv, TypeOK
<1>2. CASE piece < SlotCap
  <2> DEFINE c == cell[slot][piece]
             d == Programmed(c, ver, whole)
  <2>1. piece \in Pieces
    BY <1>1, <1>2, ConstantFacts DEF Pieces
  <2>2. c \in Content
    BY <1>1, <2>1
  <2>3. (whole \/ (c.ver = ver /\ c.whole)) \in BOOLEAN
    OBVIOUS
  <2>4. d \in Content
    BY <1>1, <2>2, <2>3, HdrTypes DEF Programmed, Content
  <2>5. hdr' = hdr /\ cell' = [cell EXCEPT ![slot][piece] = d]
    BY <1>1, <1>2, ConstantFacts DEF Program
  <2> HIDE DEF d
  <2> QED
    BY <1>1, <2>1, <2>4, <2>5
<1>3. CASE piece >= SlotCap
  <2> DEFINE s == Spill(piece) \div (SlotCap + 1)
             i == Spill(piece) % (SlotCap + 1)
  <2>1. slot \in Nat /\ SlotCap + 1 \in Nat /\ SlotCap + 1 > 0 /\ piece + 1 >= SlotCap + 1
    BY <1>1, <1>3, ConstantFacts DEF Slots
  <2>2. s \in Nat /\ s > slot /\ i \in 0 .. SlotCap
    BY <1>1, <2>1, SpillBeyond, ConstantFacts DEF Spill
  <2>3. \/ hdr' = hdr /\ cell' = cell
        \/ s < NumSlots /\ hdr' = [hdr EXCEPT ![s] = GarbageHdr] /\ cell' = cell
        \/ s < NumSlots /\ i > 0 /\ hdr' = hdr /\ cell' = [cell EXCEPT ![s][i - 1] = Junk]
    BY <1>1, <1>3, ConstantFacts DEF Program
  <2> HIDE DEF s, i
  <2>4. s # slot /\ (s < NumSlots => s \in Slots)
    BY <2>1, <2>2, ConstantFacts DEF Slots
  <2>5. i > 0 => i - 1 \in Pieces
    BY <2>2, ConstantFacts DEF Pieces
  <2>6. CASE hdr' = hdr /\ cell' = cell
    BY <1>1, <2>6
  <2>7. CASE s \in Slots /\ hdr' = [hdr EXCEPT ![s] = GarbageHdr] /\ cell' = cell
    BY <1>1, <2>4, <2>7, HdrTypes
  <2>8. CASE /\ s \in Slots /\ i - 1 \in Pieces
             /\ hdr' = hdr /\ cell' = [cell EXCEPT ![s][i - 1] = Junk]
    BY <1>1, <2>8, HdrTypes
  <2> QED
    BY <2>3, <2>4, <2>5, <2>6, <2>7, <2>8
<1> QED
  BY <1>1, <1>2, <1>3, ConstantFacts

LEMMA WriteDataCtl ==
  ASSUME CtlInv, WriteData \/ TornData
  PROVE  CtlInv'
<1>1. /\ TypeOK /\ WhereInv /\ pc = "request"
      /\ paired' = paired /\ hurt' = hurt /\ station' = station /\ delay' = delay
  BY DEF CtlInv, WriteData, TornData
<1>2. PICK whole \in BOOLEAN : Program(piece, whole)
  BY DEF WriteData, TornData
<1>3. /\ hdr' \in [Slots -> Header] /\ cell' \in [Slots -> [Pieces -> Content]]
      /\ hdr'[slot] = hdr[slot]
      /\ \A s \in Slots : hdr'[s] = hdr[s] \/ hdr'[s] = GarbageHdr
  BY <1>1, <1>2, ProgramHeaders
<1>4. InOrder(hdr', hurt')
  BY <1>1, <1>3, HdrsOk DEF CtlInv, InOrder
<1>5. CASE Sleep
  BY <1>1, <1>3, <1>4, <1>5, SleepKeeps DEF TypeOK
<1>6. CASE WriteData
  <2>1. /\ pc' = "bit" /\ slot' = slot /\ ver' = ver /\ sec' = sec /\ piece' = piece
        /\ tries' = tries /\ progress' = progress
    BY <1>6 DEF WriteData
  <2>2. TypeOK'
    BY <1>1, <1>3, <2>1 DEF TypeOK
  <2>3. WhereInv'
    BY <1>1, <1>3, <2>1 DEF WhereInv, FillOk, NPieces, Session, Filling
  <2>4. InOrder(hdr, hurt)'
    BY <1>4 DEF InOrder, HeaderOk, BitmapOk, NPieces
  <2> QED
    BY <2>2, <2>3, <2>4 DEF CtlInv
<1> QED
  BY <1>5, <1>6 DEF TornData

LEMMA ClearBitCtl ==
  ASSUME CtlInv, ClearBit
  PROVE  CtlInv'
<1>1. /\ TypeOK /\ WhereInv /\ pc = "bit"
      /\ hdr' = [hdr EXCEPT ![slot].missing = @ \ {piece}]
      /\ piece' = piece + 1 /\ tries' = 0 /\ progress' = TRUE
      /\ pc' = IF piece + 1 = NPieces(hdr[slot]) THEN "mark" ELSE "request"
      /\ cell' = cell /\ paired' = paired /\ hurt' = hurt /\ station' = station
      /\ slot' = slot /\ ver' = ver /\ sec' = sec /\ delay' = delay
  BY DEF CtlInv, ClearBit
<1>2. /\ slot \in Slots /\ ver # 0 /\ HeaderOk(hdr[slot]) /\ hdr[slot] \in Header
      /\ (slot \notin hurt => BitmapOk(hdr[slot]))
      /\ FillOk(hdr[slot]) /\ piece \in Nat /\ NPieces(hdr[slot]) \in Nat
  BY <1>1, NPiecesType, ConstantFacts DEF CtlInv, InOrder, TypeOK, WhereInv, Session, Filling
<1> DEFINE h == [hdr[slot] EXCEPT !.missing = @ \ {piece}]
<1>3. /\ h \in Header /\ h.ver = hdr[slot].ver /\ h.size = hdr[slot].size
      /\ h.mark = hdr[slot].mark /\ h.missing = hdr[slot].missing \ {piece}
  BY <1>2 DEF Header
<1>4. hdr' = [hdr EXCEPT ![slot] = h]
  BY <1>1, <1>2 DEF TypeOK
<1> HIDE DEF h
<1>5. /\ hdr' \in [Slots -> Header] /\ hdr'[slot] = h
      /\ \A s \in Slots : s # slot => hdr'[s] = hdr[s]
  BY <1>1, <1>2, <1>3, <1>4 DEF TypeOK
<1>6. NPieces(h) = NPieces(hdr[slot]) /\ piece < NPieces(h) /\ NPieces(h) <= PieceCap
  BY <1>1, <1>2, <1>3 DEF NPieces, FillOk
<1>7. \A p \in hdr[slot].missing : p \in Bits /\ p >= piece
  BY <1>2, ConstantFacts DEF Header, Bits, FillOk
<1>8. slot \notin hurt => \A p \in h.missing : \A q \in Bits : q > p => q \in h.missing
  BY <1>2, <1>3, <1>7, ConstantFacts DEF BitmapOk, Bits
<1>9. HeaderOk(h) /\ (slot \notin hurt => BitmapOk(h))
  BY <1>2, <1>3, <1>6, <1>8 DEF HeaderOk, BitmapOk
<1>10. slot \notin hurt => piece + 1 = NPieces(h) \/ piece + 1 \in h.missing
  <2>1. piece + 1 # NPieces(h) => piece + 1 \in Bits
    BY <1>2, <1>6, ConstantFacts DEF Bits
  <2>2. slot \notin hurt => piece \in hdr[slot].missing
    BY <1>1, <1>2 DEF FillOk
  <2>3. slot \notin hurt /\ piece + 1 # NPieces(h) => piece + 1 \in hdr[slot].missing
    BY <1>2, <2>1, <2>2 DEF BitmapOk
  <2> QED
    BY <1>2, <1>3, <2>3
<1>11. FillOk(hdr[slot])'
  <2>1. \A q \in 0 .. piece : q \notin h.missing
    BY <1>2, <1>3 DEF FillOk
  <2>2. pc' # "mark" => /\ piece + 1 < NPieces(h)
                        /\ slot \notin hurt => piece + 1 \in h.missing
    BY <1>1, <1>2, <1>3, <1>6, <1>10
  <2> QED
    BY <1>1, <1>2, <1>3, <1>5, <1>6, <2>1, <2>2 DEF FillOk, NPieces
<1>12. TypeOK'
  <2>1. piece' \in 0 .. PieceCap /\ tries' \in 0 .. MaxTries - 1
    BY <1>1, <1>2, <1>6, ConstantFacts
  <2> QED
    BY <1>1, <1>5, <2>1 DEF TypeOK
<1>13. WhereInv'
  BY <1>1, <1>2, <1>11 DEF WhereInv
<1>14. InOrder(hdr', hurt')
  BY <1>1, <1>5, <1>9 DEF CtlInv, InOrder
<1> QED
  BY <1>12, <1>13, <1>14 DEF CtlInv

(* Programming a marker over the one of the slot being filled. *)
LEMMA MarkHeaders ==
  ASSUME CtlInv, pc = "mark", NEW m \in Markers, hdr' = [hdr EXCEPT ![slot].mark = m],
         hurt' = hurt
  PROVE  /\ hdr' \in [Slots -> Header]
         /\ hdr'[slot] = [hdr[slot] EXCEPT !.mark = m]
         /\ \A s \in Slots : s # slot => hdr'[s] = hdr[s]
         /\ InOrder(hdr', hurt')
<1>1. /\ TypeOK /\ slot \in Slots /\ HeaderOk(hdr[slot]) /\ hdr[slot] \in Header
      /\ (slot \notin hurt => BitmapOk(hdr[slot]))
      /\ hdr[slot].ver # 0 /\ FillOk(hdr[slot])
  BY DEF CtlInv, InOrder, TypeOK, WhereInv, FillOk, Session, Filling
<1> DEFINE h == [hdr[slot] EXCEPT !.mark = m]
<1>2. /\ h \in Header /\ h.ver = hdr[slot].ver /\ h.size = hdr[slot].size
      /\ h.mark = m /\ h.missing = hdr[slot].missing
  BY <1>1 DEF Header
<1>3. /\ hdr' \in [Slots -> Header] /\ hdr'[slot] = h
      /\ \A s \in Slots : s # slot => hdr'[s] = hdr[s]
  BY <1>1, <1>2 DEF TypeOK
<1>4. HeaderOk(h) /\ (slot \notin hurt => BitmapOk(h))
  <2>1. NPieces(h) = NPieces(hdr[slot]) /\ NPieces(h) <= PieceCap
    BY <1>1, <1>2 DEF NPieces, FillOk
  <2>2. \A p \in Bits : p < NPieces(h) => p \notin h.missing
    BY <1>1, <1>2, <2>1, NPiecesType, ConstantFacts DEF FillOk, Bits
  <2> QED
    BY <1>1, <1>2, <2>1, <2>2 DEF HeaderOk, BitmapOk
<1> HIDE DEF h
<1>5. InOrder(hdr', hurt')
  BY <1>3, <1>4 DEF CtlInv, InOrder
<1> QED
  BY <1>3, <1>5 DEF h

LEMMA MarkCtl ==
  ASSUME CtlInv, MarkValid \/ TornMark
  PROVE  CtlInv'
<1>1. PICK m \in Markers : hdr' = [hdr EXCEPT ![slot].mark = m]
  BY DEF MarkValid, TornMark, Markers
<1>2. /\ TypeOK /\ pc = "mark" /\ Sleep /\ delay' \in {"checkin", "retry"}
      /\ cell' = cell /\ paired' = paired /\ hurt' = hurt /\ station' = station
  BY DEF CtlInv, TypeOK, MarkValid, TornMark, EndSession
<1>3. hdr' \in [Slots -> Header] /\ InOrder(hdr', hurt')
  BY <1>1, <1>2, MarkHeaders
<1> QED
  BY <1>2, <1>3, SleepKeeps DEF TypeOK

LEMMA TornHeaderCtl ==
  ASSUME CtlInv, TornHeader
  PROVE  CtlInv'
<1>1. /\ TypeOK /\ WhereInv /\ TornWrites /\ pc = "header" /\ Sleep /\ delay' = delay
      /\ cell' = cell /\ paired' = paired /\ hurt' = hurt /\ station' = station
  BY DEF CtlInv, TornHeader
<1>2. PICK v \in {0, ver}, m \in {"erased", "inprogress"}, n \in {Unwritten, Size[ver]} :
        hdr' = [hdr EXCEPT ![slot] = [ver |-> v, mark |-> m, size |-> n, missing |-> Bits]]
  BY DEF TornHeader
<1>3. slot \in Slots /\ ver \in Versions
  BY <1>1 DEF TypeOK, WhereInv, Session
<1> DEFINE h == [ver |-> v, mark |-> m, size |-> n, missing |-> Bits]
<1>4. h \in Header
  BY <1>3, ConstantFacts DEF Header, Markers
<1>5. HeaderOk(h) /\ BitmapOk(h)
  BY <1>1, <1>3 DEF HeaderOk, BitmapOk
<1>6. hdr' \in [Slots -> Header] /\ InOrder(hdr', hurt')
  BY <1>1, <1>2, <1>3, <1>4, <1>5 DEF CtlInv, InOrder, TypeOK
<1> QED
  BY <1>1, <1>6, SleepKeeps DEF TypeOK

(* An erase that is cut short: the header of its slot outlives it in part,  *)
(* or was erased before.                                                    *)
LEMMA TornEraseHeaders ==
  ASSUME CtlInv, TornErase
  PROVE  /\ hdr' \in [Slots -> Header] /\ cell' \in [Slots -> [Pieces -> Content]]
         /\ hurt \subseteq hurt' /\ hurt' \in SUBSET Slots
         /\ InOrder(hdr', hurt')
         /\ \A s \in Slots : s # slot => hdr'[s] = hdr[s] /\ cell'[s] = cell[s]
         /\ hdr'[slot] = ErasedHdr \/ slot \in hurt'
         /\ hdr'[slot].ver \in {0, hdr[slot].ver}
         /\ hdr'[slot].mark = "valid" => /\ hdr[slot].mark = "valid"
                                         /\ hdr'[slot].ver = hdr[slot].ver
<1>1. /\ TypeOK /\ WhereInv /\ slot \in Slots /\ hdr[slot] \in Header /\ sec \in Nat
      /\ hdr \in [Slots -> Header] /\ cell \in [Slots -> [Pieces -> Content]]
      /\ pc \in {"erase", "pairErase"} /\ HeaderOk(hdr[slot]) /\ hurt \in SUBSET Slots
      /\ InOrder(hdr, hurt)
  BY ConstantFacts DEF CtlInv, TypeOK, InOrder, TornErase
<1>2. /\ cell' \in [Slots -> [Pieces -> Content]]
      /\ \A s \in Slots : s # slot => cell'[s] = cell[s]
  <2>1. PICK left \in [{p \in Pieces : SecOf[p] = sec} -> {"kept", "erased", "junk"}] :
          cell' = [cell EXCEPT ![slot] =
                     [p \in Pieces |-> IF SecOf[p] # sec \/ left[p] = "kept" THEN cell[slot][p]
                                       ELSE IF left[p] = "erased" \/ cell[slot][p] = Blank
                                            THEN Blank ELSE Junk]]
    BY DEF TornErase
  <2> DEFINE row == [p \in Pieces |-> IF SecOf[p] # sec \/ left[p] = "kept" THEN cell[slot][p]
                                      ELSE IF left[p] = "erased" \/ cell[slot][p] = Blank
                                           THEN Blank ELSE Junk]
  <2>2. row \in [Pieces -> Content]
    BY <1>1, HdrTypes
  <2>3. cell' = [cell EXCEPT ![slot] = row]
    BY <2>1
  <2> HIDE DEF row
  <2> QED
    BY <1>1, <2>2, <2>3
<1>3. CASE sec = 0
  <2>1. PICK g \in HalfErased(hdr[slot]) : hdr' = [hdr EXCEPT ![slot] = g]
    BY <1>3 DEF TornErase
  <2>2. /\ g.ver \in {0, hdr[slot].ver} /\ g.mark \in LeftOf(hdr[slot].mark)
        /\ g.size \in {hdr[slot].size, Unwritten} /\ g.missing \in SUBSET Bits
        /\ g.mark = "valid" => g.ver = hdr[slot].ver
        /\ g = [ver |-> g.ver, mark |-> g.mark, size |-> g.size, missing |-> g.missing]
    BY <2>1 DEF HalfErased
  <2>3. g.mark \in Markers /\ (g.mark = "valid" => hdr[slot].mark = "valid")
    BY <1>1, <2>2 DEF LeftOf, Markers, Header
  <2>4. g \in Header
    BY <1>1, <2>2, <2>3 DEF Header
  <2>5. HeaderOk(g)
    <3>1. MaxHurt = 0 => FALSE
      BY DEF TornErase
    <3>2. g.mark = "valid" => NPieces(g) <= PieceCap
      BY <1>1, <2>2, <2>3, ConstantFacts DEF HeaderOk, NPieces
    <3> QED
      BY <1>1, <2>2, <2>3, <3>1, <3>2 DEF HeaderOk
  <2>6. hurt' = hurt \cup {slot}
    BY <1>3 DEF TornErase
  <2>7. /\ hdr' \in [Slots -> Header] /\ hdr'[slot] = g
        /\ \A s \in Slots : s # slot => hdr'[s] = hdr[s]
    BY <1>1, <2>1, <2>4
  <2>8. InOrder(hdr', hurt')
    BY <1>1, <2>5, <2>6, <2>7 DEF InOrder
  <2> QED
    BY <1>1, <1>2, <2>2, <2>3, <2>6, <2>7, <2>8
<1>4. CASE sec # 0
  <2>1. hdr' = hdr /\ hurt' = hurt
    BY <1>4 DEF TornErase
  <2>2. hdr[slot] = ErasedHdr
    BY <1>1, <1>4 DEF WhereInv
  <2> QED
    BY <1>1, <1>2, <2>1, <2>2
<1> QED
  BY <1>3, <1>4

LEMMA TornEraseCtl ==
  ASSUME CtlInv, TornErase
  PROVE  CtlInv'
<1>1. Sleep /\ paired' = paired /\ station' = station /\ delay' = delay /\ TypeOK
  BY DEF TornErase, CtlInv
<1> QED
  BY <1>1, TornEraseHeaders, SleepKeeps DEF TypeOK

(* A request that is not answered as it should be. *)
LEMMA LostChunkCtl ==
  ASSUME CtlInv, NoChunk \/ BadChunk
  PROVE  CtlInv'
<1>1. /\ TypeOK /\ WhereInv /\ pc = "request"
      /\ hdr' = hdr /\ cell' = cell /\ paired' = paired /\ hurt' = hurt /\ station' = station
  BY DEF CtlInv, NoChunk, BadChunk, eeprom
<1>2. InOrder(hdr', hurt')
  BY <1>1 DEF CtlInv
<1>3. CASE Sleep /\ delay' \in {"checkin", "retry"}
  BY <1>1, <1>2, <1>3, SleepKeeps DEF TypeOK
<1>4. CASE /\ tries + 1 < MaxTries /\ tries' = tries + 1
           /\ UNCHANGED <<pc, slot, ver, sec, piece, progress, delay>>
  <2>1. tries' \in 0 .. MaxTries - 1
    BY <1>1, <1>4, ConstantFacts DEF TypeOK
  <2>2. TypeOK'
    BY <1>1, <1>4, <2>1 DEF TypeOK
  <2>3. WhereInv'
    BY <1>1, <1>4 DEF WhereInv, FillOk, NPieces
  <2> QED
    BY <1>2, <2>2, <2>3 DEF CtlInv
<1> QED
  BY <1>3, <1>4 DEF NoChunk, BadChunk, EndSession

LEMMA WorldCtl ==
  ASSUME CtlInv, PowerLoss \/ Dissociate \/ PairSave \/ Associate
                 \/ \E v \in Versions \cup {0} : Publish(v)
  PROVE  CtlInv'
<1>1. /\ TypeOK /\ WhereInv /\ hdr' = hdr /\ cell' = cell /\ hurt' = hurt /\ paired' \in BOOLEAN
  BY DEF CtlInv, PowerLoss, Dissociate, PairSave, Associate, Publish, eeprom, TypeOK
<1>2. InOrder(hdr', hurt')
  BY <1>1 DEF CtlInv
<1>3. CASE PowerLoss \/ PairSave
  BY <1>1, <1>2, <1>3, SleepKeeps DEF PowerLoss, PairSave, TypeOK
<1>4. CASE Dissociate \/ \E v \in Versions \cup {0} : Publish(v)
  <2>1. /\ pc' = pc /\ slot' = slot /\ ver' = ver /\ sec' = sec /\ piece' = piece
        /\ tries' = tries /\ progress' = progress /\ delay' = delay
        /\ station' \in Versions \cup {0}
    BY <1>1, <1>4 DEF Dissociate, Publish, ram, TypeOK
  <2>2. TypeOK'
    BY <1>1, <2>1 DEF TypeOK
  <2>3. WhereInv'
    BY <1>1, <2>1 DEF WhereInv, FillOk, NPieces
  <2> QED
    BY <1>2, <2>2, <2>3 DEF CtlInv
<1>5. CASE Associate
  <2>1. /\ pc = "sleep" /\ pc' = "pairErase" /\ slot' = slot /\ ver' = ver /\ sec' = sec
        /\ piece' = piece /\ tries' = tries /\ progress' = progress
        /\ delay' = delay /\ station' = station
    BY <1>5 DEF Associate
  <2>2. TypeOK'
    BY <1>1, <2>1 DEF TypeOK
  <2>3. sec' = 0 /\ 0 < NumSecs
    BY <1>1, <2>1, ConstantFacts DEF WhereInv
  <2>4. WhereInv'
    BY <2>1, <2>3 DEF WhereInv, Session, Filling
  <2> QED
    BY <1>2, <2>2, <2>4 DEF CtlInv
<1> QED
  BY <1>3, <1>4, <1>5

LEMMA CtlInit == Init => CtlInv
<1> SUFFICES ASSUME Init PROVE CtlInv
  OBVIOUS
<1>1. 0 \in Slots /\ 0 \in 0 .. NumSecs /\ 0 \in 0 .. PieceCap /\ 0 \in 0 .. MaxTries - 1
  BY ConstantFacts DEF Slots
<1>2. TypeOK
  BY <1>1, HdrTypes DEF Init, TypeOK
<1>3. InOrder(hdr, hurt)
  BY HdrsOk DEF Init, InOrder
<1>4. WhereInv
  BY DEF Init, WhereInv, Session, Filling
<1> QED
  BY <1>2, <1>3, <1>4 DEF CtlInv

LEMMA CtlNext == CtlInv /\ [Next]_vars => CtlInv'
<1> SUFFICES ASSUME CtlInv, [Next]_vars PROVE CtlInv'
  OBVIOUS
<1>1. CASE Next
  BY <1>1, WorldCtl, CheckInCtl, EraseCtl, WriteHeaderCtl, LostChunkCtl, WriteDataCtl,
     ClearBitCtl, MarkCtl, PairEraseCtl, TornHeaderCtl, TornEraseCtl
     DEF Next, Download, Pairing, Torn
<1>2. CASE UNCHANGED vars
  BY <1>2 DEF CtlInv, InOrder, HeaderOk, BitmapOk, vars, TypeOK, WhereInv, FillOk, NPieces
<1> QED
  BY <1>1, <1>2

LEMMA CtlAlways == Spec => []CtlInv
  BY CtlInit, CtlNext, PTL DEF Spec

(* Every variable keeps its type, whatever the sizes of the images.         *)
THEOREM TypeCorrect == Spec => []TypeOK
  BY CtlAlways, CtlInvImplies, PTL

(* What is missing is always a tail of the image, as the loop of            *)
(* prvDriveDownload takes it to be, in every slot whose header was not in   *)
(* an erase that was cut short since its last one.                          *)
THEOREM MissingPiecesAreATail == Spec => []MissingIsTail
  BY CtlAlways, CtlInvImplies, PTL

(* A piece whose bit is cleared is not asked for again, however often       *)
(* downloads are interrupted and resumed, but in such a slot.               *)
THEOREM OnlyMissingPieces == Spec => []AsksForMissing
  BY CtlAlways, CtlInvImplies, PTL


-----------------------------------------------------------------------------
(* A session erases a slot only to fill it with another image.              *)
VerInv ==
  /\ pc \notin Session => ver = 0
  /\ pc = "erase" => hdr[slot].ver # ver

LEMMA VerNext ==
  ASSUME CtlInv, CtlInv', VerInv, [Next]_vars
  PROVE  VerInv'
<1>1. CASE pc' \notin Session
  <2>1. pc \notin Session \/ ver' = 0
    BY <1>1 DEF Session, Next, Download, Pairing, Torn, Publish, PowerLoss, Dissociate,
       Associate, PairErase, PairSave, CheckIn, Erase, WriteHeader, NoChunk, BadChunk,
       WriteData, ClearBit, MarkValid, TornHeader, TornData, TornMark, TornErase, StartPieces,
       EndSession, Sleep, ram, vars
  <2>2. pc \notin Session => ver' \in {0, ver}
    BY <1>1 DEF Session, Next, Download, Pairing, Torn, Publish, PowerLoss, Dissociate,
       Associate, PairErase, PairSave, CheckIn, Erase, WriteHeader, NoChunk, BadChunk,
       WriteData, ClearBit, MarkValid, TornHeader, TornData, TornMark, TornErase, StartPieces,
       EndSession, Sleep, ram, vars
  <2> QED
    BY <1>1, <2>1, <2>2 DEF VerInv, Session
<1>2. CASE pc' = "erase"
  <2>1. CASE CheckIn
    BY <1>2, <2>1 DEF CheckIn, StartPieces, EndSession, Sleep, VerInv, Session, eeprom
  <2>2. CASE Erase
    <3>1. hdr'[slot] = ErasedHdr /\ slot' = slot /\ ver' # 0
      BY <1>2, <2>2, EraseUnitHeaders DEF Erase, CtlInv, WhereInv, Session
    <3> QED
      BY <1>2, <3>1 DEF VerInv, Session, ErasedHdr
  <2>3. CASE pc = "erase" /\ UNCHANGED <<hdr, slot, ver>>
    BY <1>2, <2>3 DEF VerInv, Session
  <2> QED
    BY <1>2, <2>1, <2>2, <2>3 DEF Next, Download, Pairing, Torn, Publish, PowerLoss,
       Dissociate, Associate, PairErase, PairSave, WriteHeader, NoChunk, BadChunk,
       WriteData, ClearBit, MarkValid, TornHeader, TornData, TornMark, TornErase, StartPieces,
       EndSession, Sleep, eeprom, ram, vars
<1>3. CASE pc' \in Session /\ pc' # "erase"
  BY <1>3 DEF VerInv
<1> QED
  BY <1>1, <1>2, <1>3

(* What a step does to the slot of a session that holds a part of its image.*)
LEMMA ProgressStep ==
  ASSUME CtlInv, VerInv, Next, ver # 0, hdr[slot].ver = ver
  PROVE  hdr'[slot].ver = ver /\ hdr'[slot].missing \subseteq hdr[slot].missing
<1>1. /\ TypeOK /\ WhereInv /\ slot \in Slots /\ hdr[slot] \in Header
      /\ hdr \in [Slots -> Header]
  BY DEF CtlInv, TypeOK
<1>2. pc \in Filling
  <2>1. ErasedHdr.ver = 0
    BY DEF ErasedHdr
  <2> QED
    BY <1>1, <2>1 DEF VerInv, WhereInv, Session, Filling
<1>3. CASE WriteData \/ TornData
  BY <1>1, <1>3, ProgramHeaders DEF WriteData, TornData
<1>4. CASE ClearBit
  <2> DEFINE h == [hdr[slot] EXCEPT !.missing = @ \ {piece}]
  <2>1. h.ver = hdr[slot].ver /\ h.missing = hdr[slot].missing \ {piece}
    BY <1>1 DEF Header
  <2>2. hdr'[slot] = h
    BY <1>1, <1>4 DEF ClearBit
  <2> QED
    BY <2>1, <2>2
<1>5. CASE MarkValid \/ TornMark
  <2>1. PICK m \in Markers : hdr' = [hdr EXCEPT ![slot].mark = m]
    BY <1>5 DEF MarkValid, TornMark, Markers
  <2> DEFINE h == [hdr[slot] EXCEPT !.mark = m]
  <2>2. h.ver = hdr[slot].ver /\ h.missing = hdr[slot].missing
    BY <1>1 DEF Header
  <2>3. hdr'[slot] = h
    BY <1>1, <2>1
  <2> QED
    BY <2>2, <2>3
<1>6. CASE hdr' = hdr
  BY <1>6
<1>7. ~(CheckIn \/ Erase \/ WriteHeader \/ TornHeader \/ TornErase \/ PairErase \/ PairSave)
  BY <1>2 DEF CheckIn, Erase, WriteHeader, TornHeader, TornErase, PairErase, PairSave,
     Filling
<1> QED
  BY <1>3, <1>4, <1>5, <1>6, <1>7 DEF Next, Download, Pairing, Torn, Publish, PowerLoss,
     Dissociate, Associate, NoChunk, BadChunk, eeprom

(* Downloads only make progress: nothing that an earlier session has stored *)
(* of an image is erased or asked for again by a later one for that image.  *)
THEOREM DownloadsProgress == Spec => ProgressKept
<1>1. Init => VerInv
  BY DEF Init, VerInv, Session
<1>2. CtlInv /\ CtlInv' /\ VerInv /\ [Next]_vars => VerInv'
  BY VerNext
<1>3. CtlInv /\ VerInv /\ [Next]_vars
      => [ver # 0 /\ hdr[slot].ver = ver =>
            hdr'[slot].ver = ver /\ hdr'[slot].missing \subseteq hdr[slot].missing]_vars
  BY ProgressStep
<1> QED
  BY <1>1, <1>2, <1>3, CtlAlways, PTL DEF Spec, ProgressKept
-----------------------------------------------------------------------------
(* One download at a time, for images of any size and on every board, those *)
(* whose images start at address 0 and those with a single slot included.   *)

Single ==
  /\ \A s, t \in Marked("inprogress") : s = t
  /\ ImgStart = 0 => \A s \in Marked("inprogress") \cup Marked("valid") : s = 0

OneInv ==
  /\ pc = "sleep" => slot = 0
  /\ pc \in Session => /\ paired /\ (ImgStart = 0 => slot = 0)
                       /\ \A s \in Slots : s # slot => hdr[s].mark # "inprogress"
  /\ pc \in {"pairErase", "pairSave"} => ~paired
  /\ pc = "pairErase" => \A s \in 0 .. slot - 1 : hdr[s] = ErasedHdr
  /\ pc = "pairSave" => \A s \in Slots : hdr[s] = ErasedHdr
  /\ paired => Single

(* A step writes the header of the slot that the firmware works on, and may *)
(* spoil others.                                                            *)
LEMMA HeadersElsewhere ==
  ASSUME CtlInv, Next
  PROVE  \A s \in Slots : s # slot => hdr'[s] = hdr[s] \/ hdr'[s] = GarbageHdr
<1>1. TypeOK /\ slot \in Slots /\ hdr \in [Slots -> Header]
  BY DEF CtlInv, TypeOK
<1>2. CASE \/ PowerLoss \/ Dissociate \/ Associate \/ PairSave \/ CheckIn
           \/ NoChunk \/ BadChunk \/ \E v \in Versions \cup {0} : Publish(v)
  BY <1>2 DEF PowerLoss, Dissociate, Associate, PairSave, CheckIn, NoChunk, BadChunk,
     Publish, eeprom
<1>3. CASE Erase \/ PairErase
  BY <1>1, <1>3 DEF Erase, PairErase, EraseUnit
<1>4. CASE WriteHeader \/ ClearBit \/ MarkValid \/ TornHeader \/ TornMark
  BY <1>1, <1>4 DEF WriteHeader, ClearBit, MarkValid, TornHeader, TornMark
<1>5. CASE WriteData \/ TornData
  BY <1>5, ProgramHeaders DEF WriteData, TornData
<1>6. CASE TornErase
  BY <1>6, TornEraseHeaders
<1> QED
  BY <1>2, <1>3, <1>4, <1>5, <1>6 DEF Next, Download, Pairing, Torn

(* The slot that a check-in picks is the one in progress, if there is one.  *)
LEMMA TargetResumes ==
  ASSUME TypeOK, Single
  PROVE  /\ \A s \in Marked("inprogress") : s = Target
         /\ ImgStart = 0 => Target = 0
<1>1. \A s \in Slots : s \in Nat
  BY DEF Slots
<1>2. \A m : Marked(m) # {} => Latest(Marked(m)) \in Marked(m) /\ Latest(Marked(m)) \in Slots
  <2>1. hdr \in [Slots -> Header] /\ \A m : Marked(m) \in SUBSET Slots
    BY DEF Marked, TypeOK
  <2> QED
    BY <2>1, LatestFound
<1>3. ASSUME ImgStart = 0
      PROVE  Target = 0
  <2>1. LatestAddr("inprogress") = 0 /\ LatestAddr("valid") = 0
    BY <1>2, <1>3 DEF Single, LatestAddr, Addr
  <2> QED
    BY <1>3, <2>1 DEF Target, TargetAddr
<1>4. ASSUME ImgStart > 0, NEW s \in Marked("inprogress")
      PROVE  s = Target
  <2>1. s = Latest(Marked("inprogress")) /\ s \in Nat
    BY <1>1, <1>2 DEF Single, Marked
  <2>2. LatestAddr("inprogress") = ImgStart + s /\ ImgStart + s # 0
    BY <1>4, <2>1, ConstantFacts DEF LatestAddr, Addr
  <2> QED
    BY <2>1, <2>2, ConstantFacts DEF Target, TargetAddr
<1>5. ASSUME ImgStart = 0, NEW s \in Marked("inprogress")
      PROVE  s = Target
  BY <1>3, <1>5 DEF Single
<1> QED
  BY <1>3, <1>4, <1>5, ConstantFacts

(* A step of a session, whatever it does to its own slot.                   *)
LEMMA OneSession ==
  ASSUME CtlInv, CtlInv', OneInv, Next, pc \in Session, paired' = paired,
         \/ pc' = "sleep" /\ slot' = 0
         \/ pc' \in Session /\ slot' = slot
  PROVE  OneInv'
<1>1. /\ paired /\ (ImgStart = 0 => slot = 0) /\ Single
      /\ \A s \in Slots : s # slot => hdr[s].mark # "inprogress"
  BY DEF OneInv
<1>2. \A s \in Slots : s # slot => hdr'[s] = hdr[s] \/ hdr'[s] = GarbageHdr
  BY HeadersElsewhere
<1>3. GarbageHdr.mark = "other"
  BY DEF GarbageHdr
<1>4. \A s \in Slots : s # slot =>
        /\ hdr'[s].mark # "inprogress"
        /\ hdr'[s].mark = "valid" => hdr[s].mark = "valid"
  BY <1>1, <1>2, <1>3
<1>5. Single'
  BY <1>1, <1>4 DEF Single, Marked
<1> QED
  BY <1>1, <1>4, <1>5 DEF OneInv, Session

LEMMA OneCheckIn ==
  ASSUME CtlInv, OneInv, CheckIn
  PROVE  OneInv'
<1>1. TypeOK /\ paired /\ Single /\ hdr' = hdr /\ paired' = paired
  BY DEF CtlInv, OneInv, CheckIn, eeprom
<1>2. \/ pc' = "sleep" /\ slot' = 0
      \/ pc' \in Session /\ slot' = Target
  BY DEF CheckIn, StartPieces, EndSession, Sleep, Session
<1>3. \A s \in Slots : s # Target => hdr'[s].mark # "inprogress"
  BY <1>1, TargetResumes DEF Marked
<1>4. Single'
  BY <1>1 DEF Single, Marked
<1> QED
  BY <1>1, <1>2, <1>3, <1>4, TargetResumes DEF OneInv, Session

LEMMA OnePairErase ==
  ASSUME CtlInv, OneInv, PairErase
  PROVE  OneInv'
<1>1. /\ TypeOK /\ pc = "pairErase" /\ EraseUnit /\ ~paired /\ paired' = paired
      /\ \/ pc' = "pairErase" /\ slot' = slot
         \/ pc' = "pairErase" /\ slot' = slot + 1
         \/ pc' = "pairSave" /\ slot' = slot /\ slot + 1 = NumSlots
  BY DEF CtlInv, OneInv, PairErase
<1>2. /\ hdr'[slot] = ErasedHdr
      /\ \A s \in Slots : s # slot => hdr'[s] = hdr[s]
  BY <1>1, EraseUnitHeaders
<1>3. \A s \in 0 .. slot : hdr'[s] = ErasedHdr
  BY <1>1, <1>2, ConstantFacts DEF OneInv, TypeOK, Slots
<1>4. slot \in Nat /\ \A s \in 0 .. slot' - 1 : pc' = "pairErase" => s \in 0 .. slot
  BY <1>1, ConstantFacts DEF TypeOK, Slots
<1>5. pc' = "pairSave" => \A s \in Slots : s \in 0 .. slot
  BY <1>1, <1>4, ConstantFacts DEF Slots
<1> QED
  BY <1>1, <1>3, <1>4, <1>5 DEF OneInv, Session

LEMMA OnePairSave ==
  ASSUME CtlInv, OneInv, PairSave
  PROVE  OneInv'
<1>1. /\ pc = "pairSave" /\ hdr' = hdr /\ paired' = TRUE /\ pc' = "sleep" /\ slot' = 0
  BY DEF PairSave, Sleep
<1>2. \A s \in Slots : hdr'[s].mark = "erased"
  BY <1>1 DEF OneInv, ErasedHdr
<1>3. Single'
  BY <1>2 DEF Single, Marked
<1> QED
  BY <1>1, <1>3 DEF OneInv, Session

(* A step that writes no header, and ends the wake-up, leaves the firmware  *)
(* where it was, or begins a pairing.                                       *)
LEMMA OneQuiet ==
  ASSUME OneInv, hdr' = hdr, paired' => paired,
         \/ pc' = "sleep" /\ slot' = 0
         \/ UNCHANGED <<pc, slot, paired>>
         \/ pc = "sleep" /\ ~paired' /\ slot' = slot /\ pc' \in {"sleep", "pairErase"}
  PROVE  OneInv'
<1>1. Single' = Single
  BY DEF Single, Marked
<1> QED
  BY <1>1 DEF OneInv, Session

LEMMA OneWorld ==
  ASSUME CtlInv, OneInv,
         \/ PowerLoss \/ Dissociate \/ Associate \/ \E v \in Versions \cup {0} : Publish(v)
  PROVE  OneInv'
<1>1. CASE PowerLoss \/ \E v \in Versions \cup {0} : Publish(v)
  BY <1>1, OneQuiet DEF PowerLoss, Publish, Sleep, eeprom, ram
<1>2. CASE Dissociate
  BY <1>2, OneQuiet DEF Dissociate, ram
<1>3. CASE Associate
  BY <1>3, OneQuiet DEF Associate, eeprom
<1> QED
  BY <1>1, <1>2, <1>3

LEMMA OneNext ==
  ASSUME CtlInv, CtlInv', OneInv, [Next]_vars
  PROVE  OneInv'
<1>1. CASE Erase \/ WriteHeader \/ TornHeader
  <2>1. /\ pc \in {"erase", "header"} /\ paired' = paired
        /\ \/ pc' = "sleep" /\ slot' = 0
           \/ pc' \in {"erase", "header", "mark", "request"} /\ slot' = slot
    BY <1>1 DEF Erase, WriteHeader, TornHeader, StartPieces, EndSession, Sleep
  <2> QED
    BY <1>1, <2>1, OneSession DEF Session, Next, Download, Torn
<1>2. CASE NoChunk \/ BadChunk \/ WriteData \/ TornData \/ ClearBit \/ MarkValid \/ TornMark
  <2>1. /\ pc \in {"request", "bit", "mark"} /\ paired' = paired
        /\ \/ pc' = "sleep" /\ slot' = 0
           \/ pc' \in {"bit", "mark", "request"} /\ slot' = slot
    BY <1>2 DEF NoChunk, BadChunk, WriteData, TornData, ClearBit, MarkValid, TornMark,
       EndSession, Sleep, eeprom
  <2> QED
    BY <1>2, <2>1, OneSession DEF Session, Next, Download, Torn
<1>3. CASE TornErase
  <2>1. paired' = paired /\ pc' = "sleep" /\ slot' = 0 /\ pc \in {"erase", "pairErase"}
    BY <1>3 DEF TornErase, Sleep
  <2>2. CASE pc = "erase"
    BY <1>3, <2>1, <2>2, OneSession DEF Session, Next, Torn
  <2>3. CASE pc = "pairErase"
    BY <2>1, <2>3 DEF OneInv, Session
  <2> QED
    BY <2>1, <2>2, <2>3
<1>4. CASE UNCHANGED vars
  BY <1>4, OneQuiet DEF vars
<1> QED
  BY <1>1, <1>2, <1>3, <1>4, OneCheckIn, OnePairErase, OnePairSave, OneWorld
     DEF Next, Download, Pairing, Torn

LEMMA OneAlways == Spec => [](CtlInv /\ OneInv)
<1>1. Init => OneInv
  BY DEF Init, OneInv, Session
<1>2. CtlInv /\ OneInv /\ [Next]_vars => (CtlInv /\ OneInv)'
  BY CtlNext, OneNext
<1> QED
  BY <1>1, <1>2, CtlInit, PTL DEF Spec

(* A paired tag has one unfinished download at most, and it is the one that *)
(* the next check-in goes on with, whatever the images and the board.       *)
THEOREM OneUnfinishedDownload == Spec => []OneDownload
<1>1. CtlInv /\ OneInv => OneDownload
  BY TargetResumes DEF CtlInv, OneInv, OneDownload
<1> QED
  BY <1>1, OneAlways, PTL

-----------------------------------------------------------------------------
(* The integrity of images, where those that are downloaded fit their slots.*)

(* What a slot's header says of its cells, unless it outlived an erase. *)
RoomInv(s) ==
  hdr[s].ver # 0 /\ s \notin hurt =>
    /\ \A p \in Pieces : cell[s][p] = Blank \/ cell[s][p].ver = hdr[s].ver
    /\ \A p \in Bits : p < NPieces(hdr[s]) /\ p \notin hdr[s].missing
         => Holds(s, p, hdr[s].ver)

(* What an erasure, or a download, has done to its slot so far. *)
DoneInv ==
  /\ pc = "erase" => \A p \in Pieces : SecOf[p] < sec => cell[slot][p] = Blank
  /\ pc = "header" => \A p \in Pieces : cell[slot][p] = Blank
  /\ pc = "bit" /\ slot \notin hurt => Holds(slot, piece, ver)

RoomsInv == (\A s \in Slots : RoomInv(s)) /\ DoneInv

IInv == CtlInv /\ RoomsInv

(* A slot that a step leaves alone keeps its part of the invariant. *)
LEMMA RoomFrame ==
  ASSUME NEW s \in Slots, RoomInv(s), hdr'[s] = hdr[s], cell'[s] = cell[s],
         s \in hurt => s \in hurt'
  PROVE  RoomInv(s)'
BY DEF RoomInv, NPieces, Holds

LEMMA RoomsFrame ==
  ASSUME RoomsInv, hdr' = hdr, cell' = cell, hurt' = hurt
  PROVE  \A s \in Slots : RoomInv(s)'
BY RoomFrame DEF RoomsInv

(* A header with all pieces missing, over a slot that is blank. *)
LEMMA RoomBlank ==
  ASSUME NEW s \in Slots, \A p \in Pieces : cell'[s][p] = Blank, hdr'[s].missing = Bits
  PROVE  RoomInv(s)'
BY DEF RoomInv

LEMMA EraseRooms ==
  ASSUME IInv, Erase \/ PairErase
  PROVE  RoomsInv'
<1>1. EraseUnit /\ pc \in {"erase", "pairErase"} /\ slot \in Slots /\ TypeOK /\ WhereInv
  BY DEF IInv, CtlInv, TypeOK, Erase, PairErase
<1>2. /\ hdr'[slot] = ErasedHdr
      /\ \A s \in Slots : s # slot =>
           hdr'[s] = hdr[s] /\ cell'[s] = cell[s] /\ (s \in hurt' <=> s \in hurt)
      /\ \A p \in Pieces :
           cell'[slot][p] = IF SecOf[p] = sec THEN Blank ELSE cell[slot][p]
  BY <1>1, EraseUnitHeaders DEF IInv
<1>3. \A s \in Slots : RoomInv(s)'
  <2>1. ASSUME NEW s \in Slots, s = slot PROVE RoomInv(s)'
    BY <1>2, <2>1 DEF RoomInv, ErasedHdr
  <2> QED
    BY <1>2, <2>1, RoomFrame DEF IInv, RoomsInv
<1>4. CASE PairErase
  BY <1>3, <1>4 DEF RoomsInv, DoneInv, PairErase
<1>5. CASE Erase
  <2>1. sec \in Nat /\ sec < NumSecs /\ slot' = slot /\ sec' = sec + 1
        /\ pc' \in {"erase", "header"} /\ (pc' = "header" => sec + 1 = NumSecs)
    BY <1>1, <1>5, ConstantFacts DEF Erase, TypeOK, WhereInv
  <2>2. ASSUME NEW p \in Pieces
        PROVE  /\ SecOf[p] < sec + 1 => cell'[slot][p] = Blank
               /\ SecOf[p] < NumSecs
    <3>1. SecOf[p] \in Nat /\ SecOf[p] < NumSecs
      BY ConstantFacts
    <3>2. SecOf[p] < sec => cell[slot][p] = Blank
      BY <1>5 DEF IInv, RoomsInv, DoneInv, Erase
    <3>3. SecOf[p] < sec + 1 => SecOf[p] < sec \/ SecOf[p] = sec
      BY <2>1, <3>1
    <3> QED
      BY <1>2, <3>1, <3>2, <3>3
  <2> QED
    BY <1>3, <2>1, <2>2 DEF RoomsInv, DoneInv
<1> QED
  BY <1>4, <1>5

LEMMA HeaderRooms ==
  ASSUME IInv, WriteHeader \/ TornHeader
  PROVE  RoomsInv'
<1>1. /\ TypeOK /\ WhereInv /\ pc = "header" /\ slot \in Slots /\ cell' = cell
      /\ hurt' = hurt /\ pc' \in {"sleep", "request", "mark"}
  BY DEF IInv, CtlInv, TypeOK, WriteHeader, TornHeader, StartPieces, EndSession, Sleep
<1>2. /\ hdr'[slot].missing = Bits
      /\ \A s \in Slots : s # slot => hdr'[s] = hdr[s]
  <2>1. CASE WriteHeader
    BY <1>1, <2>1 DEF WriteHeader, NewHdr, TypeOK
  <2>2. CASE TornHeader
    BY <1>1, <2>2 DEF TornHeader, TypeOK
  <2> QED
    BY <2>1, <2>2
<1>3. \A p \in Pieces : cell'[slot][p] = Blank
  BY <1>1 DEF IInv, RoomsInv, DoneInv
<1>4. \A s \in Slots : RoomInv(s)'
  BY <1>1, <1>2, <1>3, RoomFrame, RoomBlank DEF IInv, RoomsInv
<1> QED
  BY <1>1, <1>4 DEF RoomsInv, DoneInv

(* The firmware asks for pieces only that the slot has room for. *)
LEMMA PieceFits ==
  ASSUME SizesFit, CtlInv, pc \in {"request", "bit"}
  PROVE  /\ piece \in Pieces /\ piece \in Bits /\ piece < SlotCap
         /\ slot \in Slots /\ ver \in Versions /\ hdr[slot].ver = ver /\ ver # 0
<1>1. /\ TypeOK /\ slot \in Slots /\ ver \in Versions /\ ver # 0 /\ piece \in Nat
      /\ hdr[slot] \in Header /\ HeaderOk(hdr[slot]) /\ FillOk(hdr[slot])
  BY ConstantFacts DEF CtlInv, InOrder, TypeOK, WhereInv, Session, Filling
<1>2. /\ hdr[slot].ver = ver /\ piece < NPieces(hdr[slot]) /\ NPieces(hdr[slot]) <= PieceCap
  BY <1>1 DEF FillOk
<1>3. hdr[slot].size = Size[ver] /\ NPieces(hdr[slot]) = Size[ver] /\ Size[ver] \in Nat
  BY <1>1, <1>2, ConstantFacts DEF HeaderOk, NPieces, Unwritten
<1>4. Size[ver] <= SlotCap
  BY <1>1, <1>2, <1>3, ConstantFacts DEF SizesFit
<1> QED
  BY <1>1, <1>2, <1>3, <1>4, ConstantFacts DEF Pieces, Bits

(* Programming a piece of the version in the slot's header. *)
LEMMA ProgramKeeps ==
  ASSUME SizesFit, IInv, pc = "request", NEW whole \in BOOLEAN, Program(piece, whole),
         hurt' = hurt
  PROVE  /\ hdr' = hdr
         /\ \A s \in Slots : s # slot => cell'[s] = cell[s]
         /\ \A s \in Slots : RoomInv(s)'
         /\ whole /\ slot \notin hurt => cell'[slot][piece] = [ver |-> ver, whole |-> TRUE]
<1>1. /\ TypeOK /\ slot \in Slots /\ ver \in Versions /\ RoomInv(slot)
      /\ hdr[slot].ver = ver /\ ver # 0 /\ piece \in Pieces /\ piece < SlotCap /\ piece \in Nat
  BY PieceFits DEF IInv, CtlInv, RoomsInv, Pieces
<1> DEFINE c == cell[slot][piece]
           d == Programmed(c, ver, whole)
<1>3. hdr' = hdr /\ cell' = [cell EXCEPT ![slot][piece] = d]
  BY <1>1, ConstantFacts DEF Program
<1>4. c \in Content /\ (slot \notin hurt => c = Blank \/ c.ver = ver)
  BY <1>1 DEF RoomInv, TypeOK
<1>5. slot \notin hurt => d = [ver |-> ver, whole |-> whole \/ (c.ver = ver /\ c.whole)]
  BY <1>4 DEF Programmed
<1>6. slot \notin hurt =>
        /\ d.ver = ver
        /\ whole => d = [ver |-> ver, whole |-> TRUE]
        /\ c = [ver |-> ver, whole |-> TRUE] => d = c
  <2>1. slot \notin hurt => d.ver = ver
    BY <1>5
  <2>2. whole => (whole \/ (c.ver = ver /\ c.whole)) = TRUE
    OBVIOUS
  <2>3. c = [ver |-> ver, whole |-> TRUE] => (whole \/ (c.ver = ver /\ c.whole)) = TRUE
    OBVIOUS
  <2> QED
    BY <1>5, <2>1, <2>2, <2>3
<1> HIDE DEF c, d
<1>7. /\ cell'[slot][piece] = d
      /\ \A s \in Slots : s # slot => cell'[s] = cell[s]
      /\ \A p \in Pieces : p # piece => cell'[slot][p] = cell[slot][p]
  BY <1>1, <1>3 DEF TypeOK
<1>8. \A s \in Slots : s # slot => RoomInv(s)'
  BY <1>3, <1>7, RoomFrame DEF IInv, RoomsInv
<1>9. ASSUME NEW s \in Slots, s = slot, slot \notin hurt PROVE RoomInv(s)'
  <2>1. ASSUME NEW p \in Pieces
        PROVE  cell'[slot][p] = Blank \/ cell'[slot][p].ver = ver
    <3>1. CASE p = piece
      BY <1>6, <1>7, <1>9, <3>1
    <3>2. CASE p # piece
      BY <1>1, <1>7, <1>9, <3>2 DEF RoomInv
    <3> QED
      BY <3>1, <3>2
  <2>2. ASSUME NEW p \in Bits, p < NPieces(hdr[slot]), p \notin hdr[slot].missing
        PROVE  cell'[slot][p] = [ver |-> ver, whole |-> TRUE]
    <3>1. p # piece
      BY <1>9, <2>2 DEF IInv, CtlInv, WhereInv, FillOk, Filling
    <3>2. cell[slot][p] = [ver |-> ver, whole |-> TRUE]
      BY <1>1, <1>9, <2>2 DEF RoomInv, Holds
    <3>3. cell'[slot] = [cell[slot] EXCEPT ![piece] = d]
      BY <1>1, <1>3 DEF TypeOK
    <3> QED
      BY <3>1, <3>2, <3>3
  <2> QED
    BY <1>1, <1>3, <1>9, <2>1, <2>2 DEF RoomInv, NPieces, Holds
<1>10. ASSUME NEW s \in Slots, s = slot, slot \in hurt PROVE RoomInv(s)'
  BY <1>10 DEF RoomInv
<1> QED
  BY <1>3, <1>6, <1>7, <1>8, <1>9, <1>10

LEMMA DataRooms ==
  ASSUME SizesFit, IInv, WriteData \/ TornData
  PROVE  RoomsInv'
<1>1. pc = "request" /\ hurt' = hurt
  BY DEF WriteData, TornData
<1>2. CASE WriteData
  <2>1. Program(piece, TRUE) /\ pc' = "bit" /\ slot' = slot /\ ver' = ver /\ piece' = piece
    BY <1>2 DEF WriteData
  <2>2. /\ \A s \in Slots : RoomInv(s)'
        /\ slot \notin hurt => cell'[slot][piece] = [ver |-> ver, whole |-> TRUE]
    BY <1>1, <2>1, ProgramKeeps
  <2> QED
    BY <1>1, <2>1, <2>2 DEF RoomsInv, DoneInv, Holds
<1>3. CASE TornData
  <2>1. Program(piece, FALSE) /\ pc' = "sleep"
    BY <1>3 DEF TornData, Sleep
  <2>2. \A s \in Slots : RoomInv(s)'
    BY <1>1, <2>1, ProgramKeeps
  <2> QED
    BY <2>1, <2>2 DEF RoomsInv, DoneInv
<1> QED
  BY <1>2, <1>3

LEMMA ClearBitRooms ==
  ASSUME IInv, ClearBit
  PROVE  RoomsInv'
<1>1. /\ TypeOK /\ pc = "bit" /\ slot \in Slots /\ RoomInv(slot) /\ hdr[slot] \in Header
      /\ hdr[slot].ver = ver /\ cell' = cell /\ hurt' = hurt /\ pc' \in {"mark", "request"}
      /\ hdr' = [hdr EXCEPT ![slot].missing = @ \ {piece}]
      /\ slot \notin hurt => Holds(slot, piece, ver)
  BY DEF IInv, CtlInv, TypeOK, WhereInv, FillOk, Filling, RoomsInv, DoneInv, ClearBit
<1> DEFINE h == [hdr[slot] EXCEPT !.missing = @ \ {piece}]
<1>2. h.ver = ver /\ h.size = hdr[slot].size /\ h.missing = hdr[slot].missing \ {piece}
  BY <1>1 DEF Header
<1>3. hdr'[slot] = h /\ \A s \in Slots : s # slot => hdr'[s] = hdr[s]
  BY <1>1 DEF TypeOK
<1> HIDE DEF h
<1>4. ASSUME NEW s \in Slots, s = slot PROVE RoomInv(s)'
  BY <1>1, <1>2, <1>3, <1>4 DEF RoomInv, NPieces, Holds
<1>5. \A s \in Slots : RoomInv(s)'
  BY <1>1, <1>3, <1>4, RoomFrame DEF IInv, RoomsInv
<1> QED
  BY <1>1, <1>5 DEF RoomsInv, DoneInv

LEMMA MarkRooms ==
  ASSUME IInv, MarkValid \/ TornMark
  PROVE  RoomsInv'
<1>1. PICK m \in Markers : hdr' = [hdr EXCEPT ![slot].mark = m]
  BY DEF MarkValid, TornMark, Markers
<1>2. /\ TypeOK /\ slot \in Slots /\ hdr[slot] \in Header /\ pc = "mark" /\ pc' = "sleep"
      /\ cell' = cell /\ hurt' = hurt /\ RoomInv(slot)
  BY DEF IInv, CtlInv, TypeOK, RoomsInv, MarkValid, TornMark, EndSession, Sleep
<1>3. /\ hdr'[slot] = [hdr[slot] EXCEPT !.mark = m]
      /\ \A s \in Slots : s # slot => hdr'[s] = hdr[s]
  BY <1>1, <1>2, MarkHeaders DEF IInv
<1>4. hdr'[slot].ver = hdr[slot].ver /\ hdr'[slot].size = hdr[slot].size
      /\ hdr'[slot].missing = hdr[slot].missing
  BY <1>2, <1>3 DEF Header
<1>5. ASSUME NEW s \in Slots, s = slot PROVE RoomInv(s)'
  BY <1>2, <1>4, <1>5 DEF RoomInv, NPieces, Holds
<1>6. \A s \in Slots : RoomInv(s)'
  BY <1>2, <1>3, <1>5, RoomFrame DEF IInv, RoomsInv
<1> QED
  BY <1>2, <1>6 DEF RoomsInv, DoneInv

(* A step that writes nothing to the slots. *)
LEMMA QuietRooms ==
  ASSUME IInv,
         \/ PowerLoss \/ Dissociate \/ PairSave \/ Associate \/ CheckIn
         \/ NoChunk \/ BadChunk \/ UNCHANGED vars
         \/ \E v \in Versions \cup {0} : Publish(v)
  PROVE  RoomsInv'
<1>1. /\ hdr' = hdr /\ cell' = cell /\ hurt' = hurt
      /\ \/ pc' \in {"sleep", "pairErase", "request", "mark"}
         \/ UNCHANGED <<pc, slot, ver, sec, piece>>
         \/ pc = "sleep" /\ pc' = "erase" /\ sec' = sec
  BY DEF PowerLoss, Dissociate, PairSave, Associate, CheckIn, NoChunk, BadChunk, Publish,
     StartPieces, EndSession, Sleep, eeprom, ram, vars
<1>2. \A s \in Slots : RoomInv(s)'
  BY <1>1, RoomsFrame DEF IInv
<1>3. pc = "sleep" => sec = 0
  BY DEF IInv, CtlInv, WhereInv
<1>4. \A p \in Pieces : ~ (SecOf[p] < 0)
  BY ConstantFacts
<1>5. DoneInv'
  BY <1>1, <1>3, <1>4 DEF IInv, RoomsInv, DoneInv, Holds
<1> QED
  BY <1>2, <1>5 DEF RoomsInv

(* What an erase that is cut short leaves of a slot is not relied on. *)
LEMMA TornEraseRooms ==
  ASSUME IInv, TornErase
  PROVE  RoomsInv'
<1>1. ErasedHdr.ver = 0 /\ pc' = "sleep"
  BY DEF ErasedHdr, TornErase, Sleep
<1>2. \A s \in Slots : s # slot => hdr'[s] = hdr[s] /\ cell'[s] = cell[s]
  BY TornEraseHeaders DEF IInv
<1>3. hurt \subseteq hurt' /\ (hdr'[slot] = ErasedHdr \/ slot \in hurt')
  BY TornEraseHeaders DEF IInv
<1>4. \A s \in Slots : s # slot => RoomInv(s)'
  BY <1>2, <1>3, RoomFrame DEF IInv, RoomsInv
<1>5. ASSUME NEW s \in Slots, s = slot PROVE RoomInv(s)'
  BY <1>1, <1>3, <1>5 DEF RoomInv
<1> QED
  BY <1>1, <1>4, <1>5 DEF RoomsInv, DoneInv

LEMMA IInvInit == Init => IInv
  BY CtlInit DEF Init, IInv, RoomsInv, RoomInv, DoneInv, GarbageHdr

LEMMA IInvNext == SizesFit /\ IInv /\ [Next]_vars => IInv'
<1> SUFFICES ASSUME SizesFit, IInv, [Next]_vars PROVE IInv'
  OBVIOUS
<1>1. CtlInv'
  BY CtlNext DEF IInv
<1>2. RoomsInv'
  BY EraseRooms, HeaderRooms, DataRooms, ClearBitRooms, MarkRooms, QuietRooms, TornEraseRooms
     DEF Next, Download, Pairing, Torn
<1> QED
  BY <1>1, <1>2 DEF IInv

LEMMA IInvAlways ==
  ASSUME SizesFit
  PROVE  Spec => []IInv
<1>1. Init => IInv
  BY IInvInit
<1>2. IInv /\ [Next]_vars => IInv'
  BY IInvNext
<1> QED
  BY <1>1, <1>2, PTL DEF Spec

(* Of a slot with a valid mark every piece has its bit cleared. *)
LEMMA ValidIsFull ==
  ASSUME IInv, NEW s \in Marked("valid") \ hurt
  PROVE  /\ s \in Slots /\ hdr[s].ver # 0
         /\ \A p \in 0 .. NPieces(hdr[s]) - 1 : Holds(s, p, hdr[s].ver)
<1>1. /\ s \in Slots /\ hdr[s].mark = "valid" /\ hdr[s] \in Header /\ HeaderOk(hdr[s])
      /\ BitmapOk(hdr[s]) /\ RoomInv(s) /\ s \notin hurt
  BY DEF Marked, IInv, CtlInv, InOrder, TypeOK, RoomsInv
<1>2. NPieces(hdr[s]) \in Nat /\ NPieces(hdr[s]) <= PieceCap
  BY <1>1, NPiecesType DEF HeaderOk
<1>3. \A p \in 0 .. NPieces(hdr[s]) - 1 : p \in Bits /\ p < NPieces(hdr[s])
  BY <1>2, ConstantFacts DEF Bits
<1> QED
  BY <1>1, <1>3 DEF HeaderOk, BitmapOk, RoomInv

(* An image marked valid has all of its pieces, for any number of slots,    *)
(* any images that fit or are refused, and any pattern of lost packets and  *)
(* power losses, torn programs and torn erases included, unless its header  *)
(* was itself in an erase that was cut short and has not been erased since. *)
THEOREM ImagesAreWhole ==
  ASSUME SizesFit
  PROVE  Spec => []ImageWhole
<1>1. Spec => []IInv
  BY IInvAlways
<1>2. IInv => ImageWhole
  BY ValidIsFull DEF ImageWhole
<1> QED
  BY <1>1, <1>2, PTL

(* The bitmap of missing pieces never claims too much, unless its header    *)
(* was in an erase that was cut short and has not been erased since.        *)
THEOREM BitmapIsTrue ==
  ASSUME SizesFit
  PROVE  Spec => []BitmapTrue
<1>1. Spec => []IInv
  BY IInvAlways
<1>2. IInv => BitmapTrue
  BY DEF IInv, RoomsInv, RoomInv, BitmapTrue
<1> QED
  BY <1>1, <1>2, PTL

(* A download stays in the space of its image (eeprom.h) if no image lies   *)
(* between the room of a slot and that of the bitmap, which prvDriveDownload*)
(* does not check: nothing else, no torn program or erase, leads there.     *)
THEOREM FittingImagesStayInside ==
  ASSUME SizesFit
  PROVE  Spec => []InOwnSpace
<1>1. CtlInv => InOwnSpace
  BY PieceFits DEF InOwnSpace
<1> QED
  BY <1>1, CtlAlways, PTL

(* A slot marked valid describes the image of its version, all of it stored *)
(* (prvDriveDownload), unless power is lost inside the program of a page or *)
(* inside an erase: the runs that refute DownloadDone and DoneWhenMarked    *)
(* need a torn header and a torn erase.                                     *)
THEOREM FinishedDownloadsAreDone ==
  ASSUME SizesFit, ~TornWrites, MaxHurt = 0
  PROVE  Spec => []DownloadDone
<1>1. IInv /\ hurt = {} => DownloadDone
  <2> SUFFICES ASSUME IInv, hurt = {}, NEW s \in Marked("valid")
               PROVE  /\ hdr[s].ver # 0 /\ hdr[s].size = Size[hdr[s].ver]
                      /\ \A p \in 0 .. hdr[s].size - 1 : Holds(s, p, hdr[s].ver)
    BY DEF DownloadDone
  <2>1. s \in Slots /\ hdr[s].ver # 0 /\ HeaderOk(hdr[s])
    BY ValidIsFull DEF IInv, CtlInv, InOrder
  <2>2. hdr[s].size = Size[hdr[s].ver] /\ hdr[s].size # Unwritten
    BY <2>1 DEF HeaderOk
  <2> QED
    BY <2>1, <2>2, ValidIsFull DEF NPieces
<1>2. Spec => []IInv
  BY IInvAlways
<1>3. Init => hurt = {}
  BY DEF Init
<1>4. hurt = {} /\ [Next]_vars => (hurt = {})'
  <2>1. ~TornErase
    BY DEF TornErase
  <2> QED
    BY <2>1 DEF Next, Download, Pairing, Torn, Publish, PowerLoss, Dissociate, Associate,
       PairErase, PairSave, CheckIn, Erase, EraseUnit, WriteHeader, NoChunk, BadChunk,
       WriteData, ClearBit, MarkValid, TornHeader, TornData, TornMark, eeprom, vars
<1> QED
  BY <1>1, <1>2, <1>3, <1>4, PTL DEF Spec

============================================================================

----------------------- MODULE StationImgStore_proofs -----------------------
(***************************************************************************)
(* Proofs about StationImgStore, for volumes of any size: its type          *)
(* invariant, and that it implements SectorDisk.  The refinement needs to   *)
(* know what a flush has done so far, that the FAT is good in flash or in   *)
(* the cache, and what an operation that waits for a flush may rely on.     *)
(***************************************************************************)
EXTENDS StationImgStore, TLAPS

\* A flush programs the page it has in the cache, sector by sector.
FlushInv ==
  /\ pc \in {"erase", "program"} => curSec # 0
  /\ pc # "program" => ofs = 0
  /\ pc = "program" =>
       \A o \in Offsets :
         /\ o < ofs => flash[curSec][o] = cache[o]
         /\ o >= ofs => cache[o] \subseteq flash[curSec][o]

\* The FAT is damaged only while its page is in the cache.
FatInv ==
  /\ curSec = FatPage => IsFat(cache)
  /\ curSec # FatPage => IsFat(flash[FatPage])
  /\ todo.kind = "write" /\ todo.sec = FatSec => todo.val \in FatHeads

\* What an operation was given before its flush still holds behind it.
TodoInv ==
  /\ pc = "resume" /\ todo.kind = "write"  => curSec \in {0, todo.sec[1]}
  /\ pc = "resume" /\ todo.kind = "answer" => curSec = 0
  /\ pc # "idle" /\ todo.kind = "answer"   => todo.val = View(RootSec)

IInv == TypeOK /\ FlushInv /\ FatInv /\ TodoInv

-----------------------------------------------------------------------------
(* Types.                                                                   *)

LEMMA Constants ==
  /\ NumPages \in Nat \ {0} /\ SectorsPerPage \in Nat /\ SectorsPerPage > 1
  /\ 0 \in Offsets /\ 1 \in Offsets /\ FatPage \in Pages
  /\ FatSec \in Sectors /\ RootSec \in Sectors /\ FatSec # RootSec
  /\ FreshPage \in Page /\ FatHeads \subseteq Data
  /\ [o \in Offsets |-> Ones] \in Page
  /\ NoOp \in Op
  BY StoreAssumption DEF Offsets, Pages, Sectors, FatPage, FatSec, RootSec, FreshPage,
     Page, Data, Ones, Zeros, Op, NoOp

LEMMA UnformattedPage ==
  ASSUME NEW pages
  PROVE  Unformatted(pages) \in Pages \cup {0}
  BY Constants DEF Unformatted

LEMMA ViewIsData ==
  ASSUME TypeOK, NEW s \in Sectors
  PROVE  View(s) \in Data
  BY DEF TypeOK, View, Sectors, Page

\* A power loss leaves pages of the volume, changed in the cached page alone.
LEMMA CutInOnePage ==
  ASSUME TypeOK, FlushInv, Cut
  PROVE  \E pages \in [Pages -> Page] :
           /\ PowerLossIn(pages)
           /\ \A p \in Pages : p # curSec => pages[p] = flash[p]
<1>1. CASE PowerLoss
  <2>1. PowerLossIn(flash) /\ flash \in [Pages -> Page]
    BY <1>1 DEF PowerLoss, TypeOK
  <2> QED
    BY <2>1
<1>2. CASE TornErase
  <2>1. PICK page \in Page : PowerLossIn([flash EXCEPT ![curSec] = page])
    BY <1>2 DEF TornErase
  <2>2. curSec \in Pages
    BY <1>2 DEF TornErase, FlushInv, TypeOK
  <2> DEFINE pages == [flash EXCEPT ![curSec] = page]
  <2>3. pages \in [Pages -> Page] /\ \A p \in Pages : p # curSec => pages[p] = flash[p]
    BY <2>2 DEF TypeOK
  <2> QED
    BY <2>1, <2>3
<1>3. CASE TornProgram
  <2>1. PICK d \in Data : PowerLossIn([flash EXCEPT ![curSec][ofs] = d])
    BY <1>3 DEF TornProgram
  <2>2. curSec \in Pages /\ ofs \in Offsets
    BY <1>3 DEF TornProgram, FlushInv, TypeOK
  <2> DEFINE pages == [flash EXCEPT ![curSec][ofs] = d]
  <2>3. pages \in [Pages -> Page] /\ \A p \in Pages : p # curSec => pages[p] = flash[p]
    BY <2>2 DEF TypeOK, Page
  <2> QED
    BY <2>1, <2>3
<1> QED
  BY <1>1, <1>2, <1>3 DEF Cut

\* What Start does, for any operation.
LEMMA StartTyped ==
  ASSUME TypeOK, NEW op \in Op, NEW b \in BOOLEAN, Start(op, b)
  PROVE  TypeOK'
  BY DEF Start, Flush, TypeOK

LEMMA NextTyped ==
  ASSUME TypeOK, FlushInv, [Next]_vars
  PROVE  TypeOK'
<1>1. CASE HostWrites
  <2>1. ASSUME NEW s \in Sectors, NEW d \in Data, HostWrite(s, d) PROVE TypeOK'
    BY <2>1, StartTyped DEF HostWrite, Op
  <2> QED
    BY <1>1, <2>1, Constants DEF HostWrites
<1>2. CASE \E s \in FileSectors : Request(s)
  BY <1>2, StartTyped, ViewIsData, Constants DEF Request, Op, FileSectors
<1>3. CASE IdleFlush
  BY <1>3, StartTyped, Constants DEF IdleFlush
<1>4. CASE Erase
  <2>1. curSec \in Pages
    BY <1>4 DEF Erase, FlushInv, TypeOK
  <2> QED
    BY <1>4, <2>1, Constants DEF Erase, TypeOK
<1>5. CASE Program
  <2>1. curSec \in Pages
    BY <1>5 DEF Program, FlushInv, TypeOK
  <2> DEFINE d == flash[curSec][ofs] \cap cache[ofs]
  <2>2. d \in Data
    BY <2>1 DEF TypeOK, Page, Data
  <2>3. flash' = [flash EXCEPT ![curSec][ofs] = d]
    BY <1>5 DEF Program
  <2> HIDE DEF d
  <2>4. flash' \in [Pages -> Page]
    BY <2>1, <2>2, <2>3 DEF TypeOK, Page
  <2>5. ofs' \in Offsets
    BY <1>5, Constants DEF Program, TypeOK, Offsets
  <2> QED
    BY <1>5, <2>4, <2>5 DEF Program, TypeOK
<1>6. CASE Resume
  <2>1. CASE FinishWrite
    <3> DEFINE page == IF curSec = todo.sec[1] THEN cache ELSE flash[todo.sec[1]]
    <3>1. todo.sec[1] \in Pages /\ todo.sec[2] \in Offsets /\ todo.val \in Data
      BY DEF TypeOK, Op, Sectors
    <3>2. page \in Page
      BY <3>1 DEF TypeOK
    <3>3. cache' = [page EXCEPT ![todo.sec[2]] = todo.val]
      BY <2>1 DEF FinishWrite
    <3> HIDE DEF page
    <3>4. cache' \in Page
      BY <3>1, <3>2, <3>3 DEF Page
    <3> QED
      BY <1>6, <2>1, <3>1, <3>4, Constants DEF Resume, FinishWrite, TypeOK
  <2>2. CASE FinishAnswer
    <3>1. todo.sec[1] \in Pages /\ todo.sec[2] \in Offsets /\ todo.val \in Data
      BY DEF TypeOK, Op, Sectors
    <3>2. answer' \in Data \X Data
      BY <2>2, <3>1 DEF FinishAnswer, TypeOK, Page
    <3> QED
      BY <1>6, <2>2, <3>2, Constants DEF Resume, FinishAnswer, TypeOK
  <2>3. CASE FinishIdle
    BY <1>6, <2>3, Constants DEF Resume, FinishIdle, TypeOK
  <2> QED
    BY <1>6, <2>1, <2>2, <2>3 DEF Resume
<1>7. CASE Cut
  <2>1. PICK pages \in [Pages -> Page] : PowerLossIn(pages)
    BY <1>7, CutInOnePage
  <2>2. Unformatted(pages) \in Pages \cup {0}
    BY UnformattedPage
  <2>3. /\ flash' = pages /\ curSec' = Unformatted(pages) /\ cache' = FreshPage
        /\ pc' = "idle" /\ ofs' = 0 /\ todo' = NoOp /\ answer' = NoAnswer
    BY <2>1 DEF PowerLossIn
  <2> QED
    BY <2>2, <2>3, Constants DEF TypeOK
<1>8. CASE UNCHANGED vars
  BY <1>8 DEF vars, TypeOK
<1> QED
  BY <1>1, <1>2, <1>3, <1>4, <1>5, <1>6, <1>7, <1>8 DEF Next

-----------------------------------------------------------------------------
(* The invariant.                                                           *)

LEMMA InitIInv == Init => IInv
<1> SUFFICES ASSUME Init PROVE IInv
  OBVIOUS
<1>1. flash \in [Pages -> Page]
  BY Constants DEF Init, Page
<1>2. curSec \in Pages \cup {0}
  BY UnformattedPage DEF Init
<1>3. TypeOK
  BY <1>1, <1>2, Constants DEF Init, TypeOK
<1>4. curSec = IF IsFat(flash[FatPage]) THEN 0 ELSE FatPage
  BY DEF Init, Unformatted
<1>5. IsFat(FreshPage) /\ FatPage # 0
  BY StoreAssumption, Constants DEF IsFat, FreshPage, FatPage
<1> QED
  BY <1>3, <1>4, <1>5 DEF Init, IInv, FlushInv, FatInv, TodoInv, NoOp

LEMMA CutIInv ==
  ASSUME IInv, Cut
  PROVE  (FlushInv /\ FatInv /\ TodoInv)'
<1>1. PICK pages \in [Pages -> Page] : PowerLossIn(pages)
  BY CutInOnePage DEF IInv
<1>2. /\ flash' = pages /\ curSec' = Unformatted(pages) /\ cache' = FreshPage
      /\ pc' = "idle" /\ ofs' = 0 /\ todo' = NoOp /\ answer' = NoAnswer
  BY <1>1 DEF PowerLossIn
<1>3. curSec' = IF IsFat(flash'[FatPage]) THEN 0 ELSE FatPage
  BY <1>2 DEF Unformatted
<1>4. IsFat(cache') /\ FatPage # 0
  BY <1>2, StoreAssumption, Constants DEF IsFat, FreshPage, FatPage
<1> QED
  BY <1>2, <1>3, <1>4 DEF FlushInv, FatInv, TodoInv, NoOp

\* What Start leaves alone, and where it goes.
LEMMA StartIInv ==
  ASSUME IInv, NEW op \in Op, NEW b \in BOOLEAN, Start(op, b),
         (op.kind = "write" /\ ~b) => curSec = op.sec[1],
         op.kind = "write" /\ op.sec = FatSec => op.val \in FatHeads,
         op.kind = "answer" => b /\ op.val = View(RootSec)
  PROVE  (FlushInv /\ FatInv /\ TodoInv)'
<1> USE DEF IInv
<1>1. /\ UNCHANGED <<flash, cache, curSec, ofs, answer>> /\ todo' = op
      /\ pc = "idle" /\ ofs = 0
  BY DEF Start, FlushInv
<1>2. \/ b /\ curSec # 0 /\ pc' = IF EraseNeeded THEN "erase" ELSE "program"
      \/ ~(b /\ curSec # 0) /\ pc' = "resume"
  BY DEF Start, Flush
<1>3. FlushInv'
  <2>1. CASE pc' = "program"
    <3>1. curSec # 0 /\ ~EraseNeeded
      BY <1>2, <2>1
    <3>2. \A o \in Offsets : o >= 0 /\ cache[o] \subseteq flash[curSec][o]
      BY <3>1 DEF EraseNeeded, Offsets
    <3> QED
      BY <1>1, <2>1, <3>1, <3>2 DEF FlushInv, Offsets
  <2>2. CASE pc' # "program"
    BY <1>1, <1>2, <2>2 DEF FlushInv
  <2> QED
    BY <2>1, <2>2
<1>4. FatInv'
  BY <1>1 DEF FatInv, IsFat
<1>5. TodoInv'
  <2>1. View(RootSec)' = View(RootSec)
    BY <1>1 DEF View
  <2>2. pc' = "resume" /\ op.kind = "write" => curSec \in {0, op.sec[1]}
    BY <1>2
  <2>3. pc' = "resume" /\ op.kind = "answer" => curSec = 0
    BY <1>2
  <2> QED
    BY <1>1, <2>1, <2>2, <2>3 DEF TodoInv
<1> QED
  BY <1>3, <1>4, <1>5

LEMMA ProgramIInv ==
  ASSUME IInv, Program
  PROVE  (FlushInv /\ FatInv /\ TodoInv)'
<1> USE DEF IInv
<1> DEFINE d == flash[curSec][ofs] \cap cache[ofs]
<1>1. curSec \in Pages /\ ofs \in Offsets /\ pc = "program" /\ 0 \notin Pages
  BY DEF Program, FlushInv, TypeOK, Pages
<1>2. flash' = [flash EXCEPT ![curSec][ofs] = d] /\ UNCHANGED <<cache, todo>>
  BY DEF Program
<1>3. d = cache[ofs]
  BY <1>1 DEF FlushInv, Offsets
<1> HIDE DEF d
<1>4. \A o \in Offsets : flash'[curSec][o] = IF o = ofs THEN cache[o] ELSE flash[curSec][o]
  BY <1>1, <1>2, <1>3 DEF TypeOK, Page
<1>5. \A p \in Pages : p # curSec => flash'[p] = flash[p]
  BY <1>1, <1>2 DEF TypeOK
<1>6. CASE ofs + 1 < SectorsPerPage
  <2>1. ofs' = ofs + 1 /\ curSec' = curSec /\ pc' = "program"
    BY <1>1, <1>6, Constants DEF Program, Offsets
  <2>2. FlushInv'
    BY <1>1, <1>2, <1>4, <2>1 DEF FlushInv, Offsets
  <2>3. FatInv'
    BY <1>1, <1>2, <1>5, <2>1, Constants DEF FatInv, IsFat
  <2>4. View(RootSec)' = View(RootSec)
    <3>1. curSec # FatPage => flash'[FatPage] = flash[FatPage]
      BY <1>5, Constants
    <3> QED
      BY <1>2, <2>1, <3>1 DEF View, RootSec
  <2> QED
    BY <1>1, <1>2, <2>1, <2>2, <2>3, <2>4 DEF TodoInv
<1>7. CASE ~(ofs + 1 < SectorsPerPage)
  <2>1. ofs' = 0 /\ curSec' = 0 /\ pc' = "resume"
    BY <1>7 DEF Program
  <2>2. \A o \in Offsets : flash'[curSec][o] = cache[o]
    BY <1>1, <1>4, <1>7, Constants DEF FlushInv, Offsets
  <2>3. curSec = FatPage => IsFat(flash'[FatPage])
    BY <2>2, Constants DEF FatInv, IsFat
  <2>4. curSec # FatPage => IsFat(flash'[FatPage])
    BY <1>5, Constants DEF FatInv, IsFat
  <2>5. View(RootSec)' = View(RootSec)
    <3>1. curSec' # RootSec[1]
      BY <1>1, <2>1, Constants DEF RootSec
    <3>2. curSec = FatPage => flash'[FatPage][1] = cache[1]
      BY <2>2, Constants
    <3>3. curSec # FatPage => flash'[FatPage] = flash[FatPage]
      BY <1>5, Constants
    <3> QED
      BY <3>1, <3>2, <3>3 DEF View, RootSec
  <2>6. FatInv'
    BY <1>2, <2>1, <2>3, <2>4 DEF FatInv, FatPage
  <2>7. FlushInv'
    BY <2>1 DEF FlushInv
  <2> QED
    BY <1>1, <1>2, <2>1, <2>5, <2>6, <2>7 DEF TodoInv
<1> QED
  BY <1>6, <1>7

LEMMA ResumeIInv ==
  ASSUME IInv, Resume
  PROVE  (FlushInv /\ FatInv /\ TodoInv)'
<1> USE DEF IInv
<1>1. pc = "resume" /\ pc' = "idle" /\ todo' = NoOp /\ UNCHANGED <<flash, ofs>>
  BY DEF Resume
<1>2. FlushInv' /\ TodoInv'
  BY <1>1 DEF FlushInv, TodoInv, NoOp
<1>3. FatInv'
  <2>1. CASE FinishWrite
    <3> DEFINE page == IF curSec = todo.sec[1] THEN cache ELSE flash[todo.sec[1]]
    <3>1. /\ todo.sec \in Sectors /\ todo.sec[1] \in Pages /\ todo.sec[2] \in Offsets
          /\ todo.sec = <<todo.sec[1], todo.sec[2]>>
      BY DEF TypeOK, Op, Sectors
    <3>2. page \in Page
      BY <3>1 DEF TypeOK
    <3>3. cache' = [page EXCEPT ![todo.sec[2]] = todo.val] /\ curSec' = todo.sec[1]
      BY <2>1 DEF FinishWrite
    <3>4. todo.sec[1] = FatPage => IsFat(page)
      BY DEF FatInv
    <3> HIDE DEF page
    <3>5. CASE todo.sec[1] = FatPage
      <4>1. todo.sec[2] = 0 => todo.val \in FatHeads
        BY <2>1, <3>1, <3>5 DEF FatInv, FinishWrite, FatSec
      <4>2. IsFat(cache')
        BY <3>1, <3>2, <3>3, <3>4, <3>5, <4>1, Constants DEF IsFat, Page
      <4> QED
        BY <1>1, <3>3, <3>5, <4>2 DEF FatInv, NoOp
    <3>6. CASE todo.sec[1] # FatPage
      <4>1. curSec # FatPage
        BY <1>1, <2>1, <3>6 DEF TodoInv, FinishWrite, FatPage
      <4> QED
        BY <1>1, <3>3, <3>6, <4>1 DEF FatInv, NoOp
    <3> QED
      BY <3>5, <3>6
  <2>2. CASE FinishAnswer
    BY <1>1, <2>2 DEF FatInv, FinishAnswer, NoOp
  <2>3. CASE FinishIdle
    BY <1>1, <2>3 DEF FatInv, FinishIdle, NoOp
  <2> QED
    BY <2>1, <2>2, <2>3 DEF Resume
<1> QED
  BY <1>2, <1>3

LEMMA EraseIInv ==
  ASSUME IInv, Erase
  PROVE  (FlushInv /\ FatInv /\ TodoInv)'
<1> USE DEF IInv
<1>1. /\ pc = "erase" /\ pc' = "program" /\ curSec # 0 /\ curSec \in Pages /\ ofs = 0
      /\ UNCHANGED <<cache, curSec, ofs, todo>>
  BY DEF Erase, FlushInv, TypeOK
<1>2. /\ \A o \in Offsets : flash'[curSec][o] = Ones
      /\ \A p \in Pages : p # curSec => flash'[p] = flash[p]
  BY <1>1 DEF Erase, TypeOK
<1>3. \A o \in Offsets : cache[o] \subseteq Ones
  BY DEF TypeOK, Page, Data, Ones
<1>4. FlushInv'
  BY <1>1, <1>2, <1>3 DEF FlushInv, Offsets
<1>5. FatInv'
  BY <1>1, <1>2, Constants DEF FatInv, IsFat
<1>6. View(RootSec)' = View(RootSec)
  BY <1>1, <1>2, Constants DEF View, RootSec
<1> QED
  BY <1>1, <1>4, <1>5, <1>6 DEF TodoInv

LEMMA NextIInv ==
  ASSUME IInv, [Next]_vars
  PROVE  IInv'
<1>t. TypeOK'
  BY NextTyped DEF IInv
<1> SUFFICES (FlushInv /\ FatInv /\ TodoInv)'
  BY <1>t DEF IInv
<1>1. CASE HostWrites
  <2>1. ASSUME NEW s \in Sectors, NEW d \in Data, HostWrite(s, d), s = FatSec => d \in FatHeads
        PROVE  (FlushInv /\ FatInv /\ TodoInv)'
    <3> DEFINE op == [kind |-> "write", sec |-> s, val |-> d]
    <3>1. op \in Op /\ op.kind = "write" /\ op.sec = s /\ op.val = d
      BY DEF Op
    <3>2. Start(op, curSec # s[1])
      BY <2>1 DEF HostWrite
    <3> HIDE DEF op
    <3> QED
      BY <2>1, <3>1, <3>2, StartIInv
  <2> QED
    BY <1>1, <2>1, Constants DEF HostWrites
<1>2. CASE \E s \in FileSectors : Request(s)
  <2>1. PICK s \in FileSectors : Request(s)
    BY <1>2
  <2> DEFINE op == [kind |-> "answer", sec |-> s, val |-> View(RootSec)]
  <2>2. op \in Op /\ op.kind = "answer" /\ op.val = View(RootSec)
    BY ViewIsData, Constants DEF Op, FileSectors, IInv
  <2>3. Start(op, TRUE)
    BY <2>1 DEF Request
  <2> HIDE DEF op
  <2> QED
    BY <2>2, <2>3, StartIInv
<1>3. CASE IdleFlush
  <2>1. Start(NoOp, TRUE) /\ NoOp.kind = "idle"
    BY <1>3 DEF IdleFlush, NoOp
  <2> QED
    BY <2>1, StartIInv, Constants
<1>4. CASE UNCHANGED vars
  BY <1>4 DEF vars, IInv, FlushInv, FatInv, TodoInv, View
<1> QED
  BY <1>1, <1>2, <1>3, <1>4, EraseIInv, ProgramIInv, ResumeIInv, CutIInv DEF Next

(* Every variable keeps the shape the code gives it: the flush never leaves *)
(* the page it writes.                                                      *)
THEOREM TypeCorrect == Spec => []TypeOK
<1>1. Init => IInv
  BY InitIInv
<1>2. IInv /\ [Next]_vars => IInv'
  BY NextIInv
<1>3. IInv => TypeOK
  BY DEF IInv
<1> QED
  BY <1>1, <1>2, <1>3, PTL DEF Spec

-----------------------------------------------------------------------------
(* The refinement.                                                          *)

Seen == [s \in Sectors |-> View(s)]

LEMMA SeenIsDisk ==
  ASSUME TypeOK
  PROVE  Seen \in [Sectors -> Data]
  BY ViewIsData DEF Seen

\* Steps that leave the cache alone, with its page, change nothing to be seen.
LEMMA SeenUnchanged ==
  ASSUME \A s \in Sectors : View(s)' = View(s)
  PROVE  Seen' = Seen
  BY DEF Seen

LEMMA SeenOp ==
  ASSUME TypeOK
  PROVE  /\ todo.sec \in Sectors /\ todo.sec[1] \in Pages /\ todo.sec[2] \in Offsets
         /\ todo.val \in Data
         /\ \A s \in Sectors : (s = todo.sec) <=> (s[1] = todo.sec[1] /\ s[2] = todo.sec[2])
  BY DEF TypeOK, Op, Sectors

LEMMA InitMaps == Init /\ IInv => Disk!Init
<1> SUFFICES ASSUME Init, IInv PROVE Disk!Init
  OBVIOUS
<1>1. Seen \in [Sectors -> Data]
  BY SeenIsDisk DEF IInv
<1>2. answer = <<>> /\ curSec \in Pages \cup {0}
  BY DEF Init, NoAnswer, IInv, TypeOK
<1> QED
  BY <1>1, <1>2 DEF Disk!Init, Disk!Sectors, Seen, Sectors

LEMMA StepMaps ==
  ASSUME IInv, IInv', [Next]_vars
  PROVE  Disk!Next \/ UNCHANGED Disk!diskVars
<1> USE DEF IInv
<1>0. Seen \in [Sectors -> Data] /\ Seen' \in [Sectors -> Data]
  <2>1. Seen \in [Sectors -> Data]
    BY SeenIsDisk
  <2>2. Seen' \in [Sectors -> Data]
    BY DEF Seen, View, TypeOK, Page, Sectors
  <2> QED
    BY <2>1, <2>2
<1>1. ASSUME NEW op, NEW b \in BOOLEAN, Start(op, b) PROVE UNCHANGED Disk!diskVars
  <2>1. UNCHANGED <<flash, cache, curSec, answer>>
    BY <1>1 DEF Start
  <2> QED
    BY <2>1 DEF Disk!diskVars, View
<1>2. CASE HostWrites \/ (\E s \in FileSectors : Request(s)) \/ IdleFlush
  BY <1>1, <1>2 DEF HostWrites, HostWrite, Request, IdleFlush
<1>3. CASE Erase
  <2>1. curSec \in Pages /\ UNCHANGED <<cache, curSec, answer>>
    BY <1>3 DEF Erase, FlushInv, TypeOK
  <2>2. \A p \in Pages : p # curSec => flash'[p] = flash[p]
    BY <1>3, <2>1 DEF Erase, TypeOK
  <2>3. \A s \in Sectors : View(s)' = View(s)
    BY <2>1, <2>2 DEF View, Sectors
  <2> QED
    BY <2>1, <2>3 DEF Disk!diskVars
<1>4. CASE Program
  <2> DEFINE d == flash[curSec][ofs] \cap cache[ofs]
  <2>1. curSec \in Pages /\ ofs \in Offsets /\ 0 \notin Pages
    BY <1>4 DEF Program, FlushInv, TypeOK, Pages
  <2>2. flash' = [flash EXCEPT ![curSec][ofs] = d] /\ UNCHANGED <<cache, answer>>
    BY <1>4 DEF Program
  <2>3. d = cache[ofs]
    BY <1>4, <2>1 DEF Program, FlushInv, Offsets
  <2> HIDE DEF d
  <2>4. \A p \in Pages : p # curSec => flash'[p] = flash[p]
    BY <2>1, <2>2 DEF TypeOK
  <2>5. \A s \in Sectors : View(s)' = View(s)
    <3>1. CASE curSec' = curSec
      BY <2>2, <2>4, <3>1 DEF View, Sectors
    <3>2. CASE curSec' # curSec
      <4>1. curSec' = 0 /\ ofs + 1 = SectorsPerPage
        BY <1>4, <3>2 DEF Program
      <4>2. \A o \in Offsets : flash'[curSec][o] = cache[o]
        BY <1>4, <2>1, <2>2, <2>3, <4>1, Constants DEF Program, FlushInv, TypeOK, Page, Offsets
      <4> QED
        BY <2>1, <2>4, <4>1, <4>2 DEF View, Sectors
    <3> QED
      BY <3>1, <3>2
  <2>6. curSec' \in {0, curSec}
    BY <1>4 DEF Program
  <2> QED
    BY <2>2, <2>5, <2>6, SeenUnchanged
    DEF Disk!Next, Disk!Sync, Disk!diskVars, Seen, Disk!Sectors, Sectors
<1>5. CASE Resume
  <2>1. pc = "resume" /\ UNCHANGED flash
    BY <1>5 DEF Resume
  <2>2. CASE FinishWrite
    <3> DEFINE page == IF curSec = todo.sec[1] THEN cache ELSE flash[todo.sec[1]]
    <3>1. page \in Page
      BY SeenOp DEF TypeOK
    <3>2. /\ cache' = [page EXCEPT ![todo.sec[2]] = todo.val]
          /\ curSec' = todo.sec[1] /\ UNCHANGED answer
      BY <2>2 DEF FinishWrite
    <3>3. curSec \in {0, todo.sec[1]}
      BY <2>1, <2>2 DEF TodoInv, FinishWrite
    <3>4. \A o \in Offsets : cache'[o] = IF o = todo.sec[2] THEN todo.val ELSE page[o]
      BY <3>1, <3>2, SeenOp DEF Page
    <3>5. \A s \in Sectors : View(s)' = IF s = todo.sec THEN todo.val ELSE View(s)
      <4> TAKE s \in Sectors
      <4>1. s[1] \in Pages /\ s[2] \in Offsets /\ 0 \notin Pages
        BY DEF Sectors, Pages
      <4>2. CASE s[1] = todo.sec[1]
        <5>1. View(s)' = cache'[s[2]]
          BY <3>2, <4>2 DEF View
        <5>2. View(s) = page[s[2]]
          BY <4>1, <4>2 DEF View
        <5> QED
          BY <3>4, <4>1, <4>2, <5>1, <5>2, SeenOp
      <4>3. CASE s[1] # todo.sec[1]
        BY <2>1, <3>2, <3>3, <4>1, <4>3, SeenOp DEF View
      <4> QED
        BY <4>2, <4>3
    <3>6. Seen' = [Seen EXCEPT ![todo.sec] = todo.val]
      BY <3>5, <1>0, SeenOp DEF Seen
    <3> QED
      BY <3>2, <3>3, <3>6, SeenOp
      DEF Disk!Next, Disk!Write, Seen, Disk!Sectors, Sectors
  <2>3. CASE FinishAnswer
    <3>1. curSec = 0 /\ todo.val = View(RootSec)
      BY <2>1, <2>3 DEF TodoInv, FinishAnswer
    <3>2. View(todo.sec) = flash[todo.sec[1]][todo.sec[2]]
      BY <3>1, SeenOp DEF View, Pages
    <3>3. answer' = <<View(RootSec), View(todo.sec)>> /\ UNCHANGED <<cache, curSec>>
      BY <2>3, <3>1, <3>2 DEF FinishAnswer
    <3>4. Seen' = Seen
      BY <2>1, <3>3 DEF Seen, View
    <3>5. \E e, s \in Sectors : answer' = <<Seen[e], Seen[s]>>
      BY <3>3, SeenOp, Constants DEF Seen
    <3> QED
      BY <3>3, <3>4, <3>5 DEF Disk!Next, Disk!Answer, Seen, Disk!Sectors, Sectors
  <2>4. CASE FinishIdle
    BY <2>1, <2>4 DEF FinishIdle, Disk!diskVars, View
  <2> QED
    BY <1>5, <2>2, <2>3, <2>4 DEF Resume
<1>6. CASE Cut
  <2>1. PICK pages \in [Pages -> Page] :
          PowerLossIn(pages) /\ \A p \in Pages : p # curSec => pages[p] = flash[p]
    BY <1>6, CutInOnePage
  <2>2. flash' = pages /\ curSec' = Unformatted(pages) /\ answer' = <<>>
    BY <2>1 DEF PowerLossIn, NoAnswer
  <2>3. curSec' \in {0, curSec}
    <3>1. curSec # FatPage => IsFat(pages[FatPage])
      BY <2>1, Constants DEF FatInv
    <3> QED
      BY <2>2, <3>1 DEF Unformatted
  <2>4. \A s \in Sectors : s[1] # curSec => View(s)' = View(s)
    <3> TAKE s \in Sectors
    <3>1. HAVE s[1] # curSec
    <3>2. s[1] \in Pages /\ 0 \notin Pages
      BY DEF Sectors, Pages
    <3>3. curSec' # s[1] /\ flash'[s[1]] = flash[s[1]]
      BY <2>1, <2>2, <2>3, <3>1, <3>2
    <3> QED
      BY <3>1, <3>3 DEF View
  <2>5. \A s \in Sectors : s[1] # curSec => Seen'[s] = Seen[s]
    BY <2>4 DEF Seen
  <2> QED
    BY <1>0, <2>2, <2>3, <2>5 DEF Disk!Next, Disk!PowerLoss, Seen, Disk!Sectors, Sectors
<1>7. CASE UNCHANGED vars
  BY <1>7 DEF vars, Disk!diskVars, View
<1> QED
  BY <1>2, <1>3, <1>4, <1>5, <1>6, <1>7 DEF Next

(* The image store of the station is a disk on which a power loss harms the *)
(* page being changed and no other, and whose answers to tags are cut from  *)
(* the file that the directory named at the same instant.                   *)
THEOREM StoreIsADisk == Spec => ImplementsDisk
<1>1. Init => IInv
  BY InitIInv
<1>2. IInv /\ [Next]_vars => IInv'
  BY NextIInv
<1>3. Init /\ IInv => Disk!Init
  BY InitMaps
<1>4. IInv /\ IInv' /\ [Next]_vars => [Disk!Next]_(Disk!diskVars)
  BY StepMaps
<1> QED
  BY <1>1, <1>2, <1>3, <1>4, PTL DEF Spec, ImplementsDisk, Disk!Spec

=============================================================================

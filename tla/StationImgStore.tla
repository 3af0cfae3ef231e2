-------------------------- MODULE StationImgStore --------------------------
(***************************************************************************)
(* The image store of the station (Station/imgStore.c): the FAT volume that *)
(* a host fills over USB lies in pages of the processor's flash, with one   *)
(* page held in RAM while the host writes to it.  A page goes back to flash *)
(* by an erase, if one is needed, and a program, and power can be lost      *)
(* before, after and in the middle of either.                               *)
(*                                                                         *)
(* The contents of a sector are abstracted to a set of bits that are 1, as  *)
(* a program only clears bits.  A WRITE of several sectors (msc.c) is as    *)
(* many writes of one.  The boot sectors are computed and take no writes.   *)
(***************************************************************************)
EXTENDS Integers

CONSTANTS
  NumPages,        \* flash pages of the volume
  SectorsPerPage,  \* SECTORS_PER_FLASH_PAGE
  Bits,            \* the bits of a sector
  FatHeads,        \* the first sectors that imgStoreInit takes for a FAT
  FreshHead        \* the one it makes: a FAT without files

Pages   == 1 .. NumPages
Offsets == 0 .. SectorsPerPage - 1
Sectors == Pages \X Offsets
Data    == SUBSET Bits
Page    == [Offsets -> Data]

FatPage == 1                \* FLASH_DATA_START_ADDR: the FAT comes first
FatSec  == <<FatPage, 0>>
RootSec == <<FatPage, 1>>   \* of the directory
FileSectors == Sectors \ {FatSec, RootSec}

Ones  == Bits               \* erased
Zeros == {}

ASSUME StoreAssumption ==
  /\ NumPages \in Nat \ {0} /\ SectorsPerPage \in Nat \ {0, 1}
  /\ FatHeads \subseteq Data \ {Ones} /\ FreshHead \in FatHeads

VARIABLES
  flash,    \* the pages
  cache,    \* mCurSecCache
  curSec,   \* mCurSecAddr: the page in the cache, 0 when it is clean
  pc,       \* where imgStorePrvFlashCacheFlush is, or the operation behind it
  ofs,      \* sectors of the page that are programmed
  todo,     \* the operation that called for the flush
  answer    \* what the last answer to a tag was made from

vars == <<flash, cache, curSec, pc, ofs, todo, answer>>

Op == [kind : {"idle", "write", "answer"}, sec : Sectors, val : Data]
NoOp == [kind |-> "idle", sec |-> FatSec, val |-> Zeros]
NoAnswer == <<>>

-----------------------------------------------------------------------------
(* Booting.                                                                 *)

IsFat(page) == page[0] \in FatHeads

\* mCurSecCache as imgStoreInit leaves it: a FAT in RAM that is zero after a
\* reset.
FreshPage == [o \in Offsets |-> IF o = 0 THEN FreshHead ELSE Zeros]

\* imgStoreInit, with these pages in flash.
Unformatted(pages) == IF IsFat(pages[FatPage]) THEN 0 ELSE FatPage

Init ==
  \* a new processor, or a volume that was formatted before
  /\ \E first \in {[o \in Offsets |-> Ones], FreshPage} :
       flash = [p \in Pages |-> IF p = FatPage THEN first ELSE [o \in Offsets |-> Ones]]
  /\ curSec = Unformatted(flash) /\ cache = FreshPage
  /\ pc = "idle" /\ ofs = 0 /\ todo = NoOp /\ answer = NoAnswer

-----------------------------------------------------------------------------
(* imgStorePrvFlashCacheFlush.                                              *)

\* (mutant: only the first sector is compared)
EraseNeededFirst == ~(cache[0] \subseteq flash[curSec][0])

\* A bit that is 0 in flash and 1 in the cache.
EraseNeeded == \E o \in Offsets : ~(cache[o] \subseteq flash[curSec][o])

Flush == pc' = IF EraseNeeded THEN "erase" ELSE "program"

Erase ==
  /\ pc = "erase"
  /\ flash' = [flash EXCEPT ![curSec] = [o \in Offsets |-> Ones]]
  /\ pc' = "program"
  /\ UNCHANGED <<cache, curSec, ofs, todo, answer>>

\* (mutant: the loop runs one sector too far)
ProgramOnePast ==
  /\ pc = "program"
  /\ flash' = [flash EXCEPT ![curSec][ofs] = @ \cap cache[ofs]]
  /\ \/ /\ ofs < SectorsPerPage
        /\ ofs' = ofs + 1
        /\ UNCHANGED <<curSec, pc>>
     \/ /\ ofs = SectorsPerPage
        /\ ofs' = 0 /\ curSec' = 0 /\ pc' = "resume"
  /\ UNCHANGED <<cache, todo, answer>>

\* (mutant: the page stays in the cache)
ProgramStaysDirty ==
  /\ pc = "program"
  /\ flash' = [flash EXCEPT ![curSec][ofs] = @ \cap cache[ofs]]
  /\ \/ /\ ofs + 1 < SectorsPerPage
        /\ ofs' = ofs + 1
        /\ UNCHANGED pc
     \/ /\ ofs + 1 = SectorsPerPage
        /\ ofs' = 0 /\ pc' = "resume"
  /\ UNCHANGED <<cache, curSec, todo, answer>>

\* One sector of imgStorePrvFlashPageWrite.  After the last the cache is clean.
Program ==
  /\ pc = "program"
  /\ flash' = [flash EXCEPT ![curSec][ofs] = @ \cap cache[ofs]]
  /\ \/ /\ ofs + 1 < SectorsPerPage
        /\ ofs' = ofs + 1
        /\ UNCHANGED <<curSec, pc>>
     \/ /\ ofs + 1 = SectorsPerPage
        /\ ofs' = 0 /\ curSec' = 0 /\ pc' = "resume"
  /\ UNCHANGED <<cache, todo, answer>>

-----------------------------------------------------------------------------
(* The operations.  Each starts a flush when it has to and does the rest    *)
(* when that is over; nothing else runs in between.                         *)

View(s) == IF curSec = s[1] THEN cache[s[2]] ELSE flash[s[1]][s[2]]

Start(op, needsFlush) ==
  /\ pc = "idle"
  /\ todo' = op
  /\ \/ needsFlush /\ curSec # 0 /\ Flush
     \/ ~(needsFlush /\ curSec # 0) /\ pc' = "resume"
  /\ UNCHANGED <<flash, cache, curSec, ofs, answer>>

\* imgStorePrvFlashWriteSector.  The host leaves the head of the FAT alone.
HostWrite(s, d) ==
  Start([kind |-> "write", sec |-> s, val |-> d], curSec # s[1])

\* prvProcessChunkReq: imgStoreGetFileInfo reads the directory through the
\* cache, imgStoreGetFileData flushes and reads the flash.
Request(s) ==
  Start([kind |-> "answer", sec |-> s, val |-> View(RootSec)], TRUE)

\* imgStoreProcess, a second after the last write.
IdleFlush == curSec # 0 /\ Start(NoOp, TRUE)

\* (mutant: the page is taken into the cache without being read)
FinishWriteNoLoad ==
  /\ todo.kind = "write"
  /\ cache' = [cache EXCEPT ![todo.sec[2]] = todo.val]
  /\ curSec' = todo.sec[1]
  /\ UNCHANGED answer

FinishWrite ==
  /\ todo.kind = "write"
  /\ LET page == IF curSec = todo.sec[1] THEN cache ELSE flash[todo.sec[1]]
     IN cache' = [page EXCEPT ![todo.sec[2]] = todo.val]
  /\ curSec' = todo.sec[1]
  /\ UNCHANGED answer

FinishAnswer ==
  /\ todo.kind = "answer"
  /\ answer' = <<todo.val, flash[todo.sec[1]][todo.sec[2]]>>
  /\ UNCHANGED <<cache, curSec>>

FinishIdle == todo.kind = "idle" /\ UNCHANGED <<cache, curSec, answer>>

Resume ==
  /\ pc = "resume"
  /\ FinishWrite \/ FinishAnswer \/ FinishIdle
  /\ pc' = "idle" /\ todo' = NoOp
  /\ UNCHANGED <<flash, ofs>>

-----------------------------------------------------------------------------
(* Power loss, and the boot after it.                                       *)

PowerLossIn(pages) ==
  /\ flash' = pages
  /\ curSec' = Unformatted(pages) /\ cache' = FreshPage
  /\ pc' = "idle" /\ ofs' = 0 /\ todo' = NoOp /\ answer' = NoAnswer

PowerLoss == PowerLossIn(flash)

\* In the middle of the partial erases of imgStorePrvFlashPageErase.
TornErase ==
  /\ pc = "erase"
  /\ \E page \in Page : PowerLossIn([flash EXCEPT ![curSec] = page])

\* In the middle of a sector: some of its bits are cleared.
TornProgram ==
  /\ pc = "program"
  /\ \E d \in Data :
       /\ flash[curSec][ofs] \cap cache[ofs] \subseteq d
       /\ d \subseteq flash[curSec][ofs]
       /\ PowerLossIn([flash EXCEPT ![curSec][ofs] = d])

Cut == PowerLoss \/ TornErase \/ TornProgram

HostWrites ==
  \/ \E s \in Sectors \ {FatSec}, d \in Data : HostWrite(s, d)
  \/ \E d \in FatHeads : HostWrite(FatSec, d)

Next ==
  \/ HostWrites
  \/ \E s \in FileSectors : Request(s)
  \/ IdleFlush \/ Erase \/ Program \/ Resume
  \/ Cut

Spec == Init /\ [][Next]_vars

\* The main loop comes back to imgStoreProcess, and a flush that was started
\* goes on.
FairSpec == Spec /\ WF_vars(IdleFlush) /\ WF_vars(Erase \/ Program \/ Resume)

-----------------------------------------------------------------------------
(* Type invariant: every variable has the shape the code gives it.          *)
TypeOK ==
  /\ flash \in [Pages -> Page]
  /\ cache \in Page
  /\ curSec \in Pages \cup {0}
  /\ pc \in {"idle", "erase", "program", "resume"}
  /\ ofs \in Offsets
  /\ todo \in Op
  /\ answer \in (Data \X Data) \cup {NoAnswer}

(* However flushes, writes, answers and power losses follow each other, the *)
(* station is a disk that returns what was written last: a power loss harms *)
(* the page being changed and no other, and a chunk is cut from the file    *)
(* that the directory named at the same instant.                            *)
Disk == INSTANCE SectorDisk
          WITH disk   <- [s \in Sectors |-> View(s)],
               atRisk <- curSec,
               None   <- 0
ImplementsDisk == Disk!Spec

(* When the host stops writing, what it wrote gets into flash, unless power *)
(* keeps being lost.                                                        *)
Synced ==
  (<>[][~HostWrites /\ ~Cut]_vars) => <>[](curSec = 0)

=============================================================================

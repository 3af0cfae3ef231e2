--------------------------- MODULE TagImageStore ---------------------------
(***************************************************************************)
(* The image slots of a tag's SPI EEPROM and the download that fills them  *)
(* (firmware/main/main.c).  A tag sleeps with nothing in RAM; every        *)
(* wake-up is a reset.  What survives is the EEPROM: per slot a header     *)
(* (version, marker, size, bitmap of missing pieces) and the pieces.       *)
(* Power can be lost between any two EEPROM commands and, when TornWrites, *)
(* in the middle of a page program or between the two of a piece that      *)
(* crosses a page, and, when MaxHurt is not 0, in the middle of an erase.  *)
(*                                                                         *)
(* Addresses are counted in slots (EEPROM_IMG_EACH = 1): the address of    *)
(* slot s is ImgStart + s, and the code's "no such slot" is address 0.     *)
(* Sizes are counted in pieces of EEPROM_PIECE_SZ bytes.  Version 0 stands *)
(* for every number that is not the version of an image: the station       *)
(* offers it when it has no image, an erased header reads as it.           *)
(***************************************************************************)
EXTENDS Integers, FiniteSets

CONSTANTS
  NumSlots,    \* mNumImgSlots
  ImgStart,    \* EEPROM_IMG_START, 0 on the EPOP50 board and positive elsewhere
  MaxVersion,  \* the greatest version number, a uint64_t
  Versions,    \* versions of the images the station ever stores
  Size,        \* Size[v]: the pieces of image v
  PieceCap,    \* bits of piecesMissing, EEPROM_PROGRESS_BYTES * 8
  SlotCap,     \* pieces that fit between a slot's header and its end
  NumSecs,     \* erase commands that clear one slot, the header in the first
  SecOf,       \* SecOf[p]: the erase command that clears piece p
  MaxTries,    \* requests per piece in one session, 5 in the code
  TornWrites,  \* may a power loss leave a header, piece or marker half written?
  MaxHurt      \* slots with a header that an erase has left half erased, at most;
               \* 0 when a power loss cuts no erase short

Slots  == 0 .. NumSlots - 1
Pieces == 0 .. SlotCap - 1
Bits   == 0 .. PieceCap - 1

ASSUME CountsAssumption ==
  /\ NumSlots \in Nat \ {0} /\ NumSecs \in Nat \ {0} /\ MaxTries \in Nat \ {0}
  /\ ImgStart \in Nat /\ PieceCap \in Nat /\ SlotCap \in Nat
ASSUME ImagesAssumption ==
  /\ MaxVersion \in Nat /\ Versions \subseteq 1 .. MaxVersion
  /\ Size \in [Versions -> Nat]
  /\ SecOf \in [Pieces -> 0 .. NumSecs - 1]
  /\ TornWrites \in BOOLEAN /\ MaxHurt \in Nat

VARIABLES
  hdr,       \* EEPROM: the header of each slot
  cell,      \* EEPROM: what each slot's room for a piece holds
  paired,    \* EEPROM: isPaired of the saved settings
  hurt,      \* no variable of the code: the slots whose header was in an erase
             \* that power loss cut short, and has not been erased since
  station,   \* version of the image the station stores now
  pc,        \* where the firmware is; "sleep" between wake-ups
  slot,      \* slot being erased or downloaded to
  ver,       \* version being downloaded, packet.cri.versionRequested
  sec,       \* next erase command
  piece,     \* curPiece
  tries,     \* nRetries
  progress,  \* progressMade
  delay      \* which delay the last session returned

eeprom == <<hdr, cell, paired, hurt>>
ram    == <<pc, slot, ver, sec, piece, tries, progress>>
vars   == <<hdr, cell, paired, hurt, station, pc, slot, ver, sec, piece, tries,
            progress, delay>>

-----------------------------------------------------------------------------
(* EEPROM contents.  Programming only clears bits: a program over an erased *)
(* cell, or over the same bytes, takes; over other bytes it leaves junk.    *)

Markers == {"erased", "inprogress", "valid", "other"}

Unwritten == -1          \* a size that reads as 0xffffffff

Header  == [ver : Versions \cup {0}, mark : Markers,
            size : Nat \cup {Unwritten}, missing : SUBSET Bits]
Content == [ver : Versions \cup {0}, whole : BOOLEAN]

Blank == [ver |-> 0, whole |-> FALSE]
Junk  == [ver |-> 0, whole |-> TRUE]

ErasedHdr  == [ver |-> 0, mark |-> "erased", size |-> Unwritten, missing |-> Bits]
GarbageHdr == [ver |-> 0, mark |-> "other",  size |-> Unwritten, missing |-> {}]

NewHdr(v) ==
  [ver |-> v, mark |-> "inprogress", size |-> Size[v], missing |-> Bits]

Programmed(c, v, whole) ==
  IF c = Blank \/ c.ver = v
    THEN [ver |-> v, whole |-> whole \/ (c.ver = v /\ c.whole)]
    ELSE Junk

Holds(s, p, v) == cell[s][p] = [ver |-> v, whole |-> TRUE]

\* (size + 87) / 88 in 32 bits: the sum of an erased size wraps to 86.
NPieces(h) == IF h.size = Unwritten THEN 0 ELSE h.size

\* (mutant: a download that is resumed starts over)
FirstMissingStartsOver(h) == 0

\* (mutant: the scan starts at the second piece)
FirstMissingSkipsOne(h) ==
  CHOOSE p \in 0 .. NPieces(h) :
    /\ p = NPieces(h) \/ (p > 0 /\ p \in h.missing)
    /\ \A q \in 1 .. p - 1 : q \notin h.missing

FirstMissing(h) ==
  CHOOSE p \in 0 .. NPieces(h) :
    /\ p = NPieces(h) \/ p \in h.missing
    /\ \A q \in 0 .. p - 1 : q \notin h.missing

-----------------------------------------------------------------------------
(* The index of the slots, and the slot the next download goes to.          *)

Marked(m) == {s \in Slots : hdr[s].mark = m}

\* Of several slots with the highest version the scan keeps the last.
Latest(S) ==
  CHOOSE s \in S : \A t \in S :
    hdr[t].ver < hdr[s].ver \/ (hdr[t].ver = hdr[s].ver /\ t <= s)

Addr(s)       == ImgStart + s
LatestAddr(m) == IF Marked(m) = {} THEN 0 ELSE Addr(Latest(Marked(m)))
LatestVer     == IF Marked("valid") = {} THEN 0 ELSE hdr[Latest(Marked("valid"))].ver

Wrapped(a) == IF a >= ImgStart + NumSlots THEN ImgStart ELSE a

\* (mutant: the download goes to the newest image itself)
TargetAddrNewest ==
  IF LatestAddr("inprogress") # 0 THEN LatestAddr("inprogress")
  ELSE IF LatestAddr("valid") = 0 THEN ImgStart
  ELSE LatestAddr("valid")

\* (mutant: an unfinished download is not looked for)
TargetAddrNoResume ==
  IF LatestAddr("valid") = 0 THEN Wrapped(LatestAddr("inprogress") + 1)
  ELSE Wrapped(LatestAddr("valid") + 1)

TargetAddr ==
  IF LatestAddr("inprogress") # 0 THEN LatestAddr("inprogress")
  ELSE IF LatestAddr("valid") = 0 THEN ImgStart
  ELSE Wrapped(LatestAddr("valid") + 1)

Target == TargetAddr - ImgStart

-----------------------------------------------------------------------------
(* Control.                                                                 *)

Sleep ==
  /\ pc' = "sleep"
  /\ slot' = 0 /\ ver' = 0 /\ sec' = 0 /\ piece' = 0 /\ tries' = 0
  /\ progress' = FALSE

EndSession(d) == Sleep /\ delay' = d

\* The top of prvDriveDownload: slot s, version v, and the header as it was
\* read or has just been written.
StartPieces(s, v, h) ==
  \/ /\ NPieces(h) > PieceCap
     /\ EndSession("checkin")
  \/ /\ NPieces(h) <= PieceCap
     /\ slot' = s /\ ver' = v /\ piece' = FirstMissing(h)
     /\ pc' = IF FirstMissing(h) = NPieces(h) THEN "mark" ELSE "request"
     /\ sec' = 0 /\ tries' = 0 /\ progress' = FALSE
     /\ UNCHANGED delay

Init ==
  /\ hdr = [s \in Slots |-> GarbageHdr]
  /\ cell = [s \in Slots |-> [p \in Pieces |-> Junk]]
  /\ paired = FALSE
  /\ hurt = {}
  /\ station = 0
  /\ pc = "sleep"
  /\ slot = 0 /\ ver = 0 /\ sec = 0 /\ piece = 0 /\ tries = 0
  /\ progress = FALSE
  /\ delay = "checkin"

-----------------------------------------------------------------------------
(* The world around the tag.                                                *)

\* The host gives the station another image, or takes it away.
Publish(v) ==
  /\ station # v
  /\ station' = v
  /\ UNCHANGED <<eeprom, ram, delay>>

\* Everything in RAM is gone; the next thing is a wake-up from reset.
PowerLoss ==
  /\ pc # "sleep"
  /\ Sleep
  /\ UNCHANGED <<eeprom, station, delay>>

-----------------------------------------------------------------------------
(* Pairing: an unpaired tag that is accepted erases every slot and then     *)
(* saves isPaired; a tag whose check-ins keep failing clears it.            *)

Dissociate ==
  /\ pc = "sleep" /\ paired
  /\ paired' = FALSE
  /\ UNCHANGED <<hdr, cell, hurt, station, ram, delay>>

\* (mutant: the pairing is saved before the slots are erased)
AssociateSavesFirst ==
  /\ pc = "sleep" /\ ~paired
  /\ pc' = "pairErase" /\ paired' = TRUE
  /\ UNCHANGED <<hdr, cell, hurt, station, slot, ver, sec, piece, tries, progress,
                 delay>>

Associate ==
  /\ pc = "sleep" /\ ~paired
  /\ pc' = "pairErase"
  /\ UNCHANGED <<eeprom, station, slot, ver, sec, piece, tries, progress, delay>>

\* (mutant: the sector of the header is erased last)
EraseUnitHeaderLast ==
  /\ hdr' = IF sec = NumSecs - 1 THEN [hdr EXCEPT ![slot] = ErasedHdr] ELSE hdr
  /\ hurt' = IF sec = NumSecs - 1 THEN hurt \ {slot} ELSE hurt
  /\ cell' = [cell EXCEPT ![slot] =
                [p \in Pieces |-> IF SecOf[p] = sec THEN Blank ELSE cell[slot][p]]]

\* One erase command of eepromErase: unit sec of the slot.
EraseUnit ==
  /\ hdr' = IF sec = 0 THEN [hdr EXCEPT ![slot] = ErasedHdr] ELSE hdr
  /\ hurt' = IF sec = 0 THEN hurt \ {slot} ELSE hurt
  /\ cell' = [cell EXCEPT ![slot] =
                [p \in Pieces |-> IF SecOf[p] = sec THEN Blank ELSE cell[slot][p]]]

PairErase ==
  /\ pc = "pairErase"
  /\ EraseUnit
  /\ \/ /\ sec + 1 < NumSecs
        /\ sec' = sec + 1
        /\ UNCHANGED <<pc, slot>>
     \/ /\ sec + 1 = NumSecs /\ slot + 1 < NumSlots
        /\ sec' = 0 /\ slot' = slot + 1
        /\ UNCHANGED pc
     \/ /\ sec + 1 = NumSecs /\ slot + 1 = NumSlots
        /\ pc' = "pairSave"
        /\ sec' = 0 /\ UNCHANGED slot
  /\ UNCHANGED <<paired, station, ver, piece, tries, progress, delay>>

PairSave ==
  /\ pc = "pairSave"
  /\ paired' = TRUE
  /\ Sleep
  /\ UNCHANGED <<hdr, cell, hurt, station, delay>>

-----------------------------------------------------------------------------
(* A check-in that finds a newer image, and the download.                   *)

\* (mutant: every check-in starts the download from its first piece)
CheckInRestarts ==
  /\ pc = "sleep" /\ paired
  /\ LatestVer < station
  /\ pc' = "erase" /\ slot' = Target /\ ver' = station
  /\ UNCHANGED <<eeprom, station, sec, piece, tries, progress, delay>>

CheckIn ==
  /\ pc = "sleep" /\ paired
  /\ LatestVer < station
  /\ \/ /\ hdr[Target].ver # station
        /\ pc' = "erase" /\ slot' = Target /\ ver' = station
        /\ UNCHANGED <<sec, piece, tries, progress, delay>>
     \/ /\ hdr[Target].ver = station
        /\ StartPieces(Target, station, hdr[Target])
  /\ UNCHANGED <<eeprom, station>>

Erase ==
  /\ pc = "erase"
  /\ EraseUnit
  /\ sec' = sec + 1
  /\ pc' = IF sec + 1 = NumSecs THEN "header" ELSE "erase"
  /\ UNCHANGED <<paired, station, slot, ver, piece, tries, progress, delay>>

WriteHeader ==
  /\ pc = "header"
  /\ hdr' = [hdr EXCEPT ![slot] = NewHdr(ver)]
  /\ StartPieces(slot, ver, NewHdr(ver))
  /\ UNCHANGED <<cell, paired, hurt, station>>

\* (mutant: one request too many)
NoChunkOnceMore ==
  /\ pc = "request"
  /\ \/ /\ tries < MaxTries
        /\ tries' = tries + 1
        /\ UNCHANGED <<pc, slot, ver, sec, piece, progress, delay>>
     \/ /\ tries = MaxTries
        /\ EndSession(IF progress THEN "retry" ELSE "checkin")
  /\ UNCHANGED <<eeprom, station>>

\* No answer within 200 ms, or a packet of another type: ask again, up to
\* MaxTries times.
NoChunk ==
  /\ pc = "request"
  /\ \/ /\ tries + 1 < MaxTries
        /\ tries' = tries + 1
        /\ UNCHANGED <<pc, slot, ver, sec, piece, progress, delay>>
     \/ /\ tries + 1 = MaxTries
        /\ EndSession(IF progress THEN "retry" ELSE "checkin")
  /\ UNCHANGED <<eeprom, station>>

\* A bad MIC, a packet too short, no data, or data of the wrong length.
BadChunk ==
  /\ pc = "request"
  /\ EndSession("checkin")
  /\ UNCHANGED <<eeprom, station>>

\* Where the bytes of a piece go: beyond the slot's end lie the header and
\* then the pieces of the next slot.
Spill(p) == slot * (SlotCap + 1) + p + 1

Program(p, whole) ==
  \/ /\ p < SlotCap
     /\ cell' = [cell EXCEPT ![slot][p] = Programmed(@, ver, whole)]
     /\ UNCHANGED hdr
  \/ /\ p >= SlotCap
     /\ LET s == Spill(p) \div (SlotCap + 1)
            i == Spill(p) % (SlotCap + 1)
        IN \/ s >= NumSlots /\ UNCHANGED <<hdr, cell>>
           \/ /\ s < NumSlots /\ i = 0
              /\ hdr' = [hdr EXCEPT ![s] = GarbageHdr]
              /\ UNCHANGED cell
           \/ /\ s < NumSlots /\ i > 0
              /\ cell' = [cell EXCEPT ![s][i - 1] = Junk]
              /\ UNCHANGED hdr

\* The station answers a request only for the version it stores.
WriteData ==
  /\ pc = "request" /\ station = ver
  /\ Program(piece, TRUE)
  /\ pc' = "bit"
  /\ UNCHANGED <<paired, hurt, station, slot, ver, sec, piece, tries, progress, delay>>

\* (mutant: the bits are numbered from the other end)
ClearBitReversed ==
  /\ pc = "bit"
  /\ hdr' = [hdr EXCEPT ![slot].missing = @ \ {PieceCap - 1 - piece}]
  /\ piece' = piece + 1 /\ tries' = 0 /\ progress' = TRUE
  /\ pc' = IF piece + 1 = NPieces(hdr[slot]) THEN "mark" ELSE "request"
  /\ UNCHANGED <<cell, paired, hurt, station, slot, ver, sec, delay>>

ClearBit ==
  /\ pc = "bit"
  /\ hdr' = [hdr EXCEPT ![slot].missing = @ \ {piece}]
  /\ piece' = piece + 1 /\ tries' = 0 /\ progress' = TRUE
  /\ pc' = IF piece + 1 = NPieces(hdr[slot]) THEN "mark" ELSE "request"
  /\ UNCHANGED <<cell, paired, hurt, station, slot, ver, sec, delay>>

MarkValid ==
  /\ pc = "mark"
  /\ hdr' = [hdr EXCEPT ![slot].mark = "valid"]
  /\ EndSession("checkin")
  /\ UNCHANGED <<cell, paired, hurt, station>>

-----------------------------------------------------------------------------
(* Power lost while a page is programmed.  A field of several bits is then  *)
(* either written or reads as nothing sensible; the in-progress marker      *)
(* differs from the erased one by a single bit.                             *)

TornHeader ==
  /\ TornWrites /\ pc = "header"
  /\ \E v \in {0, ver}, m \in {"erased", "inprogress"}, n \in {Unwritten, Size[ver]} :
       hdr' = [hdr EXCEPT ![slot] = [ver |-> v, mark |-> m, size |-> n, missing |-> Bits]]
  /\ Sleep
  /\ UNCHANGED <<cell, paired, hurt, station, delay>>

TornData ==
  /\ TornWrites /\ pc = "request" /\ station = ver
  /\ Program(piece, FALSE)
  /\ Sleep
  /\ UNCHANGED <<paired, hurt, station, delay>>

TornMark ==
  /\ TornWrites /\ pc = "mark"
  /\ hdr[slot].mark # "valid"
  /\ hdr' = [hdr EXCEPT ![slot].mark = "other"]
  /\ Sleep
  /\ UNCHANGED <<cell, paired, hurt, station, delay>>

-----------------------------------------------------------------------------
(* Power lost while an erase command runs.  An erase raises bits and clears *)
(* none: every field of the header, and every piece, is kept, erased, or    *)
(* something between the two, and what was erased already stays that way.   *)
(* A number between reads as nothing sensible; a valid marker may pass      *)
(* through the in-progress one on its way, and of the bitmap any bit may be *)
(* back.  (A valid marker that outlives its own version is left out.)       *)

LeftOf(m) ==
  {m, "erased"} \cup (IF m \in {"valid", "other"} THEN {"inprogress", "other"} ELSE {})

HalfErased(h) ==
  {g \in [ver : {0, h.ver}, mark : LeftOf(h.mark), size : {h.size, Unwritten},
          missing : {b \in SUBSET Bits : h.missing \subseteq b}] :
     g.mark = "valid" => g.ver = h.ver}

TornErase ==
  /\ MaxHurt > 0 /\ pc \in {"pairErase", "erase"}
  /\ \E left \in [{p \in Pieces : SecOf[p] = sec} -> {"kept", "erased", "junk"}] :
       cell' = [cell EXCEPT ![slot] =
                  [p \in Pieces |-> IF SecOf[p] # sec \/ left[p] = "kept" THEN cell[slot][p]
                                    ELSE IF left[p] = "erased" \/ cell[slot][p] = Blank
                                         THEN Blank ELSE Junk]]
  /\ \/ /\ sec = 0 /\ Cardinality(hurt \cup {slot}) <= MaxHurt
        /\ \E g \in HalfErased(hdr[slot]) : hdr' = [hdr EXCEPT ![slot] = g]
        /\ hurt' = hurt \cup {slot}
     \/ /\ sec # 0
        /\ UNCHANGED <<hdr, hurt>>
  /\ Sleep
  /\ UNCHANGED <<paired, station, delay>>

-----------------------------------------------------------------------------
Download == CheckIn \/ Erase \/ WriteHeader \/ NoChunk \/ BadChunk
            \/ WriteData \/ ClearBit \/ MarkValid
Pairing  == Dissociate \/ Associate \/ PairErase \/ PairSave
Torn     == TornHeader \/ TornData \/ TornMark \/ TornErase

Next ==
  \/ \E v \in Versions \cup {0} : Publish(v)
  \/ PowerLoss
  \/ Pairing
  \/ Download
  \/ Torn

Spec == Init /\ [][Next]_vars

-----------------------------------------------------------------------------
(* Type invariant: every variable has the shape the firmware gives it.      *)
TypeOK ==
  /\ hdr \in [Slots -> Header]
  /\ cell \in [Slots -> [Pieces -> Content]]
  /\ paired \in BOOLEAN
  /\ hurt \in SUBSET Slots
  /\ station \in Versions \cup {0}
  /\ pc \in {"sleep", "pairErase", "pairSave", "erase", "header", "request",
             "bit", "mark"}
  /\ slot \in Slots
  /\ ver \in Versions \cup {0}
  /\ sec \in 0 .. NumSecs
  /\ piece \in 0 .. PieceCap
  /\ tries \in 0 .. MaxTries - 1
  /\ progress \in BOOLEAN
  /\ delay \in {"checkin", "retry"}

(* Every image fits its slot, or is too big for the bitmap as well and is   *)
(* refused.  The code checks a size against the bitmap only, so this is an  *)
(* assumption about the images of the station.                              *)
SizesFit == \A v \in Versions : Size[v] <= SlotCap \/ Size[v] > PieceCap

(* An image marked valid is one: every one of its pieces holds the bytes of *)
(* the header's version, whatever sequence of interrupted downloads, power  *)
(* losses, torn programs, replaced images and re-pairings led there.  Only  *)
(* a slot whose header outlived an erase that was cut short is left out     *)
(* until it is erased again: see DoneWhenMarked.                            *)
ImageWhole ==
  \A s \in Marked("valid") \ hurt : \A p \in 0 .. NPieces(hdr[s]) - 1 :
    Holds(s, p, hdr[s].ver)

(* The bitmap never claims too much: a piece whose bit is cleared is in the *)
(* EEPROM, so a download resumed after a power loss may skip it.  A cut     *)
(* erase of the slot's later sectors is no exception, for their header is   *)
(* gone by then; a cut erase of the header's own sector is (DoneWhenMarked).*)
BitmapTrue ==
  \A s \in Slots \ hurt : hdr[s].ver # 0 =>
    \A p \in Bits : p < NPieces(hdr[s]) /\ p \notin hdr[s].missing
      => Holds(s, p, hdr[s].ver)

(* The pieces still missing are the last ones.  The download loop relies on *)
(* it: it looks for the first missing piece and then fetches every later    *)
(* one without looking at its bit again.  A cut erase of the header may set *)
(* any bit back.                                                            *)
MissingIsTail ==
  \A s \in Slots \ hurt : \A p \in hdr[s].missing : \A q \in Bits :
    q > p => q \in hdr[s].missing

(* No piece is asked for again once its bit is cleared: wherever an earlier *)
(* session was cut off, and whatever was offered since, a session asks for  *)
(* what is missing only.                                                    *)
AsksForMissing ==
  pc \in {"request", "bit"} /\ slot \notin hurt => piece \in hdr[slot].missing

(* A paired tag has one unfinished download at most, and it is where the    *)
(* next check-in looks for it, so that it is resumed or replaced, never     *)
(* left behind.                                                             *)
OneDownload ==
  paired => \A s \in Marked("inprogress") : s = Target

(* A session for an image that its slot holds a part of adds to that part:  *)
(* it erases nothing and sets no bit back, however the sessions before it   *)
(* ended.  Sessions that are cut short again and again get to the end       *)
(* because of this.                                                         *)
ProgressKept ==
  [][ver # 0 /\ hdr[slot].ver = ver =>
       hdr'[slot].ver = ver /\ hdr'[slot].missing \subseteq hdr[slot].missing]_vars

(* A download never touches the newest complete image: while the tag stays  *)
(* paired, no step erases or programs any part of the slot that holds it.   *)
NewestKept ==
  [][(paired /\ paired' /\ Marked("valid") # {}) =>
       LET s == Latest(Marked("valid"))
       IN hdr'[s] = hdr[s] /\ cell'[s] = cell[s]]_vars

(* What the comments say, and the code does not do in every case.           *)

(* "Each image space is 0x17000 bytes, we have space for ten of them"       *)
(* (eeprom.h): what is downloaded stays in the space of its own image.  The *)
(* size check of prvDriveDownload looks at the bitmap, not at the space, so *)
(* that this needs SizesFit (theorem FittingImagesStayInside).              *)
InOwnSpace == pc \in {"request", "bit"} => piece < SlotCap

(* "If we are here, we succeeded in finishing the download": a header that  *)
(* is marked valid describes the image of its version, all of it stored.    *)
DownloadDone ==
  \A s \in Marked("valid") :
    /\ hdr[s].ver # 0 /\ hdr[s].size = Size[hdr[s].ver]
    /\ \A p \in 0 .. hdr[s].size - 1 : Holds(s, p, hdr[s].ver)

(* The same sentence of the step itself: when a download is marked valid,   *)
(* the image it was for is in the slot.  prvDriveImageDownload takes a      *)
(* header with the version on offer for a download to resume, though power  *)
(* may have been lost while the slot was being erased for another version.  *)
(* (A header that lost its size as well is what DownloadDone is about.)     *)
DoneWhenMarked ==
  [][MarkValid /\ hdr[slot].size = Size[ver] =>
       \A p \in 0 .. Size[ver] - 1 : Holds(slot, p, ver)]_vars

-----------------------------------------------------------------------------
(* To its user the image store is a register holding the newest image: a    *)
(* download, however often it is interrupted, replaces the image of a       *)
(* paired tag in a single step or not at all, and never with an older one.  *)
Register == INSTANCE ImageRegister
              WITH current <- IF paired THEN LatestVer ELSE 0
ImplementsRegister == Register!Spec

-----------------------------------------------------------------------------
(* A tag that is powered runs its program to the end (waiting for a chunk   *)
(* ends within 200 ms), a paired tag wakes up and checks in again after     *)
(* every session, and the radio link is not dead for good: of infinitely    *)
(* many requests that the station can answer some is answered.              *)
Fairness ==
  /\ WF_vars(Erase) /\ WF_vars(WriteHeader)
  /\ WF_vars(ClearBit) /\ WF_vars(MarkValid)
  /\ WF_vars(NoChunk \/ BadChunk \/ WriteData)
  /\ SF_vars(CheckIn) /\ SF_vars(WriteData)

FairSpec == Spec /\ Fairness

AnyPowerLoss == PowerLoss \/ Torn

(* Once the host leaves an image that the tag has room for with the station *)
(* and the tag keeps its pairing and its battery, the tag ends up with a    *)
(* header marked valid of that image or a newer one, whatever happened      *)
(* before (that its pieces are there as well is ImageWhole).  Headers that  *)
(* were torn to a version with a size that is not its own are left out:     *)
(* DownloadDone is about them.                                              *)
Delivered ==
  \A v \in {w \in Versions : Size[w] <= PieceCap} :
    ( /\ <>[](station = v /\ paired)
      /\ <>[][~AnyPowerLoss]_vars
      /\ [](\A s \in Slots : hdr[s].ver # 0 => hdr[s].size = Size[hdr[s].ver]) )
    => <>[](\E s \in Marked("valid") : hdr[s].ver >= v /\ hdr[s].size = Size[hdr[s].ver])

============================================================================

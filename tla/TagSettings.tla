---------------------------- MODULE TagSettings ----------------------------
(***************************************************************************)
(* The settings of a tag (firmware/common/settings.c): a log of records in *)
(* a few erase pages of the SPI EEPROM.  A wake-up reads the record with   *)
(* the highest revision, works on a copy in RAM and, at its end, appends   *)
(* the copy behind the newest record, or erases the page after it first.   *)
(* Power can be lost between any two EEPROM commands and, when TornWrites, *)
(* in the middle of a program or of an erase, which leaves headers that are *)
(* not read as one.                                                        *)
(*                                                                         *)
(* Records of the old layout are as long as the present ones here; what is *)
(* in the settings is a value.                                             *)
(***************************************************************************)
EXTENDS Integers, FiniteSets

CONSTANTS
  NumPages,    \* EEPROM_NUM_SETTINGS_PAGES
  PerPage,     \* records that fit in one page
  Values,      \* contents of the settings
  Default,     \* the contents of settings that were never saved
  MaxRevision, \* bound on revisions, a uint64_t
  TornWrites   \* may a power loss leave a record half written?

Pages   == 0 .. NumPages - 1
Indices == 0 .. PerPage - 1
Places  == Pages \X Indices

ASSUME SettingsAssumption ==
  /\ NumPages \in Nat \ {0} /\ PerPage \in Nat \ {0}
  /\ MaxRevision \in Nat \ {0} /\ TornWrites \in BOOLEAN
  /\ Default \in Values /\ "none" \notin Values

VARIABLES
  flash,   \* the settings area
  pc,      \* "off", or where in settingsRead and settingsWrite a wake-up is
  cur,     \* mCurSettingsAddr, a set that is empty when it is 0
  mem,     \* mSettings: a revision and the contents
  at,      \* where the record being written goes
  last     \* is it the record the wake-up ends with?

vars == <<flash, pc, cur, mem, at, last>>

-----------------------------------------------------------------------------
(* The log.                                                                 *)

Layouts == {1, 2}        \* SETTINGS_VER_1, SETTINGS_CURRENT

Cell == [kind : {"record", "erased", "junk"}, rev : Nat, val : Values, layout : Layouts]

RecordOf(r, v, l) == [kind |-> "record", rev |-> r, val |-> v, layout |-> l]
Erased == [kind |-> "erased", rev |-> 0, val |-> Default, layout |-> 2]
Junk   == [kind |-> "junk", rev |-> 0, val |-> Default, layout |-> 2]

IsRecord(c) == c.kind = "record"

\* settingsRead goes through a page up to the first thing that is no record,
\* and only sees a revision above 0.
Readable(a) == \A i \in 0 .. a[2] : IsRecord(flash[a[1]][i])
Rev(a)      == flash[a[1]][a[2]].rev
Val(a)      == flash[a[1]][a[2]].val
Layout(a)   == flash[a[1]][a[2]].layout

\* (mutant: the scan ends with the first page that has a record)
SavedInFirstPage ==
  {a \in Places : /\ Readable(a) /\ Rev(a) > 0
                  /\ \A p \in 0 .. a[1] - 1 : ~Readable(<<p, 0>>)}

Saved == {a \in Places : Readable(a) /\ Rev(a) > 0}

Before(a, b) == a[1] < b[1] \/ (a[1] = b[1] /\ a[2] <= b[2])

\* Of records with the same revision the first one in the area is kept.
Newest ==
  CHOOSE a \in Saved : \A b \in Saved :
    Rev(b) < Rev(a) \/ (Rev(b) = Rev(a) /\ Before(a, b))

Found == IF Saved = {} THEN {} ELSE {Newest}

\* (mutant: the end of the area is not looked for)
PageAfterUnbounded(p) == p + 1

\* (mutant: the page that is full is the one erased)
PageAfterItself(p) == p

\* The page after page p, around the end of the area.
PageAfter(p) == IF p + 1 = NumPages THEN 0 ELSE p + 1

\* Where settingsPrvDoWrite goes from place a: behind it, if there is space
\* that is erased, or to the next page.
Behind(a)  == <<a[1], a[2] + 1>>
HasRoom(a) == a[2] + 1 < PerPage /\ flash[a[1]][a[2] + 1] = Erased

-----------------------------------------------------------------------------
Nothing == [rev |-> 0, val |-> Default]

Off ==
  /\ pc' = "off" /\ cur' = {} /\ mem' = Nothing
  /\ at' = <<0, 0>> /\ last' = FALSE

\* The choice at the top of settingsPrvDoWrite, with newest record where.
DoWrite(where) ==
  \/ \E a \in where : HasRoom(a) /\ at' = Behind(a) /\ pc' = "program"
  \/ \E a \in where : ~HasRoom(a) /\ at' = <<PageAfter(a[1]), 0>> /\ pc' = "erase"
  \/ where = {} /\ at' = <<0, 0>> /\ pc' = "erase"

Init ==
  \* a new EEPROM, one with the data of other firmware, and one with the
  \* settings of a tag that ran the first layout
  /\ \E rest \in {Erased, Junk} :
       \E first \in {rest} \cup {RecordOf(1, v, 1) : v \in Values} :
         flash = [p \in Pages |-> [i \in Indices |->
                    IF p = 0 /\ i = 0 THEN first ELSE rest]]
  /\ pc = "off" /\ cur = {} /\ mem = Nothing
  /\ at = <<0, 0>> /\ last = FALSE

\* settingsRead at the start of a wake-up, with its migrations: settings
\* that do not exist yet, or have the old layout, are written at once.
Wake ==
  /\ pc = "off"
  /\ cur' = Found /\ last' = FALSE
  /\ mem' = IF Saved = {} THEN Nothing
            ELSE [rev |-> Rev(Newest), val |-> Val(Newest)]
  /\ \/ /\ Saved # {} /\ Layout(Newest) = 2
        /\ pc' = "run" /\ UNCHANGED at
     \/ /\ Saved # {} => Layout(Newest) # 2 /\ Rev(Newest) < MaxRevision
        /\ DoWrite(Found)
  /\ UNCHANGED flash

\* What the wake-up does to its copy.
Change ==
  /\ pc = "run"
  /\ \E v \in Values : mem' = [mem EXCEPT !.val = v]
  /\ UNCHANGED <<flash, pc, cur, at, last>>

\* settingsWrite: read again, and write the copy unless it is what was read.
Finish ==
  /\ pc = "run"
  /\ \/ /\ mem = [rev |-> Rev(Newest), val |-> Val(Newest)]
        /\ Off
     \/ /\ mem # [rev |-> Rev(Newest), val |-> Val(Newest)]
        /\ mem.rev < MaxRevision
        /\ cur' = Found /\ last' = TRUE
        /\ DoWrite(Found)
        /\ UNCHANGED mem
  /\ UNCHANGED flash

Erase ==
  /\ pc = "erase"
  /\ flash' = [flash EXCEPT ![at[1]] = [i \in Indices |-> Erased]]
  /\ pc' = "program"
  /\ UNCHANGED <<cur, mem, at, last>>

\* (mutant: the revision is not incremented)
NewRecordSameRevision == RecordOf(IF mem.rev = 0 THEN 1 ELSE mem.rev, mem.val, 2)

NewRecord == RecordOf(mem.rev + 1, mem.val, 2)

\* settingsPrvDoWriteAtLocation, into a place that is erased.
Program ==
  /\ pc = "program"
  /\ flash' = [flash EXCEPT ![at[1]][at[2]] = NewRecord]
  /\ \/ last /\ Off
     \/ /\ ~last
        /\ pc' = "run" /\ cur' = {at} /\ mem' = [mem EXCEPT !.rev = @ + 1]
        /\ UNCHANGED <<at, last>>

PowerLoss ==
  /\ pc # "off"
  /\ Off
  /\ UNCHANGED flash

TornProgram ==
  /\ TornWrites /\ pc = "program"
  /\ flash' = [flash EXCEPT ![at[1]][at[2]] = Junk]
  /\ Off

TornErase ==
  /\ TornWrites /\ pc = "erase"
  /\ \E what \in [Indices -> {"kept", "erased", "junk"}] :
       flash' = [flash EXCEPT ![at[1]] = [i \in Indices |->
                   CASE what[i] = "kept"   -> flash[at[1]][i]
                     [] what[i] = "erased" -> Erased
                     [] what[i] = "junk"   -> Junk]]
  /\ Off

Cut  == PowerLoss \/ TornProgram \/ TornErase
Next == Wake \/ Change \/ Finish \/ Erase \/ Program \/ Cut

Spec == Init /\ [][Next]_vars

-----------------------------------------------------------------------------
(* Type invariant: every variable has the shape the firmware gives it.      *)
TypeOK ==
  /\ flash \in [Pages -> [Indices -> Cell]]
  /\ pc \in {"off", "run", "erase", "program"}
  /\ cur \in SUBSET Places
  /\ mem \in [rev : Nat, val : Values]
  /\ at \in Places
  /\ last \in BOOLEAN

(* Two records that are read never carry the same revision: the scan would  *)
(* keep the older of them, and go on doing so for ever.                     *)
RevisionsDiffer ==
  \A a, b \in Saved : a # b => Rev(a) # Rev(b)

(* A wake-up that is not cut short leaves its copy where the next one finds *)
(* it: what was written is what the scan of the log picks.                  *)
SleepsSaved ==
  [][(pc # "off" /\ pc' = "off" /\ ~Cut) =>
       Saved' # {} /\ Val(Newest)' = mem.val]_vars

(* A power loss may cut an erase short, or the program of a record before   *)
(* its header reads as one: the log is an atomic cell nevertheless.  The    *)
(* next wake-up reads the settings as they were saved last or the ones that *)
(* were being saved, never older ones and never none.  (A body that either  *)
(* tears under a header that still reads is not in the model: the code has  *)
(* no checksum that could tell.)                                            *)
Register == INSTANCE SettingsRegister
              WITH saved <- IF Saved = {} THEN "none" ELSE Val(Newest),
                   on    <- pc # "off",
                   copy  <- IF pc = "off" THEN "none" ELSE mem.val,
                   None  <- "none"
ImplementsRegister == Register!Spec

============================================================================

------------------------- MODULE TagSettings_proofs -------------------------
(***************************************************************************)
(* The settings log is an atomic cell: theorems about TagSettings for any  *)
(* number of pages above one, any page size and any pattern of power       *)
(* losses and half written records.                                        *)
(***************************************************************************)
EXTENDS TagSettings, TLAPS

(* A single page would have to be erased while it holds the only settings; *)
(* every board has two pages at least.                                     *)
ManyPages == NumPages > 1

-----------------------------------------------------------------------------
(* The operators on the log, for any contents f of the settings area, so    *)
(* that they can be applied to the area before and after a step.            *)

RecordsIn(f)     == {a \in Places : IsRecord(f[a[1]][a[2]])}
ReadableIn(f, a) == \A i \in 0 .. a[2] : IsRecord(f[a[1]][i])
RevIn(f, a)      == f[a[1]][a[2]].rev
SavedIn(f)       == {a \in Places : ReadableIn(f, a) /\ RevIn(f, a) > 0}
NewestIn(f) ==
  CHOOSE a \in SavedIn(f) : \A b \in SavedIn(f) :
    RevIn(f, b) < RevIn(f, a) \/ (RevIn(f, b) = RevIn(f, a) /\ Before(a, b))

(* Place a holds the newest record, by far: every other record, read by the *)
(* scan or not, has a lower revision.                                       *)
Top(f, a) ==
  /\ a \in SavedIn(f)
  /\ \A b \in RecordsIn(f) : b # a => RevIn(f, b) < RevIn(f, a)

Log == [Pages -> [Indices -> Cell]]

LEMMA ConstantFacts ==
  /\ NumPages \in Nat \ {0} /\ PerPage \in Nat \ {0} /\ MaxRevision \in Nat
  /\ Default \in Values /\ "none" \notin Values
BY SettingsAssumption DEF SettingsAssumption

LEMMA OperatorsOf ==
  /\ Saved = SavedIn(flash) /\ Newest = NewestIn(flash)
  /\ \A a : Rev(a) = RevIn(flash, a)
BY DEF Saved, Readable, SavedIn, ReadableIn, Newest, NewestIn, Rev, RevIn

LEMMA OperatorsAfter ==
  /\ Saved' = SavedIn(flash') /\ Newest' = NewestIn(flash')
BY DEF Saved, Readable, SavedIn, ReadableIn, Newest, NewestIn, Rev, RevIn

LEMMA PlaceParts ==
  ASSUME NEW a \in Places
  PROVE  /\ a[1] \in Pages /\ a[2] \in Indices /\ a = <<a[1], a[2]>>
         /\ a[2] \in Nat /\ a[2] < PerPage /\ a[1] \in Nat /\ a[1] < NumPages
         /\ \A i \in 0 .. a[2] : i \in Indices
BY ConstantFacts DEF Places, Pages, Indices

LEMMA SavedAreRecords ==
  ASSUME NEW f \in Log
  PROVE  SavedIn(f) \subseteq RecordsIn(f)
BY PlaceParts DEF SavedIn, ReadableIn, RecordsIn

LEMMA RevType ==
  ASSUME NEW f \in Log, NEW a \in Places
  PROVE  RevIn(f, a) \in Nat /\ f[a[1]][a[2]] \in Cell
<1>1. f[a[1]] \in [Indices -> Cell]
  BY PlaceParts DEF Log
<1>2. f[a[1]][a[2]] \in Cell
  BY <1>1, PlaceParts
<1> QED
  BY <1>2 DEF RevIn, Cell

(* The scan of settingsRead picks the record that is newest by far. *)
LEMMA TopIsNewest ==
  ASSUME NEW f \in Log, NEW a, Top(f, a)
  PROVE  NewestIn(f) = a /\ SavedIn(f) # {}
<1> DEFINE Wins(x) == \A b \in SavedIn(f) :
             RevIn(f, b) < RevIn(f, x) \/ (RevIn(f, b) = RevIn(f, x) /\ Before(x, b))
<1>1. a \in SavedIn(f) /\ a \in Places
  BY DEF Top, SavedIn
<1>2. Before(a, a)
  BY <1>1, PlaceParts DEF Before
<1>3. Wins(a)
  BY <1>1, <1>2, SavedAreRecords DEF Top
<1>4. ASSUME NEW x \in SavedIn(f), Wins(x)
      PROVE  x = a
  <2>1. RevIn(f, a) < RevIn(f, x) \/ RevIn(f, a) = RevIn(f, x)
    BY <1>1, <1>4
  <2>2. x \in RecordsIn(f) /\ x \in Places
    BY SavedAreRecords DEF SavedIn
  <2>3. x # a => RevIn(f, x) < RevIn(f, a)
    BY <2>2 DEF Top
  <2>4. RevIn(f, x) \in Nat /\ RevIn(f, a) \in Nat
    BY <1>1, <2>2, RevType
  <2> QED
    BY <2>1, <2>3, <2>4
<1>5. NewestIn(f) = CHOOSE x \in SavedIn(f) : Wins(x)
  BY DEF NewestIn
<1> HIDE DEF Wins
<1>6. NewestIn(f) \in SavedIn(f) /\ Wins(NewestIn(f))
  BY <1>1, <1>3, <1>5
<1> QED
  BY <1>1, <1>4, <1>6

-----------------------------------------------------------------------------
(* The inductive invariant.                                                 *)

(* Records differ in their revisions, and one of them is the newest by far, *)
(* unless there are none.                                                   *)
LogInv(f) ==
  /\ \A a, b \in RecordsIn(f) : a # b => RevIn(f, a) # RevIn(f, b)
  /\ RecordsIn(f) = {} \/ \E a : Top(f, a)

(* Where the next record goes: while its page is erased, the newest record  *)
(* is in another one; once it may be programmed, it is free and every place *)
(* before it holds a record.                                                *)
WriteInv ==
  /\ pc # "off" => mem.rev = IF Saved = {} THEN 0 ELSE Rev(Newest)
  /\ pc = "run" => Saved # {}
  /\ pc = "erase" => at[2] = 0 /\ (Saved # {} => Newest[1] # at[1])
  /\ pc = "program" => /\ ~IsRecord(flash[at[1]][at[2]])
                       /\ \A i \in 0 .. at[2] - 1 : IsRecord(flash[at[1]][i])

IInv == TypeOK /\ LogInv(flash) /\ WriteInv

LEMMA LogFacts ==
  ASSUME NEW f \in Log, LogInv(f)
  PROVE  /\ SavedIn(f) = {} <=> RecordsIn(f) = {}
         /\ SavedIn(f) # {} => Top(f, NewestIn(f)) /\ NewestIn(f) \in Places
<1>1. SavedIn(f) \subseteq RecordsIn(f)
  BY SavedAreRecords
<1>2. \A a : Top(f, a) => NewestIn(f) = a /\ SavedIn(f) # {} /\ a \in Places
  BY TopIsNewest DEF Top, SavedIn
<1> QED
  BY <1>1, <1>2 DEF LogInv

(* Whatever happens to the other places, the newest record stays the newest *)
(* as long as it and the records before it in its page are left alone and   *)
(* no record appears.                                                       *)
LEMMA NewestSurvives ==
  ASSUME NEW f \in Log, NEW g \in Log, LogInv(f),
         \A a \in RecordsIn(g) : a \in RecordsIn(f) /\ g[a[1]][a[2]] = f[a[1]][a[2]],
         SavedIn(f) # {} => \A i \in 0 .. NewestIn(f)[2] :
                              g[NewestIn(f)[1]][i] = f[NewestIn(f)[1]][i]
  PROVE  /\ LogInv(g)
         /\ SavedIn(g) = {} <=> SavedIn(f) = {}
         /\ SavedIn(f) # {} => /\ NewestIn(g) = NewestIn(f)
                               /\ g[NewestIn(f)[1]][NewestIn(f)[2]] = f[NewestIn(f)[1]][NewestIn(f)[2]]
<1> DEFINE n == NewestIn(f)
<1>1. \A a, b \in RecordsIn(g) : a # b => RevIn(g, a) # RevIn(g, b)
  BY DEF LogInv, RevIn
<1>2. CASE SavedIn(f) = {}
  <2>1. RecordsIn(g) = {}
    BY <1>2, LogFacts
  <2>2. SavedIn(g) = {}
    BY <2>1, SavedAreRecords
  <2> QED
    BY <1>1, <1>2, <2>1, <2>2 DEF LogInv
<1>3. CASE SavedIn(f) # {}
  <2>1. Top(f, n) /\ n \in Places
    BY <1>3, LogFacts
  <2> HIDE DEF n
  <2>2. \A i \in 0 .. n[2] : g[n[1]][i] = f[n[1]][i]
    BY <1>3 DEF n
  <2>3. n[2] \in 0 .. n[2]
    BY <2>1, PlaceParts
  <2>4. n \in SavedIn(g) /\ RevIn(g, n) = RevIn(f, n) /\ g[n[1]][n[2]] = f[n[1]][n[2]]
    BY <2>1, <2>2, <2>3 DEF Top, SavedIn, ReadableIn, RevIn
  <2>5. \A b \in RecordsIn(g) : b # n => RevIn(g, b) < RevIn(g, n)
    BY <2>1, <2>4 DEF Top, RevIn
  <2>6. Top(g, n)
    BY <2>4, <2>5 DEF Top
  <2>7. NewestIn(g) = n /\ SavedIn(g) # {}
    BY <2>6, TopIsNewest
  <2> QED
    BY <1>1, <1>3, <2>4, <2>6, <2>7 DEF LogInv, n
<1> QED
  BY <1>2, <1>3

(* A record with a higher revision, programmed behind records only, is the  *)
(* newest.                                                                  *)
LEMMA NewestAppended ==
  ASSUME NEW f \in Log, NEW g \in Log, LogInv(f), NEW a \in Places,
         \A b \in Places : b # a => g[b[1]][b[2]] = f[b[1]][b[2]],
         IsRecord(g[a[1]][a[2]]), RevIn(g, a) > 0,
         \A i \in 0 .. a[2] - 1 : IsRecord(f[a[1]][i]),
         \A b \in RecordsIn(f) : RevIn(f, b) < RevIn(g, a)
  PROVE  LogInv(g) /\ SavedIn(g) # {} /\ NewestIn(g) = a
<1>1. \A i \in 0 .. a[2] : IsRecord(g[a[1]][i])
  <2>1. ASSUME NEW i \in 0 .. a[2] - 1
        PROVE  IsRecord(g[a[1]][i])
    <3>1. <<a[1], i>> \in Places /\ <<a[1], i>> # a
      BY PlaceParts DEF Places, Indices
    <3> QED
      BY <3>1
  <2> QED
    BY <2>1, PlaceParts
<1>2. \A b \in RecordsIn(g) : b # a => b \in RecordsIn(f) /\ RevIn(g, b) = RevIn(f, b)
  BY DEF RecordsIn, RevIn
<1>3. RevIn(g, a) \in Nat /\ \A b \in RecordsIn(f) : RevIn(f, b) \in Nat
  BY RevType DEF RecordsIn
<1>5. Top(g, a)
  BY <1>1, <1>2 DEF Top, SavedIn, ReadableIn
<1>6. \A b, c \in RecordsIn(g) : b # c => RevIn(g, b) # RevIn(g, c)
  BY <1>2, <1>3 DEF LogInv
<1> QED
  BY <1>5, <1>6, TopIsNewest DEF LogInv

-----------------------------------------------------------------------------
LEMMA NewestFacts ==
  ASSUME IInv
  PROVE  /\ Saved # {} => /\ Newest \in Places /\ Newest \in Saved
                          /\ Rev(Newest) \in Nat \ {0} /\ Val(Newest) \in Values
                          /\ \A b \in RecordsIn(flash) : RevIn(flash, b) <= Rev(Newest)
         /\ Saved = {} => RecordsIn(flash) = {}
<1>1. flash \in Log /\ LogInv(flash)
  BY DEF IInv, TypeOK, Log
<1>2. Saved = {} => RecordsIn(flash) = {}
  BY <1>1, LogFacts, OperatorsOf
<1>3. CASE Saved # {}
  <2> DEFINE n == NewestIn(flash)
  <2>1. Top(flash, n) /\ n \in Places /\ Newest = n
    BY <1>1, <1>3, LogFacts, OperatorsOf
  <2> HIDE DEF n
  <2>2. flash[n[1]][n[2]] \in Cell /\ RevIn(flash, n) \in Nat
    BY <1>1, <2>1, RevType
  <2>3. n \in Saved /\ Rev(n) \in Nat \ {0} /\ Rev(n) = RevIn(flash, n)
    BY <2>1, <2>2, OperatorsOf DEF Top, SavedIn
  <2>4. Val(n) \in Values
    BY <2>2 DEF Val, Cell
  <2>5. \A b \in RecordsIn(flash) : RevIn(flash, b) <= Rev(n)
    <3>1. \A b \in RecordsIn(flash) : RevIn(flash, b) \in Nat
      BY <1>1, RevType DEF RecordsIn
    <3> QED
      BY <2>1, <2>3, <3>1 DEF Top
  <2> QED
    BY <1>3, <2>1, <2>3, <2>4, <2>5
<1> QED
  BY <1>2, <1>3

(* Where settingsPrvDoWrite decides to write. *)
LEMMA DoWriteChooses ==
  ASSUME ManyPages, IInv, DoWrite(Found)
  PROVE  /\ at' \in Places /\ pc' \in {"erase", "program"}
         /\ pc' = "erase" => at'[2] = 0 /\ (Saved # {} => Newest[1] # at'[1])
         /\ pc' = "program" => /\ ~IsRecord(flash[at'[1]][at'[2]])
                               /\ \A i \in 0 .. at'[2] - 1 : IsRecord(flash[at'[1]][i])
<1>1. CASE Saved = {}
  <2>1. at' = <<0, 0>> /\ pc' = "erase"
    BY <1>1 DEF DoWrite, Found
  <2>2. <<0, 0>> \in Places
    BY ConstantFacts DEF Places, Pages, Indices
  <2> QED
    BY <1>1, <2>1, <2>2
<1>2. CASE Saved # {}
  <2> DEFINE n == Newest
  <2>1. /\ n \in Places /\ n \in Saved /\ n[1] \in Pages /\ n[2] \in Indices
        /\ \A i \in 0 .. n[2] : IsRecord(flash[n[1]][i])
    BY <1>2, NewestFacts, PlaceParts DEF Saved, Readable
  <2>2. \/ HasRoom(n) /\ at' = Behind(n) /\ pc' = "program"
        \/ at' = <<PageAfter(n[1]), 0>> /\ pc' = "erase"
    BY <1>2 DEF DoWrite, Found
  <2> HIDE DEF n
  <2>3. CASE HasRoom(n) /\ at' = Behind(n) /\ pc' = "program"
    <3>1. at'[1] = n[1] /\ at'[2] = n[2] + 1 /\ at' \in Places
      BY <2>1, <2>3, ConstantFacts DEF HasRoom, Behind, Places, Indices
    <3>2. ~IsRecord(flash[at'[1]][at'[2]])
      BY <2>3, <3>1 DEF HasRoom, IsRecord, Erased
    <3>3. \A i \in 0 .. at'[2] - 1 : i \in 0 .. n[2]
      BY <2>1, <3>1, ConstantFacts DEF Indices
    <3> QED
      BY <2>1, <2>3, <3>1, <3>2, <3>3
  <2>4. CASE at' = <<PageAfter(n[1]), 0>> /\ pc' = "erase"
    <3>1. PageAfter(n[1]) \in Pages /\ PageAfter(n[1]) # n[1] /\ 0 \in Indices
      BY <2>1, ConstantFacts DEF PageAfter, Pages, Indices, ManyPages
    <3> QED
      BY <2>4, <3>1 DEF Places, n
  <2> QED
    BY <2>2, <2>3, <2>4
<1> QED
  BY <1>1, <1>2

(* A wake-up that ends, or is cut short, with the log in order. *)
LEMMA OffKeeps ==
  ASSUME IInv, Off, flash' \in Log, LogInv(flash')
  PROVE  IInv'
<1>1. <<0, 0>> \in Places /\ Nothing \in [rev : Nat, val : Values]
  BY ConstantFacts DEF Places, Pages, Indices, Nothing
<1>2. TypeOK'
  BY <1>1 DEF Off, TypeOK, Log
<1>3. WriteInv'
  BY DEF Off, WriteInv
<1> QED
  BY <1>2, <1>3 DEF IInv

LEMMA WakeStep ==
  ASSUME ManyPages, IInv, Wake
  PROVE  IInv'
<1>1. /\ TypeOK /\ flash' = flash /\ last' = FALSE /\ cur' = Found
      /\ mem' = IF Saved = {} THEN Nothing ELSE [rev |-> Rev(Newest), val |-> Val(Newest)]
      /\ \/ Saved # {} /\ pc' = "run" /\ at' = at
         \/ DoWrite(Found)
  BY DEF IInv, Wake
<1>2. Saved' = Saved /\ Newest' = Newest /\ Rev(Newest)' = Rev(Newest)
  BY <1>1, OperatorsOf, OperatorsAfter DEF Rev
<1>3. mem' \in [rev : Nat, val : Values] /\ mem'.rev = (IF Saved = {} THEN 0 ELSE Rev(Newest))
  BY <1>1, NewestFacts, ConstantFacts DEF Nothing
<1>4. Found \in SUBSET Places
  BY NewestFacts DEF Found
<1>5. CASE Saved # {} /\ pc' = "run" /\ at' = at
  BY <1>1, <1>2, <1>3, <1>4, <1>5 DEF IInv, TypeOK, WriteInv
<1>6. CASE DoWrite(Found)
  <2>1. /\ at' \in Places /\ pc' \in {"erase", "program"}
        /\ pc' = "erase" => at'[2] = 0 /\ (Saved # {} => Newest[1] # at'[1])
        /\ pc' = "program" => /\ ~IsRecord(flash[at'[1]][at'[2]])
                              /\ \A i \in 0 .. at'[2] - 1 : IsRecord(flash[at'[1]][i])
    BY <1>6, DoWriteChooses
  <2> QED
    BY <1>1, <1>2, <1>3, <1>4, <2>1 DEF IInv, TypeOK, WriteInv
<1> QED
  BY <1>1, <1>5, <1>6

LEMMA FinishStep ==
  ASSUME ManyPages, IInv, Finish
  PROVE  IInv'
<1>1. TypeOK /\ LogInv(flash) /\ WriteInv /\ flash' = flash /\ pc = "run"
  BY DEF IInv, Finish
<1>2. CASE Off
  BY <1>1, <1>2, OffKeeps DEF TypeOK, Log
<1>3. CASE cur' = Found /\ last' = TRUE /\ DoWrite(Found) /\ mem' = mem
  <2>1. Saved' = Saved /\ Newest' = Newest /\ Rev(Newest)' = Rev(Newest)
    BY <1>1, OperatorsOf, OperatorsAfter DEF Rev
  <2>2. /\ at' \in Places /\ pc' \in {"erase", "program"}
        /\ pc' = "erase" => at'[2] = 0 /\ (Saved # {} => Newest[1] # at'[1])
        /\ pc' = "program" => /\ ~IsRecord(flash[at'[1]][at'[2]])
                              /\ \A i \in 0 .. at'[2] - 1 : IsRecord(flash[at'[1]][i])
    BY <1>3, DoWriteChooses
  <2>3. Found \in SUBSET Places
    BY NewestFacts DEF Found
  <2> QED
    BY <1>1, <1>3, <2>1, <2>2, <2>3 DEF IInv, TypeOK, WriteInv
<1> QED
  BY <1>2, <1>3 DEF Finish

LEMMA ChangeStep ==
  ASSUME IInv, Change
  PROVE  IInv'
<1>1. /\ TypeOK /\ flash' = flash /\ pc = "run" /\ pc' = pc /\ cur' = cur /\ at' = at
      /\ last' = last
      /\ mem' \in [rev : Nat, val : Values] /\ mem'.rev = mem.rev
  BY DEF IInv, TypeOK, Change
<1>2. Saved' = Saved /\ Newest' = Newest /\ Rev(Newest)' = Rev(Newest)
  BY <1>1, OperatorsOf, OperatorsAfter DEF Rev
<1> QED
  BY <1>1, <1>2 DEF IInv, TypeOK, WriteInv

(* The log reads as before. *)
Kept ==
  /\ Saved' = {} <=> Saved = {}
  /\ Saved # {} => /\ Newest' = Newest
                   /\ Rev(Newest)' = Rev(Newest) /\ Val(Newest)' = Val(Newest)

LEMMA UntouchedKeeps ==
  ASSUME flash' = flash
  PROVE  Kept
BY OperatorsOf, OperatorsAfter DEF Kept, Rev, Val

(* Erasing the page, all of it or some: the newest record is in another.    *)
LEMMA PageGone ==
  ASSUME IInv, pc = "erase", flash' \in Log,
         \A p \in Pages : p # at[1] => flash'[p] = flash[p],
         \A i \in Indices : \/ flash'[at[1]][i] = flash[at[1]][i]
                            \/ ~IsRecord(flash'[at[1]][i])
  PROVE  LogInv(flash') /\ Kept
<1>1. flash \in Log /\ LogInv(flash) /\ (Saved # {} => Newest[1] # at[1] /\ Newest[1] \in Pages)
  BY NewestFacts, PlaceParts DEF IInv, TypeOK, Log, WriteInv
<1>2. ASSUME NEW a \in RecordsIn(flash')
      PROVE  a \in RecordsIn(flash) /\ flash'[a[1]][a[2]] = flash[a[1]][a[2]]
  <2>1. a \in Places /\ a[1] \in Pages /\ a[2] \in Indices /\ IsRecord(flash'[a[1]][a[2]])
    BY PlaceParts DEF RecordsIn
  <2>2. flash'[a[1]][a[2]] = flash[a[1]][a[2]]
    BY <2>1
  <2> QED
    BY <2>1, <2>2 DEF RecordsIn
<1>3. SavedIn(flash) # {} => \A i \in 0 .. NewestIn(flash)[2] :
                               flash'[NewestIn(flash)[1]][i] = flash[NewestIn(flash)[1]][i]
  BY <1>1, OperatorsOf
<1>4. /\ LogInv(flash')
      /\ SavedIn(flash') = {} <=> SavedIn(flash) = {}
      /\ SavedIn(flash) # {} =>
           /\ NewestIn(flash') = NewestIn(flash)
           /\ flash'[NewestIn(flash)[1]][NewestIn(flash)[2]]
                = flash[NewestIn(flash)[1]][NewestIn(flash)[2]]
  BY <1>1, <1>2, <1>3, NewestSurvives
<1> QED
  BY <1>4, OperatorsOf, OperatorsAfter DEF Kept, Rev, Val

(* What becomes of the place being programmed, if it is no record: the      *)
(* newest record is not behind it.                                          *)
LEMMA PlaceSpoilt ==
  ASSUME IInv, pc = "program", flash' \in Log,
         \A b \in Places : b # at => flash'[b[1]][b[2]] = flash[b[1]][b[2]],
         ~IsRecord(flash'[at[1]][at[2]])
  PROVE  LogInv(flash') /\ Kept
<1>1. flash \in Log /\ LogInv(flash) /\ ~IsRecord(flash[at[1]][at[2]])
  BY DEF IInv, TypeOK, Log, WriteInv
<1>2. ASSUME NEW a \in RecordsIn(flash')
      PROVE  a \in RecordsIn(flash) /\ flash'[a[1]][a[2]] = flash[a[1]][a[2]]
  BY DEF RecordsIn
<1>3. ASSUME SavedIn(flash) # {}, NEW i \in 0 .. NewestIn(flash)[2]
      PROVE  flash'[NewestIn(flash)[1]][i] = flash[NewestIn(flash)[1]][i]
  <2> DEFINE n == NewestIn(flash)
  <2>1. n \in Places /\ n \in SavedIn(flash)
    BY <1>1, <1>3, LogFacts DEF Top
  <2> HIDE DEF n
  <2>2. IsRecord(flash[n[1]][i]) /\ <<n[1], i>> \in Places
    BY <1>3, <2>1, PlaceParts DEF SavedIn, ReadableIn, n, Places
  <2>3. <<n[1], i>> # at
    BY <1>1, <2>2
  <2>4. flash'[n[1]][i] = flash[n[1]][i]
    BY <2>2, <2>3
  <2> QED
    BY <2>4 DEF n
<1>4. /\ LogInv(flash')
      /\ SavedIn(flash') = {} <=> SavedIn(flash) = {}
      /\ SavedIn(flash) # {} =>
           /\ NewestIn(flash') = NewestIn(flash)
           /\ flash'[NewestIn(flash)[1]][NewestIn(flash)[2]]
                = flash[NewestIn(flash)[1]][NewestIn(flash)[2]]
  BY <1>1, <1>2, <1>3, NewestSurvives
<1> QED
  BY <1>4, OperatorsOf, OperatorsAfter DEF Kept, Rev, Val

LEMMA CellTypes ==
  /\ Erased \in Cell /\ Junk \in Cell /\ ~IsRecord(Erased) /\ ~IsRecord(Junk)
BY ConstantFacts DEF Cell, Erased, Junk, IsRecord, Layouts

LEMMA EraseStep ==
  ASSUME IInv, Erase
  PROVE  IInv' /\ Kept
<1> DEFINE page == [i \in Indices |-> Erased]
<1>1. /\ TypeOK /\ pc = "erase" /\ pc' = "program" /\ flash' = [flash EXCEPT ![at[1]] = page]
      /\ cur' = cur /\ mem' = mem /\ at' = at /\ last' = last
      /\ at[2] = 0 /\ at[1] \in Pages
  BY PlaceParts DEF IInv, TypeOK, WriteInv, Erase
<1>2. page \in [Indices -> Cell] /\ \A i \in Indices : ~IsRecord(page[i])
  BY CellTypes
<1> HIDE DEF page
<1>3. flash' \in Log /\ flash'[at[1]] = page /\ \A p \in Pages : p # at[1] => flash'[p] = flash[p]
  BY <1>1, <1>2 DEF TypeOK, Log
<1>4. LogInv(flash') /\ Kept
  BY <1>1, <1>2, <1>3, PageGone
<1>5. TypeOK'
  BY <1>1, <1>3 DEF TypeOK, Log
<1>6. 0 \in Indices
  BY ConstantFacts DEF Indices
<1>7. WriteInv'
  <2>1. mem'.rev = IF Saved' = {} THEN 0 ELSE Rev(Newest)'
    BY <1>1, <1>4 DEF IInv, WriteInv, Kept
  <2>2. ~IsRecord(flash'[at'[1]][at'[2]]) /\ \A i \in 0 .. at'[2] - 1 : IsRecord(flash'[at'[1]][i])
    BY <1>1, <1>2, <1>3, <1>6
  <2> QED
    BY <1>1, <2>1, <2>2 DEF WriteInv
<1> QED
  BY <1>4, <1>5, <1>7 DEF IInv

LEMMA CutStep ==
  ASSUME IInv, Cut
  PROVE  IInv' /\ Kept
<1>1. TypeOK /\ flash \in Log /\ LogInv(flash) /\ at[1] \in Pages /\ at[2] \in Indices /\ at \in Places
  BY PlaceParts DEF IInv, TypeOK, Log
<1>2. CASE PowerLoss
  BY <1>1, <1>2, OffKeeps, UntouchedKeeps DEF PowerLoss
<1>3. CASE TornProgram
  <2>1. pc = "program" /\ Off /\ flash' = [flash EXCEPT ![at[1]][at[2]] = Junk]
    BY <1>3 DEF TornProgram
  <2>2. /\ flash' \in Log /\ flash'[at[1]][at[2]] = Junk
        /\ \A b \in Places : b # at => flash'[b[1]][b[2]] = flash[b[1]][b[2]]
    <3>1. flash \in [Pages -> [Indices -> Cell]] /\ flash[at[1]] \in [Indices -> Cell]
      BY <1>1 DEF Log
    <3>2. flash' \in Log /\ flash'[at[1]][at[2]] = Junk
      BY <1>1, <2>1, <3>1, CellTypes DEF Log
    <3>3. ASSUME NEW b \in Places, b # at
          PROVE  flash'[b[1]][b[2]] = flash[b[1]][b[2]]
      <4>1. b[1] \in Pages /\ b[2] \in Indices /\ b = <<b[1], b[2]>> /\ at = <<at[1], at[2]>>
        BY <1>1, PlaceParts
      <4>2. b[1] # at[1] \/ b[2] # at[2]
        BY <3>3, <4>1
      <4> QED
        BY <1>1, <2>1, <3>1, <4>1, <4>2
    <3> QED
      BY <3>2, <3>3
  <2>3. LogInv(flash') /\ Kept
    BY <2>1, <2>2, PlaceSpoilt, CellTypes
  <2> QED
    BY <2>1, <2>2, <2>3, OffKeeps
<1>4. CASE TornErase
  <2>1. PICK what \in [Indices -> {"kept", "erased", "junk"}] :
          flash' = [flash EXCEPT ![at[1]] = [i \in Indices |->
                      CASE what[i] = "kept"   -> flash[at[1]][i]
                        [] what[i] = "erased" -> Erased
                        [] what[i] = "junk"   -> Junk]]
    BY <1>4 DEF TornErase
  <2> DEFINE page == [i \in Indices |-> CASE what[i] = "kept"   -> flash[at[1]][i]
                                          [] what[i] = "erased" -> Erased
                                          [] what[i] = "junk"   -> Junk]
  <2>2. flash[at[1]] \in [Indices -> Cell]
    BY <1>1 DEF Log
  <2>3. \A i \in Indices : what[i] = "kept" \/ what[i] = "erased" \/ what[i] = "junk"
    OBVIOUS
  <2>4. \A i \in Indices : \/ page[i] = flash[at[1]][i]
                           \/ page[i] = Erased
                           \/ page[i] = Junk
    BY <2>3
  <2>5. page \in [Indices -> Cell]
    BY <2>2, <2>4, CellTypes
  <2>6. flash' = [flash EXCEPT ![at[1]] = page]
    BY <2>1
  <2> HIDE DEF page
  <2>7. flash' \in Log /\ flash'[at[1]] = page /\ \A p \in Pages : p # at[1] => flash'[p] = flash[p]
    BY <1>1, <2>5, <2>6 DEF Log
  <2>8. LogInv(flash') /\ Kept
    BY <1>4, <2>4, <2>7, PageGone, CellTypes DEF TornErase
  <2> QED
    BY <1>4, <2>7, <2>8, OffKeeps DEF TornErase
<1> QED
  BY <1>2, <1>3, <1>4 DEF Cut

(* A program that is not cut short makes the copy the newest record.        *)
LEMMA ProgramStep ==
  ASSUME IInv, Program
  PROVE  IInv' /\ Saved' # {} /\ Val(Newest)' = mem.val
<1>1. /\ TypeOK /\ flash \in Log /\ LogInv(flash) /\ at[1] \in Pages /\ at[2] \in Indices
      /\ at \in Places /\ pc = "program" /\ mem.rev \in Nat /\ mem.val \in Values
      /\ \A i \in 0 .. at[2] - 1 : IsRecord(flash[at[1]][i])
      /\ mem.rev = IF Saved = {} THEN 0 ELSE Rev(Newest)
  BY PlaceParts DEF IInv, TypeOK, Log, WriteInv, Program
<1> DEFINE new == NewRecord
<1>2. new \in Cell /\ IsRecord(new) /\ new.rev = mem.rev + 1 /\ new.val = mem.val
  BY <1>1 DEF NewRecord, RecordOf, Cell, IsRecord, Layouts
<1>3. flash' = [flash EXCEPT ![at[1]][at[2]] = new]
  BY DEF Program
<1> HIDE DEF new
<1>4. flash \in [Pages -> [Indices -> Cell]] /\ flash[at[1]] \in [Indices -> Cell]
  BY <1>1 DEF Log
<1>5. flash' \in Log /\ flash'[at[1]][at[2]] = new
  BY <1>1, <1>2, <1>3, <1>4 DEF Log
<1>6. ASSUME NEW b \in Places, b # at
      PROVE  flash'[b[1]][b[2]] = flash[b[1]][b[2]]
  <2>1. b[1] \in Pages /\ b[2] \in Indices /\ b = <<b[1], b[2]>> /\ at = <<at[1], at[2]>>
    BY <1>1, PlaceParts
  <2>2. b[1] # at[1] \/ b[2] # at[2]
    BY <1>6, <2>1
  <2> QED
    BY <1>1, <1>3, <1>4, <2>1, <2>2
<1>7. RevIn(flash', at) = mem.rev + 1 /\ RevIn(flash', at) > 0
  BY <1>1, <1>2, <1>5 DEF RevIn
<1>8. \A b \in RecordsIn(flash) : RevIn(flash, b) < RevIn(flash', at)
  <2>1. \A b \in RecordsIn(flash) : RevIn(flash, b) \in Nat
    BY <1>1, RevType DEF RecordsIn
  <2> QED
    BY <1>1, <1>7, <2>1, NewestFacts
<1>9. LogInv(flash') /\ SavedIn(flash') # {} /\ NewestIn(flash') = at
  <2> HIDE DEF IInv, Program
  <2> QED
    BY <1>1, <1>2, <1>5, <1>6, <1>7, <1>8, NewestAppended
<1>10. Saved' # {} /\ Newest' = at /\ Rev(Newest)' = mem.rev + 1 /\ Val(Newest)' = mem.val
  BY <1>2, <1>5, <1>9, OperatorsAfter DEF Rev, Val
<1>11. CASE last /\ Off
  BY <1>5, <1>9, <1>10, <1>11, OffKeeps
<1>12. CASE /\ ~last /\ pc' = "run" /\ cur' = {at} /\ mem' = [mem EXCEPT !.rev = @ + 1]
            /\ at' = at /\ last' = last
  <2>1. mem' \in [rev : Nat, val : Values] /\ mem'.rev = mem.rev + 1
    BY <1>1, <1>12 DEF TypeOK
  <2>2. TypeOK'
    BY <1>1, <1>5, <1>12, <2>1 DEF TypeOK, Log
  <2>3. WriteInv'
    BY <1>10, <1>12, <2>1 DEF WriteInv
  <2> QED
    BY <1>9, <1>10, <2>2, <2>3 DEF IInv
<1> QED
  BY <1>11, <1>12 DEF Program

LEMMA IInvInit ==
  ASSUME Init
  PROVE  IInv
<1>1. PICK rest \in {Erased, Junk}, first \in {Erased, Junk} \cup {RecordOf(1, v, 1) : v \in Values} :
        /\ rest \in {Erased, Junk} /\ (first = rest \/ first \in {RecordOf(1, v, 1) : v \in Values})
        /\ flash = [p \in Pages |-> [i \in Indices |-> IF p = 0 /\ i = 0 THEN first ELSE rest]]
  BY DEF Init
<1>2. rest \in Cell /\ ~IsRecord(rest)
  BY <1>1, CellTypes
<1>3. first \in Cell /\ (IsRecord(first) => first.rev = 1)
  <2>1. \A v \in Values : RecordOf(1, v, 1) \in Cell /\ RecordOf(1, v, 1).rev = 1
    BY DEF RecordOf, Cell, Layouts
  <2> QED
    BY <1>1, <1>2, <2>1
<1>4. flash \in Log
  BY <1>1, <1>2, <1>3 DEF Log
<1>5. 0 \in Pages /\ 0 \in Indices /\ <<0, 0>> \in Places
  BY ConstantFacts DEF Pages, Indices, Places
<1>6. \A a \in RecordsIn(flash) : a = <<0, 0>>
  <2>1. SUFFICES ASSUME NEW a \in Places, IsRecord(flash[a[1]][a[2]]), a # <<0, 0>>
                 PROVE  FALSE
    BY DEF RecordsIn
  <2>2. a[1] \in Pages /\ a[2] \in Indices /\ (a[1] # 0 \/ a[2] # 0)
    BY <2>1, PlaceParts
  <2>3. flash[a[1]][a[2]] = rest
    BY <1>1, <2>2
  <2> QED
    BY <1>2, <2>1, <2>3
<1>7. flash[0][0] = first
  BY <1>1, <1>5
<1>8. LogInv(flash)
  <2>1. CASE IsRecord(first)
    <3>1. <<0, 0>> \in SavedIn(flash)
      BY <1>3, <1>5, <1>7, <2>1 DEF SavedIn, ReadableIn, RevIn
    <3>2. Top(flash, <<0, 0>>)
      BY <1>6, <3>1 DEF Top
    <3> QED
      BY <1>6, <3>2 DEF LogInv
  <2>2. CASE ~IsRecord(first)
    <3>1. RecordsIn(flash) = {}
      BY <1>6, <1>7, <2>2 DEF RecordsIn
    <3> QED
      BY <3>1 DEF LogInv
  <2> QED
    BY <2>1, <2>2
<1>9. TypeOK
  BY <1>4, <1>5, ConstantFacts DEF Init, TypeOK, Log, Nothing
<1>10. WriteInv
  BY DEF Init, WriteInv
<1> QED
  BY <1>8, <1>9, <1>10 DEF IInv

LEMMA IInvNext ==
  ASSUME ManyPages, IInv, [Next]_vars
  PROVE  IInv'
<1>1. CASE UNCHANGED vars
  <2>1. Saved' = Saved /\ Newest' = Newest /\ Rev(Newest)' = Rev(Newest)
    BY <1>1, OperatorsOf, OperatorsAfter DEF vars, Rev
  <2> QED
    BY <1>1, <2>1 DEF vars, IInv, TypeOK, WriteInv
<1> QED
  BY <1>1, WakeStep, ChangeStep, FinishStep, EraseStep, ProgramStep, CutStep DEF Next

LEMMA IInvAlways ==
  ASSUME ManyPages
  PROVE  Spec => []IInv
<1>1. Init => IInv
  BY IInvInit
<1>2. IInv /\ [Next]_vars => IInv'
  BY IInvNext
<1> QED
  BY <1>1, <1>2, PTL DEF Spec

-----------------------------------------------------------------------------
(* Every variable has its type: in particular a record is only ever written *)
(* inside the settings area, whatever the wake-up found there.              *)
THEOREM TypeCorrect ==
  ASSUME ManyPages
  PROVE  Spec => []TypeOK
<1>1. IInv => TypeOK
  BY DEF IInv
<1> QED
  BY <1>1, IInvAlways, PTL

(* The records the scan of the log sees never share a revision, so the scan *)
(* has one answer.                                                          *)
THEOREM RevisionsAlwaysDiffer ==
  ASSUME ManyPages
  PROVE  Spec => []RevisionsDiffer
<1>1. ASSUME IInv
      PROVE  RevisionsDiffer
  <2>1. Saved \subseteq RecordsIn(flash)
    BY <1>1, SavedAreRecords, OperatorsOf DEF IInv, TypeOK, Log
  <2> QED
    BY <1>1, <2>1, OperatorsOf DEF IInv, LogInv, RevisionsDiffer
<1> QED
  BY <1>1, IInvAlways, PTL

(* A wake-up that ends by itself leaves its copy in the newest record.      *)
THEOREM SettingsAreSaved ==
  ASSUME ManyPages
  PROVE  Spec => SleepsSaved
<1> DEFINE Ends == (pc # "off" /\ pc' = "off" /\ ~Cut) =>
                     Saved' # {} /\ Val(Newest)' = mem.val
<1>1. ASSUME IInv, [Next]_vars
      PROVE  [Ends]_vars
  <2>1. SUFFICES ASSUME Next, pc # "off", pc' = "off", ~Cut
                 PROVE  Saved' # {} /\ Val(Newest)' = mem.val
    BY <1>1
  <2>2. ~Wake /\ ~Change /\ ~Erase
    BY <2>1 DEF Wake, Change, Erase
  <2>3. CASE Finish
    <3>1. pc = "run" /\ flash' = flash /\ mem = [rev |-> Rev(Newest), val |-> Val(Newest)]
      BY <2>1, <2>3 DEF Finish, DoWrite
    <3>2. Saved # {} /\ mem.val = Val(Newest)
      BY <1>1, <3>1 DEF IInv, WriteInv
    <3> QED
      BY <3>1, <3>2, UntouchedKeeps DEF Kept
  <2>4. CASE Program
    BY <1>1, <2>4, ProgramStep
  <2> QED
    BY <2>1, <2>2, <2>3, <2>4 DEF Next
<1>2. Spec => [][Ends]_vars
  BY <1>1, IInvAlways, PTL DEF Spec
<1> QED
  BY <1>2 DEF SleepsSaved

-----------------------------------------------------------------------------
(* The refinement: what the cell of SettingsRegister is, in each state.     *)
RegSaved == IF Saved = {} THEN "none" ELSE Val(Newest)
RegCopy  == IF pc = "off" THEN "none" ELSE mem.val

LEMMA RegSavedKept ==
  ASSUME Kept
  PROVE  RegSaved' = RegSaved
BY DEF Kept, RegSaved

(* Every step of the log is a step of the register: only the program that   *)
(* completes a record changes what is saved.                                *)
LEMMA RegisterStep ==
  ASSUME ManyPages, IInv, [Next]_vars
  PROVE  \/ /\ pc = "off" /\ pc' # "off"
            /\ RegCopy' = (IF RegSaved = "none" THEN Default ELSE RegSaved)
            /\ RegSaved' = RegSaved
         \/ pc # "off" /\ pc' # "off" /\ RegCopy' \in Values /\ RegSaved' = RegSaved
         \/ pc # "off" /\ pc' # "off" /\ RegSaved' = RegCopy /\ RegCopy' = RegCopy
         \/ pc # "off" /\ pc' = "off" /\ RegSaved' = RegCopy /\ RegCopy' = "none"
         \/ pc # "off" /\ pc' = "off" /\ RegSaved' = RegSaved /\ RegCopy' = "none"
         \/ /\ (pc' # "off") = (pc # "off") /\ RegSaved' = RegSaved /\ RegCopy' = RegCopy
<1>1. mem.val \in Values /\ (Saved # {} => Val(Newest) \in Values)
  BY NewestFacts DEF IInv, TypeOK
<1>2. CASE UNCHANGED vars
  <2>1. RegSaved' = RegSaved
    BY <1>2, UntouchedKeeps, RegSavedKept DEF vars
  <2> QED
    BY <1>2, <2>1 DEF vars, RegCopy
<1>3. CASE Wake
  <2>1. pc = "off" /\ pc' # "off" /\ flash' = flash
    BY <1>3 DEF Wake, DoWrite
  <2>2. mem'.val = IF Saved = {} THEN Default ELSE Val(Newest)
    BY <1>3 DEF Wake, Nothing
  <2>3. RegSaved' = RegSaved
    BY <2>1, UntouchedKeeps, RegSavedKept
  <2>4. RegCopy' = IF RegSaved = "none" THEN Default ELSE RegSaved
    BY <1>1, <2>1, <2>2, ConstantFacts DEF RegCopy, RegSaved
  <2> QED
    BY <2>1, <2>3, <2>4
<1>4. CASE Change
  <2>1. pc = "run" /\ pc' = "run" /\ flash' = flash /\ mem'.val \in Values
    BY <1>4 DEF Change, IInv, TypeOK
  <2>2. RegSaved' = RegSaved
    BY <2>1, UntouchedKeeps, RegSavedKept
  <2> QED
    BY <2>1, <2>2 DEF RegCopy
<1>5. CASE Finish
  <2>1. pc = "run" /\ flash' = flash
    BY <1>5 DEF Finish
  <2>2. RegSaved' = RegSaved
    BY <2>1, UntouchedKeeps, RegSavedKept
  <2>3. CASE Off /\ mem = [rev |-> Rev(Newest), val |-> Val(Newest)]
    BY <2>1, <2>2, <2>3 DEF Off, RegCopy
  <2>4. CASE DoWrite(Found) /\ mem' = mem
    BY <2>1, <2>2, <2>4 DEF DoWrite, RegCopy
  <2> QED
    BY <1>5, <2>3, <2>4 DEF Finish
<1>6. CASE Erase
  <2>1. pc = "erase" /\ pc' = "program" /\ mem' = mem
    BY <1>6 DEF Erase
  <2>2. RegSaved' = RegSaved
    BY <1>6, EraseStep, RegSavedKept
  <2> QED
    BY <2>1, <2>2 DEF RegCopy
<1>7. CASE Program
  <2>1. pc = "program" /\ RegCopy = mem.val
    BY <1>7 DEF Program, RegCopy
  <2>2. RegSaved' = mem.val
    BY <1>7, ProgramStep DEF RegSaved
  <2>3. CASE last /\ Off
    BY <2>1, <2>2, <2>3 DEF Off, RegCopy
  <2>4. CASE pc' = "run" /\ mem' = [mem EXCEPT !.rev = @ + 1]
    <3>1. mem'.val = mem.val
      BY <2>4 DEF IInv, TypeOK
    <3> QED
      BY <2>1, <2>2, <2>4, <3>1 DEF RegCopy
  <2> QED
    BY <1>7, <2>3, <2>4 DEF Program
<1>8. CASE Cut
  <2>1. RegSaved' = RegSaved
    BY <1>8, CutStep, RegSavedKept
  <2>2. pc # "off" /\ Off
    BY <1>8 DEF Cut, PowerLoss, TornProgram, TornErase
  <2> QED
    BY <2>1, <2>2 DEF Off, RegCopy
<1> QED
  BY <1>2, <1>3, <1>4, <1>5, <1>6, <1>7, <1>8 DEF Next

(* The settings are an atomic cell: a wake-up that is cut short anywhere,   *)
(* in the middle of an erase included, leaves the settings saved last.      *)
THEOREM SettingsAreARegister ==
  ASSUME ManyPages
  PROVE  Spec => ImplementsRegister
<1>1. ASSUME Init
      PROVE  Register!Init
  <2>1. RegSaved \in Values \cup {"none"}
    BY <1>1, IInvInit, NewestFacts DEF RegSaved
  <2> QED
    BY <1>1, <2>1 DEF Init, Register!Init, RegSaved
<1>2. ASSUME IInv, [Next]_vars
      PROVE  [Register!Next]_(Register!regVars)
  BY <1>2, RegisterStep
     DEF RegSaved, RegCopy, Register!Next, Register!regVars, Register!Wake, Register!Change,
         Register!Save, Register!SaveAndSleep, Register!PowerLoss
<1> QED
  BY <1>1, <1>2, IInvAlways, PTL DEF Spec, ImplementsRegister, Register!Spec

=============================================================================

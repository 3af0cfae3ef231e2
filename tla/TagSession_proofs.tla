-------------------------- MODULE TagSession_proofs --------------------------
(***************************************************************************)
(* The types of a tag's session; that a paired tag shows no image of an    *)
(* earlier pairing and goes back to no older one; that the screen is true  *)
(* between wake-ups and contact replaces the message, but for what a cut   *)
(* leaves behind; that the check-in that ends a pairing is not missed; and *)
(* that the images of a pairing are the register of ImageRegister.         *)
(***************************************************************************)
EXTENDS TagSession, TLAPS

LEMMA RemainderType ==
  ASSUME NEW n \in Int, NEW k \in Nat \ {0}
  PROVE  n % k \in 0 .. k - 1
  OBVIOUS

(* The counter of failed check-ins counts, and stops at its greatest value. *)
LEMMA OneMoreIsOneMore ==
  ASSUME NEW n \in Counts
  PROVE  /\ OneMore(n) \in Counts
         /\ OneMore(n) = n \/ OneMore(n) = n + 1
  BY SessionAssumption DEF OneMore, Counts

LEMMA RecordFields ==
  ASSUME NEW s \in Record
  PROVE  /\ s # None
         /\ s.paired \in BOOLEAN
         /\ s.fails \in Counts /\ s.blank \in Counts /\ s.dissoc \in Counts
         /\ \A n \in Counts : [s EXCEPT !.fails = n] \in Record
         /\ \A n \in Counts : [s EXCEPT !.fails = n, !.paired = FALSE] \in Record
  BY NoneAssumption DEF Record

LEMMA RecordNumbers ==
  ASSUME NEW s \in Record
  PROVE  s.fails \in Nat /\ s.blank \in Nat
<1>1. s.fails \in Counts /\ s.blank \in Counts
  BY DEF Record
<1>2. Counts \subseteq Nat
  BY SessionAssumption DEF Counts
<1> QED
  BY <1>1, <1>2

LEMMA FreshRecord == Fresh \in Record
  BY SessionAssumption DEF Fresh, Record, Counts

LEMMA ZeroCounts == 0 \in Counts
  BY SessionAssumption DEF Counts

-----------------------------------------------------------------------------
(* A tag that is awake has a copy of its settings.                          *)
TypeInv == TypeOK /\ (pc # "off" => mem \in Record)

LEMMA InitTypeInv == Init => TypeInv
<1> SUFFICES ASSUME Init PROVE TypeInv
  OBVIOUS
<1>1. doubt \in BOOLEAN
  BY Zenon DEF Init
<1> QED
  BY <1>1, SessionAssumption DEF Init, TypeInv, TypeOK, Text, Contents

LEMMA NextTypeInv == TypeInv /\ [Next]_vars => TypeInv'
<1> SUFFICES ASSUME TypeInv, [Next]_vars PROVE TypeInv'
  OBVIOUS
<1>t. \A t \in Contents : Text(t) \in [shows : Contents, image : Versions \cup {0}]
  BY DEF Text
<1>i. \A v \in Versions \cup {0} : Image(v) \in [shows : Contents, image : Versions \cup {0}]
  BY DEF Image, Contents
<1>h. \A v \in Versions \cup {0} : Half(v) \in [shows : Contents, image : Versions \cup {0}]
  BY DEF Half, Contents
<1>1. CASE \E v \in Versions \cup {0} : Publish(v)
  BY <1>1 DEF TypeInv, TypeOK, Publish
<1>2. CASE Battery
  BY <1>2 DEF TypeInv, TypeOK, Battery
<1>3. CASE Boot
  <2>1. mem' \in Record
    BY <1>3, FreshRecord DEF Boot, Settings!Wake, TypeInv, TypeOK
  <2> QED
    BY <1>3, <2>1 DEF TypeInv, TypeOK, Boot, Settings!Wake
<1>4. CASE NoMaster
  BY <1>4, <1>t DEF TypeInv, TypeOK, NoMaster, Contents
<1>5. CASE Associated
  <2>1. PICK o \in Offers :
          mem' = [paired |-> TRUE, fails |-> 0, blank |-> o[1], dissoc |-> o[2],
                  channel |-> home % ChannelCap]
    BY <1>5 DEF Associated
  <2>2. o[1] \in Counts /\ o[2] \in Counts
    BY SessionAssumption DEF Counts
  <2>3. home \in Int /\ ChannelCap \in Nat \ {0}
    BY SessionAssumption DEF TypeInv, TypeOK, Channels
  <2>4. home % ChannelCap \in 0 .. ChannelCap - 1
    BY <2>3, RemainderType
  <2>5. mem' \in Record
    BY <2>1, <2>2, <2>4, ZeroCounts DEF Record
  <2> QED
    BY <1>5, <2>5 DEF TypeInv, TypeOK, Associated, Settings!Change
<1>6. CASE PairErase
  BY <1>6 DEF TypeInv, TypeOK, PairErase
<1>7. CASE PairShow
  BY <1>7, <1>t DEF TypeInv, TypeOK, PairShow, Contents
<1>8. CASE CheckInFails
  <2> DEFINE n == OneMore(mem.fails)
  <2>1. mem \in Record
    BY <1>8 DEF CheckInFails, TypeInv
  <2>2. n \in Counts
    BY <2>1, RecordFields, OneMoreIsOneMore
  <2>3. mem' \in Record
    BY <1>8, <2>1, <2>2, RecordFields DEF CheckInFails
  <2>4. screen' \in [shows : Contents, image : Versions \cup {0}]
    BY <1>8, <1>t DEF CheckInFails, TypeInv, TypeOK, Contents
  <2>5. wake' \in {"soon", "delay"}
    BY <1>8 DEF CheckInFails
  <2> QED
    BY <1>8, <2>3, <2>4, <2>5 DEF TypeInv, TypeOK, CheckInFails, Settings!Change
<1>9. ASSUME InContact
      PROVE  /\ mem' \in Record /\ screen' \in [shows : Contents, image : Versions \cup {0}]
             /\ doubt' \in BOOLEAN
  <2>1. mem \in Record
    BY <1>9 DEF InContact, TypeInv
  <2>2. mem' \in Record
    BY <1>9, <2>1, RecordFields, ZeroCounts DEF InContact
  <2>3. screen' \in [shows : Contents, image : Versions \cup {0}]
    BY <1>9, <1>i, <1>h DEF InContact, Redraw, TypeInv, TypeOK
  <2>4. doubt' \in BOOLEAN
    BY <1>9, Zenon DEF InContact, TypeInv, TypeOK
  <2> QED
    BY <2>2, <2>3, <2>4
<1>10. CASE CheckInWorks
  <2>1. InContact
    BY <1>10 DEF CheckInWorks
  <2> QED
    BY <1>10, <1>9, <2>1 DEF TypeInv, TypeOK, CheckInWorks, Settings!Change
<1>11. CASE CheckInForUpdate
  <2>1. InContact
    BY <1>11 DEF CheckInForUpdate
  <2>2. wake' \in {"delay", "retry"} /\ pc' = "finish"
    BY <1>11 DEF CheckInForUpdate
  <2> QED
    BY <1>11, <1>9, <2>1, <2>2 DEF TypeInv, TypeOK, CheckInForUpdate, Settings!Change
<1>12. CASE FirstPieces
  BY <1>12 DEF TypeInv, TypeOK, FirstPieces
<1>13. CASE DownloadEnds
  BY <1>13 DEF TypeInv, TypeOK, DownloadEnds
<1>14. CASE Downloaded
  BY <1>14 DEF TypeInv, TypeOK, Downloaded
<1>15. CASE Show
  BY <1>15, <1>i DEF TypeInv, TypeOK, Show
<1>16. CASE Finish
  BY <1>16 DEF TypeInv, TypeOK, Finish, Settings!SaveAndSleep
<1>17. CASE Cut
  BY <1>17 DEF TypeInv, TypeOK, Cut, Settings!PowerLoss
<1>18. CASE UNCHANGED vars
  BY <1>18 DEF TypeInv, TypeOK, vars
<1> QED
  BY <1>1, <1>2, <1>3, <1>4, <1>5, <1>6, <1>7, <1>8, <1>10, <1>11, <1>12, <1>13,
     <1>14, <1>15, <1>16, <1>17, <1>18
  DEF Next, Pairing, CheckIn, Download

LEMMA AlwaysTypeInv == Spec => []TypeInv
  BY InitTypeInv, NextTypeInv, PTL DEF Spec

(* Every variable of the session keeps its type, the narrow field of the    *)
(* channel and the saturating counter of failed check-ins included          *)
(* (settings.h, main.c).                                                    *)
THEOREM TypeCorrect == Spec => []TypeOK
<1>1. TypeInv => TypeOK
  BY DEF TypeInv
<1> QED
  BY <1>1, AlwaysTypeInv, PTL

-----------------------------------------------------------------------------
(* Where wake-ups may be cut short: what shows on the screen of a paired    *)
(* tag, and of one that a wake-up is about to save as paired, is at most as *)
(* new as what it holds.                                                    *)
Own == screen.shows = "image" => screen.image <= latest

OwnInv ==
  /\ TypeInv
  /\ Paired => Own
  /\ pc = "finish" /\ mem.paired => Own
  /\ pc \in {"pair", "pairErase", "pairShow"} => ~Paired
  /\ pc \in {"checkin", "download", "show"} => Paired
  /\ pc = "download" => latest < offer

LEMMA TextIsNoImage ==
  ASSUME NEW t \in Contents \ {"image"}
  PROVE  Text(t).shows # "image"
  BY DEF Text

LEMMA ImageFields ==
  ASSUME NEW v \in Nat
  PROVE  /\ Image(v).shows = "image" /\ Image(v).image = v
         /\ Half(v).shows # "image"
  BY DEF Image, Half

LEMMA VersionsAreNumbers ==
  /\ \A v \in Versions \cup {0} : v \in Nat
  /\ \A s \in [shows : Contents, image : Versions \cup {0}] : s.image \in Nat
<1>1. \A v \in Versions \cup {0} : v \in Nat
  BY SessionAssumption
<1>2. \A s \in [shows : Contents, image : Versions \cup {0}] : s.image \in Versions \cup {0}
  OBVIOUS
<1> QED
  BY <1>1, <1>2

LEMMA InitOwnInv == Init => OwnInv
  BY InitTypeInv DEF Init, OwnInv, Own, Paired, Text

LEMMA NextOwnInv == OwnInv /\ [Next]_vars => OwnInv'
<1> SUFFICES ASSUME OwnInv, [Next]_vars PROVE OwnInv'
  OBVIOUS
<1>t. TypeInv /\ TypeInv'
  BY NextTypeInv DEF OwnInv
<1>v. /\ latest \in Nat /\ half \in Nat /\ offer \in Nat /\ screen.image \in Nat
      /\ latest' \in Nat /\ screen'.image \in Nat
  BY <1>t, VersionsAreNumbers DEF TypeInv, TypeOK
<1> USE DEF OwnInv
<1>1. CASE \E v \in Versions \cup {0} : Publish(v)
  BY <1>1, <1>t DEF Publish, Own, Paired
<1>2. CASE Battery
  BY <1>2, <1>t DEF Battery, Own, Paired
<1>3. CASE Boot
  BY <1>3, <1>t DEF Boot, Settings!Wake, Own, Paired
<1>4. CASE NoMaster
  <2>1. Own'
    BY <1>4, TextIsNoImage DEF NoMaster, Own, Contents
  <2> QED
    BY <1>4, <1>t, <2>1 DEF NoMaster
<1>5. CASE Associated
  BY <1>5, <1>t DEF Associated, Settings!Change, Paired
<1>6. CASE PairErase
  BY <1>6, <1>t DEF PairErase, Paired
<1>7. CASE PairShow
  <2>1. Own'
    BY <1>7, TextIsNoImage DEF PairShow, Own, Contents
  <2> QED
    BY <1>7, <1>t, <2>1 DEF PairShow
<1>8. CASE CheckInFails
  <2>1. screen' = screen \/ screen' = Text("no signal")
    BY <1>8 DEF CheckInFails
  <2>2. Own /\ latest' = latest
    BY <1>8 DEF CheckInFails
  <2>3. Own'
    BY <2>1, <2>2, TextIsNoImage DEF Own, Contents
  <2> QED
    BY <1>8, <1>t, <2>3 DEF CheckInFails, Settings!Change, Paired
<1>9. ASSUME InContact, latest' = latest PROVE Own'
  <2>1. Own
    BY <1>9 DEF InContact
  <2>2. screen' = screen \/ screen' = Image(latest) \/ screen' = Half(half)
    BY <1>9 DEF InContact, Redraw
  <2> QED
    BY <1>9, <2>1, <2>2, <1>v, ImageFields DEF Own
<1>10. CASE CheckInWorks
  <2>1. InContact /\ latest' = latest
    BY <1>10 DEF CheckInWorks
  <2>2. Paired /\ Paired'
    BY <1>10 DEF CheckInWorks, InContact, Settings!Change, Paired
  <2>3. pc' = "download" => latest' < offer'
    BY <1>10 DEF CheckInWorks
  <2>4. pc' \in {"download", "finish"}
    BY <1>10 DEF CheckInWorks
  <2> QED
    BY <1>9, <1>t, <2>1, <2>2, <2>3, <2>4
<1>11. CASE CheckInForUpdate
  <2>1. InContact /\ latest' = latest
    BY <1>11 DEF CheckInForUpdate
  <2>2. Paired /\ Paired'
    BY <1>11 DEF CheckInForUpdate, InContact, Settings!Change, Paired
  <2>3. pc' = "finish"
    BY <1>11 DEF CheckInForUpdate
  <2> QED
    BY <1>9, <1>t, <2>1, <2>2, <2>3
<1>12. CASE FirstPieces
  BY <1>12, <1>t DEF FirstPieces, Own, Paired
<1>13. CASE DownloadEnds
  BY <1>13, <1>t DEF DownloadEnds, Own, Paired
<1>14. CASE Downloaded
  <2>1. Own'
    BY <1>14, <1>v DEF Downloaded, Own
  <2> QED
    BY <1>14, <1>t, <2>1 DEF Downloaded, Paired
<1>15. CASE Show
  <2>1. Own'
    BY <1>15, <1>v, ImageFields DEF Show, Own
  <2> QED
    BY <1>15, <1>t, <2>1 DEF Show, Paired
<1>16. CASE Finish
  <2>1. pc' = "off" /\ saved' = mem /\ screen' = screen /\ latest' = latest
    BY <1>16 DEF Finish, Settings!SaveAndSleep
  <2>2. Paired' => Own'
    BY <1>16, <2>1 DEF Finish, Own, Paired
  <2> QED
    BY <1>t, <2>1, <2>2
<1>17. CASE Cut
  BY <1>17, <1>t DEF Cut, Settings!PowerLoss, Own, Paired
<1>18. CASE UNCHANGED vars
  BY <1>18, <1>t DEF vars, Own, Paired
<1> QED
  BY <1>1, <1>2, <1>3, <1>4, <1>5, <1>6, <1>7, <1>8, <1>10, <1>11, <1>12, <1>13,
     <1>14, <1>15, <1>16, <1>17, <1>18
  DEF Next, Pairing, CheckIn, Download

(* However wake-ups are cut short, a paired tag that sleeps shows no image  *)
(* of an earlier pairing: uiNotPaired erases the images, and draws, before  *)
(* main saves that the tag is paired.                                       *)
THEOREM OwnImagesShown == Spec => []ShowsOwnImages
<1>1. OwnInv => ShowsOwnImages
  BY DEF OwnInv, Own, ShowsOwnImages
<1> QED
  BY <1>1, InitOwnInv, NextOwnInv, PTL DEF Spec

(* A paired tag never goes back to an older image: what uiPaired draws is   *)
(* the newest image in the EEPROM, and no newer one was drawn before.       *)
THEOREM NoOlderImageShown == Spec => NeverOlder
<1>1. ASSUME OwnInv, Next, Paired, screen.shows = "image", screen'.shows = "image"
      PROVE  screen.image <= screen'.image
  <2>1. Own /\ latest \in Nat /\ half \in Nat /\ screen.image \in Nat
    BY <1>1, VersionsAreNumbers DEF OwnInv, TypeInv, TypeOK
  <2>2. \/ screen' = screen \/ screen' = Image(latest) \/ screen' = Half(half)
        \/ screen' \in {Text("no master"), Text("signal"), Text("no signal")}
    BY <1>1 DEF Next, Publish, Battery, Boot, Pairing, NoMaster, Associated, PairErase,
       PairShow, CheckIn, CheckInFails, CheckInWorks, CheckInForUpdate, InContact, Redraw,
       Download, FirstPieces, DownloadEnds, Downloaded, Show, Finish, Cut
  <2>3. \A t \in {"no master", "signal", "no signal"} : Text(t).shows # "image"
    BY TextIsNoImage DEF Contents
  <2>4. Half(half).shows # "image" /\ Image(latest).image = latest
    BY <2>1, ImageFields
  <2>5. screen' = screen \/ screen' = Image(latest)
    BY <1>1, <2>2, <2>3, <2>4
  <2> QED
    BY <1>1, <2>1, <2>4, <2>5 DEF Own
<1>2. OwnInv /\ [Next]_vars
      => [Paired /\ Paired' /\ screen.shows = "image" /\ screen'.shows = "image"
            => screen.image <= screen'.image]_vars
  BY <1>1
<1> QED
  BY <1>2, InitOwnInv, NextOwnInv, PTL DEF Spec, NeverOlder

-----------------------------------------------------------------------------
(* What each part of a wake-up knows of its copy of the settings, whatever  *)
(* was cut short before.                                                    *)
Known ==
  /\ pc = "pair" => ~mem.paired
  /\ pc \in {"pairErase", "pairShow", "download", "show"} => mem.paired /\ mem.fails = 0
  /\ pc = "pairShow" => latest = 0
  /\ pc = "checkin" => mem.paired

(* What the screen owes a copy of the settings, wherever in main the        *)
(* wake-up is, as long as no cut has undone what was drawn.                 *)
Truth(s) ==
  /\ TooLong(s) => screen = Text("no signal")
  /\ ~TooLong(s) /\ latest # 0 => screen = Image(latest)

Asleep(isPaired) == ~isPaired /\ wake = "never" => screen = Text("no master")

Owed ==
  /\ pc = "off" => (Paired => Truth(saved)) /\ Asleep(Paired)
  /\ pc \in {"checkin", "download"} => Truth(mem)
  /\ pc = "finish" => (mem.paired => Truth(mem)) /\ Asleep(mem.paired)

TrueInv == TypeInv /\ Known /\ (~doubt => Owed)

(* A counter that was reset is below its threshold, or there is none.       *)
LEMMA ResetIsNotTooLong ==
  ASSUME NEW s \in Record, s.fails = 0
  PROVE  ~TooLong(s)
  BY RecordNumbers DEF TooLong

(* The counter passes its threshold in one check-in, the one that draws.    *)
LEMMA TooLongStarts ==
  ASSUME NEW s \in Record, NEW r \in Record,
         r.blank = s.blank, r.fails = OneMore(s.fails),
         ~(s.blank # 0 /\ r.fails = s.blank)
  PROVE  TooLong(r) <=> TooLong(s)
<1>1. s.fails \in Nat /\ s.blank \in Nat
  BY RecordNumbers
<1>2. r.fails = s.fails \/ r.fails = s.fails + 1
  BY RecordFields, OneMoreIsOneMore
<1> QED
  BY <1>1, <1>2 DEF TooLong

(* Contact resets the counter; unless a cut has left its mark, or something *)
(* is drawn now, the screen shows the newest image afterwards.              *)
LEMMA ContactFacts ==
  ASSUME TrueInv, InContact, latest' = latest
  PROVE  /\ mem \in Record /\ mem' \in Record
         /\ mem'.paired /\ mem'.fails = 0
         /\ latest # 0 /\ ~doubt' => screen' = Image(latest)
<1>1. pc = "checkin" /\ mem \in Record
  BY DEF InContact, TrueInv, TypeInv
<1>2. mem.paired
  BY <1>1 DEF TrueInv, Known
<1>3. mem' = [mem EXCEPT !.fails = 0]
  BY DEF InContact
<1>4. mem' \in Record /\ mem'.paired /\ mem'.fails = 0
  BY <1>1, <1>2, <1>3, RecordFields, ZeroCounts DEF Record
<1>5. ASSUME latest # 0, ~doubt' PROVE screen' = Image(latest)
  <2>1. CASE TooLong(mem)
    BY <1>5, <2>1 DEF InContact, Redraw
  <2>2. CASE ~TooLong(mem)
    <3>1. screen' = screen /\ ~doubt
      BY <1>5, <2>2 DEF InContact
    <3>2. Truth(mem)
      BY <1>1, <3>1 DEF TrueInv, Owed
    <3> QED
      BY <1>5, <2>2, <3>1, <3>2 DEF Truth
  <2> QED
    BY <2>1, <2>2
<1> QED
  BY <1>1, <1>4, <1>5

LEMMA InitTrueInv == Init => TrueInv
  BY InitTypeInv DEF Init, TrueInv, Known, Owed, Asleep, Paired

LEMMA NextKnown ==
  ASSUME TrueInv, [Next]_vars
  PROVE  Known'
<1>t. TypeInv /\ Known
  BY DEF TrueInv
<1>1. CASE \E v \in Versions \cup {0} : Publish(v)
  BY <1>1, <1>t DEF Publish, Known
<1>2. CASE Battery
  BY <1>2, <1>t DEF Battery, Known
<1>3. CASE Boot
  <2>1. CASE Paired
    BY <1>3, <2>1 DEF Boot, Settings!Wake, Paired, Known
  <2>2. CASE ~Paired
    <3>1. ~mem'.paired
      BY <1>3, <2>2 DEF Boot, Settings!Wake, Paired, Fresh
    <3> QED
      BY <1>3, <2>2, <3>1 DEF Boot, Known
  <2> QED
    BY <2>1, <2>2
<1>4. CASE NoMaster \/ CheckInFails \/ CheckInForUpdate \/ DownloadEnds \/ Show
           \/ PairShow \/ Finish \/ Cut
  <2>1. pc' \in {"finish", "off"}
    BY <1>4 DEF NoMaster, CheckInFails, CheckInForUpdate, DownloadEnds, Show, PairShow,
                Finish, Cut
  <2> QED
    BY <2>1 DEF Known
<1>5. CASE Associated
  BY <1>5 DEF Associated, Known
<1>6. CASE PairErase
  BY <1>6, <1>t DEF PairErase, Known
<1>7. CASE CheckInWorks
  <2>1. InContact /\ latest' = latest /\ pc' \in {"download", "finish"}
    BY <1>7 DEF CheckInWorks
  <2>2. mem'.paired /\ mem'.fails = 0
    BY <2>1, ContactFacts
  <2> QED
    BY <2>1, <2>2 DEF Known
<1>8. CASE FirstPieces
  BY <1>8, <1>t DEF FirstPieces, Known
<1>9. CASE Downloaded
  BY <1>9, <1>t DEF Downloaded, Known
<1>10. CASE UNCHANGED vars
  BY <1>10, <1>t DEF vars, Known
<1> QED
  BY <1>1, <1>2, <1>3, <1>4, <1>5, <1>6, <1>7, <1>8, <1>9, <1>10
  DEF Next, Pairing, CheckIn, Download

LEMMA NextTrueInv ==
  ASSUME TrueInv, [Next]_vars
  PROVE  TrueInv'
<1>t. TypeInv /\ TypeInv' /\ Known
  BY NextTypeInv DEF TrueInv
<1>k. Known'
  BY NextKnown
<1> SUFFICES ~doubt' => Owed'
  BY <1>t, <1>k, Zenon DEF TrueInv
<1> SUFFICES ASSUME ~doubt' PROVE Owed'
  OBVIOUS
<1>o. ~doubt => Owed
  BY Zenon DEF TrueInv
<1>1. CASE \E v \in Versions \cup {0} : Publish(v)
  <2>1. UNCHANGED <<saved, mem, latest, screen, pc, wake, doubt>>
    BY <1>1 DEF Publish
  <2>2. Owed
    BY <1>o, <2>1, Zenon
  <2> QED
    BY <2>1, <2>2 DEF Owed, Truth, Asleep, Paired
<1>2. CASE Battery
  BY <1>2, <1>o DEF Battery, Owed, Truth, Asleep, Paired
<1>3. CASE Boot
  <2>1. CASE Paired
    <3>1. mem' = saved /\ saved.paired
      BY <1>3, <2>1 DEF Boot, Settings!Wake, Paired
    <3>2. pc' = "checkin" /\ screen' = screen /\ latest' = latest
      BY <1>3, <2>1 DEF Boot
    <3>3. Truth(saved)
      BY <1>3, <2>1, <1>o DEF Boot, Owed
    <3> QED
      BY <3>1, <3>2, <3>3 DEF Owed, Truth
  <2>2. CASE ~Paired
    BY <1>3, <2>2 DEF Boot, Owed
  <2> QED
    BY <2>1, <2>2
<1>4. CASE NoMaster
  <2>1. ~mem'.paired
    BY <1>4, <1>t DEF NoMaster, Known
  <2> QED
    BY <1>4, <2>1 DEF NoMaster, Owed, Asleep
<1>5. CASE Associated
  BY <1>5 DEF Associated, Owed
<1>6. CASE PairErase
  BY <1>6 DEF PairErase, Owed
<1>7. CASE PairShow
  <2>1. mem \in Record /\ mem.paired /\ mem.fails = 0 /\ latest = 0
    BY <1>7, <1>t DEF PairShow, TypeInv, Known
  <2>2. ~TooLong(mem)
    BY <2>1, ResetIsNotTooLong
  <2>3. mem' = mem /\ latest' = latest /\ pc' = "finish"
    BY <1>7 DEF PairShow
  <2> QED
    BY <2>1, <2>2, <2>3 DEF Owed, Truth, Asleep
<1>8. CASE CheckInFails
  <2> DEFINE n == OneMore(mem.fails)
             draws == mem.blank # 0 /\ n = mem.blank
  <2>1. mem \in Record /\ mem.paired
    BY <1>8, <1>t DEF CheckInFails, TypeInv, Known
  <2>2. pc' = "finish" /\ latest' = latest /\ wake' # "never"
    BY <1>8 DEF CheckInFails
  <2>3. n \in Counts
    BY <2>1, RecordFields, OneMoreIsOneMore
  <2>4. CASE mem.dissoc # 0 /\ n = mem.dissoc
    <3>1. ~mem'.paired
      BY <1>8, <2>1, <2>4 DEF CheckInFails, Record
    <3> QED
      BY <2>2, <3>1 DEF Owed, Asleep
  <2>5. CASE ~(mem.dissoc # 0 /\ n = mem.dissoc)
    <3>1. mem' = [mem EXCEPT !.fails = n]
      BY <1>8, <2>5 DEF CheckInFails
    <3>2. screen' = IF draws THEN Text("no signal") ELSE screen
      BY <1>8, <2>5 DEF CheckInFails
    <3>3. mem' \in Record /\ mem'.blank = mem.blank /\ mem'.fails = n
      BY <2>1, <2>3, <3>1, RecordFields DEF Record
    <3>4. Truth(mem)'
      <4>1. CASE draws
        <5>1. TooLong(mem')
          BY <3>3, <4>1, RecordNumbers DEF TooLong
        <5> QED
          BY <3>2, <4>1, <5>1 DEF Truth
      <4>2. CASE ~draws
        <5>1. screen' = screen
          BY <3>2, <4>2
        <5>2. ~doubt
          BY <1>8, <5>1 DEF CheckInFails
        <5>3. Truth(mem)
          BY <1>8, <1>o, <5>2 DEF CheckInFails, Owed
        <5>4. TooLong(mem') <=> TooLong(mem)
          BY <2>1, <3>3, <4>2, TooLongStarts
        <5> QED
          BY <2>2, <5>1, <5>3, <5>4 DEF Truth
      <4> QED
        BY <4>1, <4>2
    <3> QED
      BY <2>2, <3>4 DEF Owed, Asleep
  <2> QED
    BY <2>4, <2>5
<1>9. CASE CheckInWorks \/ CheckInForUpdate
  <2>1. InContact /\ latest' = latest /\ pc' \in {"download", "finish"}
    BY <1>9 DEF CheckInWorks, CheckInForUpdate
  <2>2. /\ mem' \in Record /\ mem'.paired /\ mem'.fails = 0
        /\ latest # 0 => screen' = Image(latest)
    BY <2>1, ContactFacts
  <2>3. ~TooLong(mem')
    BY <2>2, ResetIsNotTooLong
  <2>4. Truth(mem)'
    BY <2>1, <2>2, <2>3 DEF Truth
  <2> QED
    BY <2>1, <2>2, <2>4 DEF Owed, Asleep
<1>10. CASE FirstPieces
  BY <1>10, <1>o DEF FirstPieces, Owed, Truth
<1>11. CASE DownloadEnds
  <2>1. mem' = mem /\ mem.paired /\ latest' = latest /\ screen' = screen /\ pc' = "finish"
    BY <1>11, <1>t DEF DownloadEnds, Known
  <2>2. Truth(mem)
    BY <1>11, <1>o DEF DownloadEnds, Owed
  <2> QED
    BY <2>1, <2>2 DEF Owed, Truth, Asleep
<1>12. CASE Downloaded
  BY <1>12 DEF Downloaded, Owed
<1>13. CASE Show
  <2>1. mem \in Record /\ mem.paired /\ mem.fails = 0
    BY <1>13, <1>t DEF Show, TypeInv, Known
  <2>2. ~TooLong(mem)
    BY <2>1, ResetIsNotTooLong
  <2>3. /\ mem' = mem /\ latest' = latest /\ pc' = "finish"
        /\ screen' = Image(latest)
    BY <1>13 DEF Show
  <2> QED
    BY <2>1, <2>2, <2>3 DEF Owed, Truth, Asleep
<1>14. CASE Finish
  <2>1. mem \in Record /\ (mem.paired => Truth(mem)) /\ Asleep(mem.paired)
    BY <1>14, <1>t, <1>o DEF Finish, TypeInv, Owed
  <2>2. pc' = "off" /\ saved' = mem
    BY <1>14 DEF Finish, Settings!SaveAndSleep
  <2>3. screen' = screen /\ latest' = latest /\ wake' = wake
    BY <1>14 DEF Finish
  <2>4. Paired' = mem.paired
    BY <2>1, <2>2, RecordFields DEF Paired
  <2> QED
    BY <2>1, <2>2, <2>3, <2>4 DEF Owed, Truth, Asleep
<1>15. CASE Cut
  BY <1>15 DEF Cut
<1>16. CASE UNCHANGED vars
  BY <1>16, <1>o DEF vars, Owed, Truth, Asleep, Paired
<1> QED
  BY <1>1, <1>2, <1>3, <1>4, <1>5, <1>6, <1>7, <1>8, <1>9, <1>10, <1>11, <1>12,
     <1>13, <1>14, <1>15, <1>16
  DEF Next, Pairing, CheckIn, Download

LEMMA AlwaysTrueInv == Spec => []TrueInv
<1>1. TrueInv /\ [Next]_vars => TrueInv'
  BY NextTrueInv
<1> QED
  BY <1>1, InitTrueInv, PTL DEF Spec

(* What a sleeping tag shows follows from what it has saved, for all        *)
(* thresholds and all sizes of the counter: uiPaired draws at the one       *)
(* check-in at which the counter meets its threshold, and this is enough.   *)
(* After a cut it holds again from the next wake-up that draws.             *)
THEOREM ScreenIsTrue == Spec => []ScreenTrue
<1>1. TrueInv => ScreenTrue
  BY DEF TrueInv, Owed, Truth, Asleep, ScreenTrue
<1> QED
  BY <1>1, AlwaysTrueInv, PTL

(* A check-in that works replaces "NO SIGNAL" by the newest image, if there *)
(* is one (uiPaired, wasShowingError), unless the wake-up that drew the     *)
(* message was cut short.                                                   *)
THEOREM BlankIsRedrawn == Spec => BlankRedrawnUnlessCut
<1>1. ASSUME TrueInv, CheckInWorks \/ CheckInForUpdate, ~doubt, latest # 0
      PROVE  screen' # Text("no signal")
  <2>1. InContact /\ latest' = latest
    BY <1>1 DEF CheckInWorks, CheckInForUpdate
  <2>2. ~doubt'
    BY <1>1, <2>1 DEF InContact
  <2>3. screen' = Image(latest)
    BY <1>1, <2>1, <2>2, ContactFacts
  <2> QED
    BY <2>3 DEF Image, Text
<1>2. TrueInv /\ [Next]_vars
      => [(CheckInWorks \/ CheckInForUpdate) /\ ~doubt
            /\ screen = Text("no signal") /\ latest # 0
            => screen' # Text("no signal")]_vars
  BY <1>1
<1> QED
  BY <1>2, AlwaysTrueInv, PTL DEF Spec, BlankRedrawnUnlessCut

-----------------------------------------------------------------------------
(* A copy of the settings that says it is paired is below the count of      *)
(* failed check-ins that ends the pairing.                                  *)
Below(s) == s.paired /\ s.dissoc # 0 => s.fails < s.dissoc

BelowInv ==
  /\ TypeInv
  /\ Paired => Below(saved)
  /\ pc # "off" => Below(mem)

LEMMA ResetIsBelow ==
  ASSUME NEW s \in Record, s.fails = 0
  PROVE  Below(s)
<1>1. s.dissoc \in Nat
  BY SessionAssumption DEF Record, Counts
<1> QED
  BY <1>1 DEF Below

(* One more failed check-in that does not end the pairing stays below. *)
LEMMA StaysBelow ==
  ASSUME NEW s \in Record, Below(s), NEW n, n = OneMore(s.fails),
         ~(s.dissoc # 0 /\ n = s.dissoc)
  PROVE  Below([s EXCEPT !.fails = n])
<1> DEFINE r == [s EXCEPT !.fails = n]
<1>1. s.fails \in Nat /\ s.dissoc \in Nat
  BY SessionAssumption DEF Record, Counts
<1>2. n = s.fails \/ n = s.fails + 1
  BY RecordFields, OneMoreIsOneMore
<1>3. r.paired = s.paired /\ r.dissoc = s.dissoc /\ r.fails = n
  BY DEF Record
<1> HIDE DEF r
<1>4. Below(r)
  BY <1>1, <1>2, <1>3 DEF Below
<1> QED
  BY <1>4 DEF r

LEMMA InitBelowInv == Init => BelowInv
  BY InitTypeInv DEF Init, BelowInv, Paired

LEMMA NextBelowInv == BelowInv /\ [Next]_vars => BelowInv'
<1> SUFFICES ASSUME BelowInv, [Next]_vars PROVE BelowInv'
  OBVIOUS
<1>t. TypeInv /\ TypeInv'
  BY NextTypeInv DEF BelowInv
<1>1. CASE UNCHANGED <<saved, mem>> /\ (pc' # "off" => pc # "off")
  BY <1>1, <1>t DEF BelowInv, Below, Paired
<1>2. CASE Boot
  <2>1. mem' \in {saved, Fresh} /\ saved' = saved /\ (mem' = saved => Paired \/ ~saved.paired)
    BY <1>2, <1>t, RecordFields DEF Boot, Settings!Wake, Paired, TypeInv, TypeOK
  <2>2. ~Fresh.paired
    BY DEF Fresh
  <2> QED
    BY <1>t, <2>1, <2>2 DEF BelowInv, Below, Paired
<1>3. CASE Associated
  <2>1. mem'.fails = 0 /\ mem' \in Record /\ saved' = saved
    BY <1>3, <1>t DEF Associated, Settings!Change, TypeInv
  <2> QED
    BY <1>t, <2>1, ResetIsBelow DEF BelowInv, Below, Paired
<1>4. CASE CheckInFails
  <2> DEFINE n == OneMore(mem.fails)
  <2>1. mem \in Record /\ Below(mem) /\ saved' = saved
    BY <1>4, <1>t DEF CheckInFails, Settings!Change, BelowInv, TypeInv
  <2>2. CASE mem.dissoc # 0 /\ n = mem.dissoc
    <3>1. ~mem'.paired
      BY <1>4, <2>1, <2>2 DEF CheckInFails, Record
    <3> QED
      BY <1>t, <2>1, <3>1 DEF BelowInv, Below, Paired
  <2>3. CASE ~(mem.dissoc # 0 /\ n = mem.dissoc)
    <3>1. mem' = [mem EXCEPT !.fails = n]
      BY <1>4, <2>3 DEF CheckInFails
    <3>2. Below([mem EXCEPT !.fails = n])
      BY <2>1, <2>3, StaysBelow
    <3> QED
      BY <1>t, <2>1, <3>1, <3>2 DEF BelowInv, Below, Paired
  <2> QED
    BY <2>2, <2>3
<1>5. CASE CheckInWorks \/ CheckInForUpdate
  <2>1. InContact /\ saved' = saved /\ mem \in Record
    BY <1>5, <1>t DEF CheckInWorks, CheckInForUpdate, InContact, Settings!Change, TypeInv
  <2>2. [mem EXCEPT !.fails = 0] \in Record /\ [mem EXCEPT !.fails = 0].fails = 0
    BY <2>1, RecordFields, ZeroCounts DEF Record
  <2>3. mem' \in Record /\ mem'.fails = 0
    BY <2>1, <2>2 DEF InContact
  <2> QED
    BY <1>t, <2>1, <2>3, ResetIsBelow DEF BelowInv, Below, Paired
<1>6. CASE Finish
  BY <1>6, <1>t DEF Finish, Settings!SaveAndSleep, BelowInv, Below, Paired
<1>7. CASE Cut
  BY <1>7, <1>t DEF Cut, Settings!PowerLoss, BelowInv, Below, Paired
<1>8. CASE \/ Battery \/ NoMaster \/ PairErase \/ PairShow \/ Download \/ UNCHANGED vars
           \/ \E v \in Versions \cup {0} : Publish(v)
  <2>1. UNCHANGED <<saved, mem>> /\ (pc' # "off" => pc # "off")
    BY <1>8 DEF Battery, NoMaster, PairErase, PairShow, Download, FirstPieces, DownloadEnds,
                Downloaded, Show, Publish, vars
  <2> QED
    BY <1>1, <2>1
<1> QED
  BY <1>2, <1>3, <1>4, <1>5, <1>6, <1>7, <1>8 DEF Next, Pairing, CheckIn

(* The check-in that ends a pairing is never passed over, for all           *)
(* thresholds and sizes of the counter and however wake-ups are cut short:  *)
(* that uiPaired compares with `==' is enough.  It is what GivesUp rests    *)
(* on.                                                                      *)
THEOREM DissociationIsNotMissed == Spec => []NotPastDissoc
<1>1. BelowInv => NotPastDissoc
  BY DEF BelowInv, Below, NotPastDissoc, Paired
<1> QED
  BY <1>1, InitBelowInv, NextBelowInv, PTL DEF Spec

-----------------------------------------------------------------------------
(* A wake-up that is about to save a new pairing has erased the images.     *)
NewPairing == pc = "finish" /\ mem.paired /\ ~Paired => latest = 0

ImagesInv == OwnInv /\ TrueInv /\ NewPairing

LEMMA InitImagesInv == Init => ImagesInv
  BY InitOwnInv, InitTrueInv DEF Init, ImagesInv, NewPairing

LEMMA NextImagesInv == ImagesInv /\ [Next]_vars => ImagesInv'
<1> SUFFICES ASSUME ImagesInv, [Next]_vars PROVE ImagesInv'
  OBVIOUS
<1>t. OwnInv' /\ TrueInv' /\ Known /\ Known'
  BY NextOwnInv, NextTrueInv DEF ImagesInv, TrueInv
<1> SUFFICES NewPairing'
  BY <1>t DEF ImagesInv
<1>1. CASE pc' # "finish"
  BY <1>1 DEF NewPairing
<1>2. CASE pc = "finish" /\ UNCHANGED <<pc, mem, saved, latest>>
  BY <1>2 DEF ImagesInv, NewPairing, Paired
<1>3. CASE NoMaster
  BY <1>3, <1>t DEF NoMaster, Known, NewPairing
<1>4. CASE PairShow
  BY <1>4, <1>t DEF PairShow, Known, NewPairing
<1>5. CASE CheckIn \/ DownloadEnds \/ Show
  <2>1. Paired /\ saved' = saved
    BY <1>5 DEF ImagesInv, OwnInv, CheckIn, CheckInFails, CheckInWorks, CheckInForUpdate,
                InContact, DownloadEnds, Show, Settings!Change
  <2> QED
    BY <2>1 DEF NewPairing, Paired
<1>6. CASE \/ Boot \/ Associated \/ PairErase \/ FirstPieces \/ Downloaded \/ Finish \/ Cut
  BY <1>1, <1>6 DEF Boot, Associated, PairErase, FirstPieces, Downloaded, Finish, Cut
<1>7. CASE Battery \/ UNCHANGED vars \/ \E v \in Versions \cup {0} : Publish(v)
  BY <1>1, <1>2, <1>7 DEF Battery, vars, Publish
<1> QED
  BY <1>3, <1>4, <1>5, <1>6, <1>7 DEF Next, Pairing, Download

LEMMA AlwaysImagesInv == Spec => []ImagesInv
  BY InitImagesInv, NextImagesInv, PTL DEF Spec

(* What each step does to the images of the pairing.                        *)
LEMMA ImagesStep ==
  ASSUME ImagesInv, ImagesInv', [Next]_vars
  PROVE  \/ Paired' = Paired /\ (Paired => latest' = latest)
         \/ Paired /\ Paired' /\ latest < latest' /\ latest' \in Versions
         \/ ~Paired /\ Paired' /\ latest' = 0
         \/ Paired /\ ~Paired'
<1>1. CASE saved' = saved /\ latest' = latest
  BY <1>1 DEF Paired
<1>2. CASE PairErase
  BY <1>2 DEF PairErase, ImagesInv, OwnInv, Paired
<1>3. CASE Downloaded
  <2>1. latest < offer /\ offer \in Versions \cup {0} /\ latest \in Nat
    BY <1>3, VersionsAreNumbers DEF Downloaded, ImagesInv, OwnInv, TypeInv, TypeOK
  <2>2. offer \in Versions
    BY <2>1
  <2>3. Paired /\ Paired'
    BY <1>3 DEF Downloaded, ImagesInv, OwnInv, Paired
  <2> QED
    BY <1>3, <2>1, <2>2, <2>3 DEF Downloaded
<1>4. CASE Finish
  <2>1. saved' = mem /\ latest' = latest /\ mem \in Record /\ pc = "finish"
    BY <1>4 DEF Finish, Settings!SaveAndSleep, ImagesInv, OwnInv, TypeInv
  <2>2. Paired' <=> mem.paired
    BY <2>1, RecordFields DEF Paired
  <2>3. Paired' /\ ~Paired => latest' = 0
    BY <2>1, <2>2 DEF ImagesInv, NewPairing
  <2>4. Paired \in BOOLEAN /\ Paired' \in BOOLEAN
    BY RecordFields DEF Paired, ImagesInv, OwnInv, TypeInv, TypeOK
  <2> QED
    BY <2>1, <2>3, <2>4
<1>5. CASE \/ Battery \/ Boot \/ NoMaster \/ Associated \/ PairShow \/ CheckIn \/ FirstPieces
           \/ DownloadEnds \/ Show \/ Cut \/ UNCHANGED vars
           \/ \E v \in Versions \cup {0} : Publish(v)
  BY <1>1, <1>5 DEF Battery, Boot, NoMaster, Associated, PairShow, CheckIn, CheckInFails,
     CheckInWorks, CheckInForUpdate, FirstPieces, DownloadEnds, Show, Cut, Publish, vars,
     Settings!Wake, Settings!Change, Settings!PowerLoss
<1> QED
  BY <1>2, <1>3, <1>4, <1>5 DEF Next, Pairing, Download

(* The images of a pairing are the register that the image store is shown   *)
(* to implement: uiNotPaired erases them before main saves that the tag is  *)
(* paired, and uiPaired compares with the newest one before it downloads,   *)
(* wherever wake-ups are cut short.                                         *)
THEOREM ImagesAreARegister == Spec => ImplementsImages
<1>1. Init => Images!Init
  BY DEF Init, Images!Init, Paired
<1>2. ImagesInv /\ ImagesInv' /\ [Next]_vars => [Images!Next]_(Images!regVars)
  <2> SUFFICES ASSUME ImagesInv, ImagesInv', [Next]_vars
               PROVE  [Images!Next]_(Images!regVars)
    OBVIOUS
  <2>1. Paired \in BOOLEAN /\ Paired' \in BOOLEAN
    BY RecordFields DEF Paired, ImagesInv, OwnInv, TypeInv, TypeOK
  <2> QED
    BY <2>1, ImagesStep
       DEF Images!Next, Images!Pair, Images!Unpair, Images!Install, Images!regVars
<1> QED
  BY <1>1, <1>2, AlwaysImagesInv, PTL DEF Spec, ImplementsImages, Images!Spec
==============================================================================

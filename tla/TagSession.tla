----------------------------- MODULE TagSession -----------------------------
(***************************************************************************)
(* What a tag does with a wake-up, and what its user sees                  *)
(* (firmware/main/main.c): it looks for a station to pair with, or checks  *)
(* in with its own, counts the check-ins that fail, says so on the screen, *)
(* gives up its station, downloads and shows images.  A wake-up works on a *)
(* copy of the settings that is saved at its very end; a wake-up that is   *)
(* cut short (power loss, or the reset at the end of a firmware update)    *)
(* forgets its copy, but what it did to the EEPROM and to the screen       *)
(* stays.                                                                  *)
(*                                                                         *)
(* The settings are the cell of SettingsRegister and the slots are the     *)
(* newest image in them: TagSettings and TagImageStore implement these.    *)
(* Every image can be drawn; the progress bar of a download is left out.   *)
(***************************************************************************)
EXTENDS Integers

CONSTANTS
  Versions,     \* versions of images, above 0
  Offers,       \* what stations tell a tag that pairs: <<failedCheckinsTillBlank,
                \* failedCheckinsTillDissoc>>, 0 for never
  NumChannels,  \* RADIO_NUM_CHANNELS
  ChannelCap,   \* values of the field channel, 2^4 in the code
  CountCap,     \* values of numFailedCheckins, 2^16 in the code
  None          \* no settings

ASSUME SessionAssumption ==
  /\ Versions \subseteq Nat \ {0}
  /\ NumChannels \in Nat \ {0} /\ ChannelCap \in Nat \ {0} /\ CountCap \in Nat \ {0}
  /\ Offers \subseteq (0 .. CountCap - 1) \X (0 .. CountCap - 1)

Channels == 0 .. NumChannels - 1
Counts   == 0 .. CountCap - 1

Record == [paired : BOOLEAN, fails : Counts, blank : Counts, dissoc : Counts,
           channel : 0 .. ChannelCap - 1]
Fresh  == [paired |-> FALSE, fails |-> 0, blank |-> 0, dissoc |-> 0, channel |-> 0]

ASSUME NoneAssumption == None \notin Record

VARIABLES
  saved,    \* the settings in the EEPROM
  mem,      \* mSettings, None between wake-ups
  latest,   \* the newest complete image in the EEPROM, 0 for none
  half,     \* with no complete image, the one that slot 0 has the beginning of
  screen,   \* an image, the beginning of one, or a message
  pc,       \* where in main the wake-up is, "off" between wake-ups
  offer,    \* the image of the check-in that is being acted on
  wake,     \* what is to end the present sleep
  station,  \* the image the station offers, 0 for none
  home,     \* the channel of the station
  doubt     \* history: a wake-up was cut short, and nothing was drawn since

vars == <<saved, mem, latest, half, screen, pc, offer, wake, station, home,
          doubt>>

Settings == INSTANCE SettingsRegister
              WITH Values <- Record, Default <- Fresh,
                   on <- pc # "off", copy <- mem

-----------------------------------------------------------------------------
Contents == {"factory", "signal", "no master", "no signal", "image", "half"}
Text(t)  == [shows |-> t, image |-> 0]
Image(v) == [shows |-> "image", image |-> v]
Half(v)  == [shows |-> "half", image |-> v]

Paired == saved # None /\ saved.paired

\* uiPrvIsShowingTooLongWithNoCheckinsMessage
TooLong(s) == s.blank # 0 /\ s.fails >= s.blank

\* (mutant: the counter wraps to 0)
OneMoreWraps(n) == IF n + 1 = CountCap THEN 0 ELSE n + 1

OneMore(n) == IF n + 1 = CountCap THEN n ELSE n + 1

Init ==
  /\ saved = None /\ mem = None
  /\ latest = 0 /\ half = 0 /\ screen = Text("factory")
  /\ pc = "off" /\ offer = 0 /\ wake = "soon"
  /\ station = 0 /\ home \in Channels /\ doubt = FALSE

\* The host gives the station another image, or takes it away.
Publish(v) ==
  /\ station # v
  /\ station' = v
  /\ UNCHANGED <<saved, mem, latest, half, screen, pc, offer, wake, home, doubt>>

\* The user takes the battery out of a sleeping tag and puts it back.
Battery ==
  /\ pc = "off" /\ wake # "soon"
  /\ wake' = "soon"
  /\ UNCHANGED <<saved, mem, latest, half, screen, pc, offer, station, home, doubt>>

Boot ==
  /\ pc = "off" /\ wake # "never"
  /\ pc' = IF Paired THEN "checkin" ELSE "pair"
  /\ Settings!Wake
  /\ wake' = "soon"
  /\ UNCHANGED <<latest, half, screen, offer, station, home, doubt>>

-----------------------------------------------------------------------------
(* uiNotPaired                                                              *)

\* No station answers on any channel.
NoMaster ==
  /\ pc = "pair"
  /\ screen' = Text("no master") /\ wake' = "never"
  /\ pc' = "finish"
  /\ doubt' = FALSE
  /\ UNCHANGED <<saved, mem, latest, half, offer, station, home>>

\* (mutant: the field of the channel is as wide as its values)
AssociatedWide ==
  /\ pc = "pair"
  /\ \E o \in Offers :
       mem' = [paired |-> TRUE, fails |-> 0, blank |-> o[1], dissoc |-> o[2], channel |-> home]
  /\ pc' = "pairErase"
  /\ UNCHANGED <<saved, latest, half, screen, offer, wake, station, home, doubt>>

\* An answer from a station that is near; the channel loses its high bits.
Associated ==
  /\ pc = "pair"
  /\ \E o \in Offers :
       mem' = [paired |-> TRUE, fails |-> 0, blank |-> o[1], dissoc |-> o[2],
               channel |-> home % ChannelCap]
  /\ pc' = "pairErase"
  /\ Settings!Change
  /\ UNCHANGED <<latest, half, screen, offer, wake, station, home, doubt>>

\* (mutant: nothing is drawn for a new pairing)
PairEraseOnly ==
  /\ pc = "pairErase"
  /\ latest' = 0 /\ half' = 0
  /\ pc' = "finish"
  /\ UNCHANGED <<saved, mem, screen, offer, wake, station, home, doubt>>

PairErase ==
  /\ pc = "pairErase"
  /\ latest' = 0 /\ half' = 0
  /\ pc' = "pairShow"
  /\ UNCHANGED <<saved, mem, screen, offer, wake, station, home, doubt>>

PairShow ==
  /\ pc = "pairShow"
  /\ screen' = Text("signal") /\ wake' = "soon"
  /\ pc' = "finish"
  /\ doubt' = FALSE
  /\ UNCHANGED <<saved, mem, latest, half, offer, station, home>>

-----------------------------------------------------------------------------
(* uiPaired                                                                 *)

\* (mutant: the message is drawn one check-in late)
CheckInFailsLate ==
  /\ pc = "checkin"
  /\ LET n == OneMore(mem.fails)
     IN \/ /\ mem.dissoc # 0 /\ n = mem.dissoc
           /\ mem' = [mem EXCEPT !.fails = n, !.paired = FALSE]
           /\ wake' = "soon" /\ UNCHANGED screen
        \/ /\ ~(mem.dissoc # 0 /\ n = mem.dissoc)
           /\ mem' = [mem EXCEPT !.fails = n]
           /\ screen' = IF mem.blank # 0 /\ mem.fails = mem.blank THEN Text("no signal") ELSE screen
           /\ wake' = "delay"
  /\ pc' = "finish"
  /\ Settings!Change
  /\ doubt' = (doubt /\ screen' = screen)
  /\ UNCHANGED <<latest, half, offer, station, home>>

\* (mutant: a tag that gives up its station forgets to save that)
CheckInFailsNoUnpair ==
  /\ pc = "checkin"
  /\ LET n == OneMore(mem.fails)
     IN /\ mem' = [mem EXCEPT !.fails = n]
        /\ screen' = IF mem.blank # 0 /\ n = mem.blank THEN Text("no signal") ELSE screen
        /\ wake' = "delay"
  /\ pc' = "finish"
  /\ Settings!Change
  /\ doubt' = (doubt /\ screen' = screen)
  /\ UNCHANGED <<latest, half, offer, station, home>>

\* (mutant: the counter is compared before it is incremented)
CheckInFailsComparesFirst ==
  /\ pc = "checkin"
  /\ LET n == OneMore(mem.fails)
     IN \/ /\ mem.dissoc # 0 /\ mem.fails = mem.dissoc
           /\ mem' = [mem EXCEPT !.fails = n, !.paired = FALSE]
           /\ wake' = "soon" /\ UNCHANGED screen
        \/ /\ ~(mem.dissoc # 0 /\ mem.fails = mem.dissoc)
           /\ mem' = [mem EXCEPT !.fails = n]
           /\ screen' = IF mem.blank # 0 /\ n = mem.blank THEN Text("no signal") ELSE screen
           /\ wake' = "delay"
  /\ pc' = "finish"
  /\ Settings!Change
  /\ doubt' = (doubt /\ screen' = screen)
  /\ UNCHANGED <<latest, half, offer, station, home>>

\* Five attempts without a checkout.
CheckInFails ==
  /\ pc = "checkin"
  /\ LET n == OneMore(mem.fails)
     IN \/ /\ mem.dissoc # 0 /\ n = mem.dissoc
           /\ mem' = [mem EXCEPT !.fails = n, !.paired = FALSE]
           /\ wake' = "soon" /\ UNCHANGED screen
        \/ /\ ~(mem.dissoc # 0 /\ n = mem.dissoc)
           /\ mem' = [mem EXCEPT !.fails = n]
           /\ screen' = IF mem.blank # 0 /\ n = mem.blank THEN Text("no signal") ELSE screen
           /\ wake' = "delay"
  /\ pc' = "finish"
  /\ Settings!Change
  /\ doubt' = (doubt /\ screen' = screen)
  /\ UNCHANGED <<latest, half, offer, station, home>>

\* uiPrvDrawImageAtSlotIndex of the newest image, or of slot 0 when there is
\* none: what it holds is drawn if it begins like an image.
Redraw ==
  \/ latest # 0 /\ screen' = Image(latest)
  \/ latest = 0 /\ half # 0 /\ screen' = Half(half)
  \/ latest = 0 /\ half = 0 /\ UNCHANGED screen

\* A checkout: the counter is reset, and the message is replaced.
InContact ==
  /\ pc = "checkin" /\ mem.channel = home
  /\ mem' = [mem EXCEPT !.fails = 0]
  /\ \/ TooLong(mem) /\ Redraw /\ doubt' = FALSE
     \/ ~TooLong(mem) /\ UNCHANGED <<screen, doubt>>

\* (mutant: any image that is not the tag's own is downloaded)
CheckInWorksAnyImage ==
  /\ InContact
  /\ offer' = station
  /\ \/ station # 0 /\ latest # station /\ pc' = "download" /\ UNCHANGED wake
     \/ (station = 0 \/ latest = station) /\ pc' = "finish" /\ wake' = "delay"
  /\ Settings!Change
  /\ UNCHANGED <<latest, half, station, home>>

CheckInWorks ==
  /\ InContact
  /\ offer' = station
  /\ \/ latest < station /\ pc' = "download" /\ UNCHANGED wake
     \/ latest >= station /\ pc' = "finish" /\ wake' = "delay"
  /\ Settings!Change
  /\ UNCHANGED <<latest, half, station, home>>

\* A newer firmware comes first, and its download does not end.
CheckInForUpdate ==
  /\ InContact
  /\ pc' = "finish" /\ wake' \in {"delay", "retry"}
  /\ Settings!Change
  /\ UNCHANGED <<latest, half, offer, station, home>>

\* The first image of a pairing goes to slot 0, which is erased if it holds
\* the beginning of another; then the beginning of this one is there.
FirstPieces ==
  /\ pc = "download" /\ latest = 0 /\ half # offer
  /\ half' \in {0, offer} \ {half}
  /\ UNCHANGED <<saved, mem, latest, screen, pc, offer, wake, station, home, doubt>>

DownloadEnds ==
  /\ pc = "download"
  /\ pc' = "finish" /\ wake' \in {"delay", "retry"}
  /\ UNCHANGED <<saved, mem, latest, half, screen, offer, station, home, doubt>>

\* (mutant: the image is not drawn)
DownloadedOnly ==
  /\ pc = "download"
  /\ latest' = offer /\ half' = 0
  /\ pc' = "finish" /\ wake' = "delay"
  /\ UNCHANGED <<saved, mem, screen, offer, station, home, doubt>>

\* All pieces are there and the marker is programmed.
Downloaded ==
  /\ pc = "download"
  /\ latest' = offer /\ half' = 0
  /\ pc' = "show"
  /\ UNCHANGED <<saved, mem, screen, offer, wake, station, home, doubt>>

Show ==
  /\ pc = "show"
  /\ screen' = Image(latest)
  /\ pc' = "finish" /\ wake' = "delay"
  /\ doubt' = FALSE
  /\ UNCHANGED <<saved, mem, latest, half, offer, station, home>>

-----------------------------------------------------------------------------
Finish ==
  /\ pc = "finish"
  /\ pc' = "off" /\ offer' = 0
  /\ Settings!SaveAndSleep
  /\ UNCHANGED <<latest, half, screen, wake, station, home, doubt>>

Cut ==
  /\ pc # "off"
  /\ pc' = "off" /\ offer' = 0 /\ wake' = "soon"
  /\ Settings!PowerLoss
  /\ doubt' = TRUE
  /\ UNCHANGED <<latest, half, screen, station, home>>

Pairing  == NoMaster \/ Associated \/ PairErase \/ PairShow
CheckIn  == CheckInFails \/ CheckInWorks \/ CheckInForUpdate
Download == FirstPieces \/ DownloadEnds \/ Downloaded \/ Show

Next ==
  \/ \E v \in Versions \cup {0} : Publish(v)
  \/ Battery \/ Boot \/ Pairing \/ CheckIn \/ Download \/ Finish \/ Cut

Spec == Init /\ [][Next]_vars

-----------------------------------------------------------------------------
(* Type invariant: every variable has the shape the firmware gives it.      *)
TypeOK ==
  /\ saved \in Record \cup {None}
  /\ mem \in Record \cup {None}
  /\ latest \in Versions \cup {0} /\ half \in Versions \cup {0}
  /\ screen \in [shows : Contents, image : Versions \cup {0}]
  /\ pc \in {"off", "pair", "pairErase", "pairShow", "checkin", "download", "show", "finish"}
  /\ offer \in Versions \cup {0}
  /\ wake \in {"soon", "delay", "retry", "never"}
  /\ station \in Versions \cup {0}
  /\ home \in Channels
  /\ doubt \in BOOLEAN

(* Between wake-ups the screen tells the truth about the saved state: a tag *)
(* that sleeps for good says that it has no station, a tag without contact  *)
(* for too long says so, any other paired tag shows its newest image.  It   *)
(* is drawn by wake-ups that compare a counter with a threshold, and never  *)
(* checked again.  A wake-up that is cut short may leave it wrong until the *)
(* next time something is drawn, but no longer.                             *)
ScreenTrue ==
  pc = "off" /\ ~doubt =>
    /\ ~Paired /\ wake = "never" => screen = Text("no master")
    /\ Paired /\ TooLong(saved) => screen = Text("no signal")
    /\ Paired /\ ~TooLong(saved) /\ latest # 0 => screen = Image(latest)

(* However wake-ups are cut short, a paired tag never shows an image of an  *)
(* earlier pairing: only one it downloaded since, or an older one of these. *)
ShowsOwnImages ==
  pc = "off" /\ Paired /\ screen.shows = "image" => screen.image <= latest

(* Nobody sees a paired tag go back to an older image, whatever it was      *)
(* offered, and whichever of its images was drawn when it was cut short.    *)
NeverOlder ==
  [][Paired /\ Paired' /\ screen.shows = "image" /\ screen'.shows = "image"
       => screen.image <= screen'.image]_vars

(* A paired tag has not reached the failed check-in at which it was told to *)
(* give its station up.  The code looks for that one with `==', once per    *)
(* wake-up and before it saves the counter: past it the tag would stay with *)
(* a dead station until the counter, which stops at its greatest value,     *)
(* were reset.                                                              *)
NotPastDissoc == Paired /\ saved.dissoc # 0 => saved.fails < saved.dissoc

(* "If screen was blanked, redraw it" (main.c): contact with the station    *)
(* replaces the message, if there is an image to replace it with.  Whether  *)
(* it was blanked is concluded from the saved counter, so this needs a      *)
(* wake-up that drew the message and also saved the counter.                *)
BlankRedrawnUnlessCut ==
  [][(CheckInWorks \/ CheckInForUpdate) /\ ~doubt
       /\ screen = Text("no signal") /\ latest # 0
       => screen' # Text("no signal")]_vars

(* "If screen was blanked, redraw it": what contact draws was on the screen *)
(* before.  The beginning of an image whose download has not ended was not. *)
OnlyWholeImages == screen.shows # "half"

-----------------------------------------------------------------------------
(* The images of a pairing, seen across wake-ups that are cut short         *)
(* anywhere, are the register that TagImageStore implements: a tag that     *)
(* becomes paired, which the last step of a wake-up saves, has no image of  *)
(* an earlier pairing, and an image is replaced by a newer one only.        *)
Images == INSTANCE ImageRegister
            WITH paired <- Paired, current <- IF Paired THEN latest ELSE 0
ImplementsImages == Images!Spec

-----------------------------------------------------------------------------
(* A powered tag runs its program to its end, and wakes up unless it sleeps *)
(* for good.                                                                *)
TagRuns ==
  /\ WF_vars(Boot) /\ WF_vars(Pairing) /\ WF_vars(CheckIn) /\ WF_vars(Download)
  /\ WF_vars(Finish)

(* Of infinitely many check-ins and downloads that could work some does,    *)
(* with no firmware update in its way.                                      *)
LinkWorks == SF_vars(CheckInWorks) /\ SF_vars(Downloaded)

FairSpec == Spec /\ TagRuns

(* A tag that stays paired shows the image that stays with its station,     *)
(* again and again however often it loses contact: if the link works, the   *)
(* channel fits its field, and nothing drawn is forgotten by a cut for ever.*)
Shown ==
  LinkWorks /\ home < ChannelCap =>
    \A v \in Versions :
      <>[](station = v /\ latest <= v /\ Paired /\ ~doubt) => []<>(screen = Image(v))

(* A tag that never hears of its station again gives it up, if it was told  *)
(* to, and its screen says so, though wake-ups are cut short for a while.   *)
(* It needs TagRuns only: LinkWorks would deny that the station is gone.    *)
GivesUp ==
  ( /\ <>[][~(CheckInWorks \/ CheckInForUpdate \/ Associated \/ Cut)]_vars
    /\ <>[](Paired => saved.dissoc # 0) )
  => <>[](~Paired /\ screen = Text("no master"))

============================================================================

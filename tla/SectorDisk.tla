----------------------------- MODULE SectorDisk -----------------------------
(***************************************************************************)
(* What the image store of a station (Station/imgStore.c) promises: a disk *)
(* of sectors that returns what was written last, where at most one flash  *)
(* page is at risk at any time.  A power loss can damage that page and no  *)
(* other, and an answer to a tag is a view of the disk at one instant.     *)
(***************************************************************************)
CONSTANTS Pages, Offsets, Data, None

Sectors == Pages \X Offsets

VARIABLES
  disk,    \* the contents as the host sees them
  atRisk,  \* the page that is not in flash yet, or None
  answer   \* directory entry and data of the last answer to a tag

diskVars == <<disk, atRisk, answer>>

Init ==
  /\ disk \in [Sectors -> Data]
  /\ atRisk \in Pages \cup {None}
  /\ answer = <<>>

Write ==
  /\ \E s \in Sectors, d \in Data :
       /\ atRisk \in {None, s[1]}
       /\ disk' = [disk EXCEPT ![s] = d] /\ atRisk' = s[1]
  /\ UNCHANGED answer

Sync == atRisk' = None /\ UNCHANGED <<disk, answer>>

Answer ==
  /\ \E e, s \in Sectors : answer' = <<disk[e], disk[s]>>
  /\ UNCHANGED <<disk, atRisk>>

PowerLoss ==
  /\ disk' \in [Sectors -> Data]
  /\ \A s \in Sectors : s[1] # atRisk => disk'[s] = disk[s]
  /\ atRisk' \in {None, atRisk}
  /\ answer' = <<>>

Next == Write \/ Sync \/ Answer \/ PowerLoss

Spec == Init /\ [][Next]_diskVars
=============================================================================

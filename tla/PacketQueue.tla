---------------------------- MODULE PacketQueue ----------------------------
(***************************************************************************)
(* What a radio driver promises to its reader: packets come out whole, in  *)
(* the order in which they were received.  Packets may be lost on their    *)
(* way in, never once they are queued.                                     *)
(***************************************************************************)
EXTENDS Sequences, Naturals

CONSTANTS Packets, Size, None

VARIABLES
  queue,  \* packets received and not released
  got     \* what the reader was given last, None when it was given nothing

queueVars == <<queue, got>>

Init == queue = <<>> /\ got = None

Receive ==
  /\ Len(queue) < Size
  /\ \E p \in Packets : queue' = Append(queue, p)
  /\ UNCHANGED got

Read == queue # <<>> /\ got' = Head(queue) /\ UNCHANGED queue

Release == queue # <<>> /\ queue' = Tail(queue) /\ got' = None

Next == Receive \/ Read \/ Release

Spec == Init /\ [][Next]_queueVars
=============================================================================

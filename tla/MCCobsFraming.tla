---------------------------- MODULE MCCobsFraming ----------------------------
(***************************************************************************)
(* Messages of one to three bytes with the 0 in every place and nowhere, and *)
(* a CRC of one byte, which is 0 for the message 5.                         *)
(***************************************************************************)
EXTENDS CobsFraming

MCMessages == {<<0>>, <<5>>, <<0, 0>>, <<0, 2, 1>>, <<1, 0, 3>>, <<2, 1, 0>>, <<1, 2, 3>>}

MCCrc(s) ==
  LET Sum[i \in 0 .. Len(s)] == IF i = 0 THEN 1 ELSE Sum[i - 1] + i * s[i]
  IN  <<Sum[Len(s)] % (MaxByte + 1)>>
=============================================================================

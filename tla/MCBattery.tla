----------------------------- MODULE MCBattery -----------------------------
(***************************************************************************)
(* The battery of the board: the curve of a lithium cell, a divider that   *)
(* halves the voltage, and every reading of 14 bits with the noise below   *)
(* zero of an input at ground.                                             *)
(***************************************************************************)
EXTENDS Battery

MCLevels == << [pptt |-> 10000, mV |-> 4150], [pptt |-> 7500, mV |-> 3750],
               [pptt |-> 5000, mV |-> 3550], [pptt |-> 2500, mV |-> 3420],
               [pptt |-> 0, mV |-> 3100] >>

MCReadings == -8 .. 2^14 - 1
=============================================================================

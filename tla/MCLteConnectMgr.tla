-------------------------- MODULE MCLteConnectMgr --------------------------
(***************************************************************************)
(* The LTE connection manager with the digits of the code (a serial number *)
(* of 12, a command of 8), a delay of a few ticks, and enough messages for *)
(* a command to arrive while an earlier one's timer runs and to be         *)
(* delivered again after a reset.                                          *)
(***************************************************************************)
EXTENDS LteConnectMgr
=============================================================================

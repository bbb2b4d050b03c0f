------------------------------ MODULE MCDevice ------------------------------
(***************************************************************************)
(* The device with a listed SIM card and an unlisted one, two changes by   *)
(* the operator, and at most two notifications under way.                  *)
(***************************************************************************)
EXTENDS Device, TLC

CONSTANTS m302720, m901     \* cards of Rogers and of an unlisted operator
CONSTANT m2minternet        \* the APN of the first

MCSims  == {m302720, m901}
MCTable == m302720 :> m2minternet
=============================================================================

--------------------------- MODULE MCLinkWatchdog ---------------------------
(***************************************************************************)
(* The watchdog with the tolerance of the code (4) and room for a few      *)
(* reports beyond it, so that the reboot, and a reboot deferred by a clear *)
(* of the counter, both happen.                                            *)
(***************************************************************************)
EXTENDS LinkWatchdog
=============================================================================

---------------------------- MODULE LinkWatchdog ----------------------------
(***************************************************************************)
(* The recovery logic of cell/lte_connect_mgr.c: a module that sees the    *)
(* cloud session reports whether it is up (lte_application_conn_up), and   *)
(* the device reboots after too many reports of a session that is down,    *)
(* provided the session was up before.                                     *)
(*                                                                         *)
(* The reporter's thread and the shell's thread (lte clear) share the      *)
(* counter without a lock: `link_down_cnt++' is a load and a store, and    *)
(* every statement of the handler is a step of its own.  There is one      *)
(* reporter: the comment of the function names several modules as callers, *)
(* but the repository has none, and two calls at once are not modelled.    *)
(***************************************************************************)
EXTENDS Integers

CONSTANTS LTE_MAX_LINK_DOWN,    \* reports of a session down that are tolerated
          MaxReports            \* bound: reports between two of a session up

ASSUME LinkDownAssumption == LTE_MAX_LINK_DOWN \in Nat /\ MaxReports \in Nat

VARIABLES up,                   \* FALSE between erabort and the next boot
          pc,                   \* where the reporter is in the handler
          link_down_cnt,        \* modem_cblk.link_down_cnt
          reg,                  \* its value between the load and the store
          app_connectivity_up,  \* modem_cblk.app_connectivity_up
          mode,                 \* functional mode of the modem (external)
          reason,               \* history: what called erabort
          downs,                \* history: reports of a session down since the
                                \* last of a session up
          cleared               \* history: the shell cleared the counter since

vars == <<up, pc, link_down_cnt, reg, app_connectivity_up, mode, reason, downs,
          cleared>>

PCs == {"idle", "reset", "get_mode", "set_mode", "load", "store", "test"}

TypeOK ==
    /\ up \in BOOLEAN
    /\ pc \in PCs
    /\ link_down_cnt \in Nat
    /\ reg \in Nat
    /\ app_connectivity_up \in BOOLEAN
    /\ mode \in {"normal", "offline"}
    /\ reason \in {"none", "mode", "link_down", "other"}
    /\ downs \in 0 .. MaxReports
    /\ cleared \in BOOLEAN

Init ==
    /\ up = TRUE
    /\ pc = "idle"
    /\ link_down_cnt = 0
    /\ reg = 0
    /\ app_connectivity_up = FALSE
    /\ mode = "normal"
    /\ reason = "none"
    /\ downs = 0
    /\ cleared = FALSE

\* erabort: the chip resets, with r as the message it logs.
erabort(r) ==
    /\ up' = FALSE
    /\ reason' = r
    /\ UNCHANGED <<pc, link_down_cnt, reg, app_connectivity_up, mode, downs, cleared>>

-----------------------------------------------------------------------------
(* lte_application_conn_up(true): the flag, then the counter.              *)

ReportUp ==
    /\ up /\ pc = "idle"
    /\ app_connectivity_up' = TRUE
    /\ pc' = "reset"
    /\ UNCHANGED <<up, link_down_cnt, reg, mode, reason, downs, cleared>>

\* Mutant of ResetCount: the counter is left as it is.
ResetFlagOnly ==
    /\ up /\ pc = "reset"
    /\ downs' = 0
    /\ cleared' = FALSE
    /\ pc' = "idle"
    /\ UNCHANGED <<up, link_down_cnt, reg, app_connectivity_up, mode, reason>>

ResetCount ==
    /\ up /\ pc = "reset"
    /\ link_down_cnt' = 0
    /\ downs' = 0
    /\ cleared' = FALSE
    /\ pc' = "idle"
    /\ UNCHANGED <<up, reg, app_connectivity_up, mode, reason>>

-----------------------------------------------------------------------------
(* lte_application_conn_up(false).                                         *)

ReportDown ==
    /\ up /\ pc = "idle"
    /\ downs < MaxReports
    /\ pc' = "get_mode"
    /\ UNCHANGED <<up, link_down_cnt, reg, app_connectivity_up, mode, reason,
                   downs, cleared>>

\* lte_lc_func_mode_get, whose failure aborts.
GetMode ==
    /\ up /\ pc = "get_mode"
    /\ \/ /\ pc' = IF mode = "offline" THEN "set_mode" ELSE "load"
          /\ UNCHANGED <<up, link_down_cnt, reg, app_connectivity_up, mode,
                         reason, downs, cleared>>
       \/ erabort("mode")

\* A modem found powered down is pushed back to normal, or the device aborts.
SetMode ==
    /\ up /\ pc = "set_mode"
    /\ \/ /\ mode' = "normal"
          /\ pc' = "load"
          /\ UNCHANGED <<up, link_down_cnt, reg, app_connectivity_up, reason,
                         downs, cleared>>
       \/ erabort("mode")

\* link_down_cnt++
LoadCount ==
    /\ up /\ pc = "load"
    /\ reg' = link_down_cnt
    /\ pc' = "store"
    /\ UNCHANGED <<up, link_down_cnt, app_connectivity_up, mode, reason, downs,
                   cleared>>

\* Mutant of StoreCount: the counter runs backwards.
StoreCountDown ==
    /\ up /\ pc = "store"
    /\ link_down_cnt' = reg - 1
    /\ downs' = downs + 1
    /\ pc' = "test"
    /\ UNCHANGED <<up, reg, app_connectivity_up, mode, reason, cleared>>

StoreCount ==
    /\ up /\ pc = "store"
    /\ link_down_cnt' = reg + 1
    /\ downs' = downs + 1
    /\ pc' = "test"
    /\ UNCHANGED <<up, reg, app_connectivity_up, mode, reason, cleared>>

\* Mutant of TooManyDown: one report too many is tolerated.
TooManyDownLate == app_connectivity_up = TRUE /\ link_down_cnt > LTE_MAX_LINK_DOWN + 1

\* The reboot condition.
TooManyDown == app_connectivity_up = TRUE /\ link_down_cnt > LTE_MAX_LINK_DOWN

TestCount ==
    /\ up /\ pc = "test"
    /\ \/ TooManyDown /\ erabort("link_down")
       \/ /\ ~TooManyDown
          /\ pc' = "idle"
          /\ UNCHANGED <<up, link_down_cnt, reg, app_connectivity_up, mode, reason,
                         downs, cleared>>

-----------------------------------------------------------------------------
\* The shell's `lte clear', at any moment of the reporter's call.  It clears
\* the counter but not the flag.
lte_stats_clear ==
    /\ up
    /\ link_down_cnt' = 0
    /\ cleared' = TRUE
    /\ UNCHANGED <<up, pc, reg, app_connectivity_up, mode, reason, downs>>

\* The modem is powered down behind the module's back (external).
ModemOffline ==
    /\ up /\ mode = "normal"
    /\ mode' = "offline"
    /\ UNCHANGED <<up, pc, link_down_cnt, reg, app_connectivity_up, reason, downs,
                   cleared>>

\* Another module calls erabort.
Reset == up /\ erabort("other")

\* lte_connect_init of the next boot.
lte_connect_init ==
    /\ ~up
    /\ up' = TRUE
    /\ pc' = "idle"
    /\ link_down_cnt' = 0
    /\ reg' = 0
    /\ app_connectivity_up' = FALSE
    /\ mode' = "normal"
    /\ reason' = "none"
    /\ downs' = 0
    /\ cleared' = FALSE

Reporter == \/ ResetCount \/ GetMode \/ SetMode \/ LoadCount \/ StoreCount
            \/ TestCount

Next == \/ ReportUp \/ ReportDown \/ Reporter
        \/ lte_stats_clear \/ ModemOffline \/ Reset \/ lte_connect_init

\* A call that was made runs to its end; nobody owes the module a call.
Spec == Init /\ [][Next]_vars /\ WF_vars(Reporter) /\ WF_vars(lte_connect_init)

-----------------------------------------------------------------------------
(* Properties.                                                             *)

\* The device never reboots for a lost session on fewer reports than the code
\* tolerates since the session was last up, nor before it was ever up (bench
\* and certification tests): a clear that falls between the load and the store
\* of the counter may be overwritten, but never makes the counter exceed the
\* reports.
NoEarlyReboot ==
    reason = "link_down" => app_connectivity_up = TRUE /\ downs > LTE_MAX_LINK_DOWN

\* Between two calls the device is not still running after more reports of a
\* lost session than tolerated: "this function will REBOOT if app connnectivity
\* is down after N successive calls" (lines 119-120), unless a user cleared the
\* counter in between.
RebootsAfterN ==
    (up /\ pc = "idle" /\ app_connectivity_up = TRUE /\ cleared = FALSE)
        => downs <= LTE_MAX_LINK_DOWN
=============================================================================

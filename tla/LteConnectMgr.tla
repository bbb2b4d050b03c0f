--------------------------- MODULE LteConnectMgr ---------------------------
(***************************************************************************)
(* The LTE connection manager of cell/lte_connect_mgr.c: the start-up that *)
(* holds back the rest of the firmware until the first PDP context, the    *)
(* PDP state machine fed by the callback of bsp/modem.c, and the delayed   *)
(* reboot an SMS asks for.  The statistics it counts are left out, and so  *)
(* is lte_application_conn_up, which LinkWatchdog models.                  *)
(*                                                                         *)
(* The main thread, the modem's callbacks, the kernel timer and the SMS    *)
(* centre of the network (external) interleave.  Time passes in ticks;     *)
(* REBOOT_DELAY is the delay of the code, ACK_LATENCY the time the modem   *)
(* needs to acknowledge a message to the SMS centre.                       *)
(***************************************************************************)
EXTENDS Integers

CONSTANTS REBOOT_DELAY,     \* REBOOT_DELAY_MS, in ticks
          ACK_LATENCY,      \* ticks from a delivery to its acknowledgement
          SERIAL_LEN,       \* digits of the device's serial number
          LEN_SER_NUM,      \* digits of it in the command the code expects
          MaxSms            \* bound: messages sent to the device

\* "Setting to 2 minutes to ensure acknowledgement is sent/received"
ASSUME DelayAssumption ==
    /\ REBOOT_DELAY \in Nat /\ ACK_LATENCY \in Nat
    /\ ACK_LATENCY < REBOOT_DELAY

ASSUME SmsAssumption ==
    /\ SERIAL_LEN \in Nat \ {0} /\ LEN_SER_NUM \in Nat \ {0}
    /\ MaxSms \in Nat

VARIABLES up,               \* FALSE between erabort and the next boot
          main,             \* program counter of lte_connect_init
          state,            \* modem_cblk.state
          lte_connected,    \* count of the semaphore
          reboot_delay_timer, \* ticks left, or Off
          smsc,             \* digits in the message being delivered, or Off
          ack,              \* ticks to its acknowledgement, or Off
          sent              \* messages sent so far (bounded by MaxSms)

gateVars == <<main, state, lte_connected>>
smsVars  == <<reboot_delay_timer, smsc, ack, sent>>
vars     == <<up, gateVars, smsVars>>

Off == -1

\* A message is known by how many digits of the serial number follow
\* "REBOOT-" in it: the documented command has all of them, the one the code
\* compares with has LEN_SER_NUM, any other text none.
Messages == {0, LEN_SER_NUM, SERIAL_LEN}

TypeOK ==
    /\ up \in BOOLEAN
    /\ main \in {"init", "blocked", "register", "running"}
    /\ state \in {"MODEM_STARTUP", "MODEM_PDP_DOWN", "MODEM_PDP_UP"}
    /\ lte_connected \in 0 .. 1
    /\ reboot_delay_timer \in Off .. REBOOT_DELAY
    /\ smsc \in Messages \cup {Off}
    /\ ack \in Off .. ACK_LATENCY
    /\ sent \in 0 .. MaxSms

Init ==
    /\ up = TRUE
    /\ main = "init"
    /\ state = "MODEM_STARTUP"
    /\ lte_connected = 0
    /\ reboot_delay_timer = Off
    /\ smsc = Off
    /\ ack = Off
    /\ sent = 0

-----------------------------------------------------------------------------
\* erabort: the chip resets.
erabort ==
    /\ up' = FALSE
    /\ UNCHANGED <<gateVars, smsVars>>

(* The main thread in lte_connect_init.                                    *)

\* Up to lte_lc_connect_async: the modem information, the APN and the PDP
\* callback, any failure of which aborts, then the link controller.
StartLink ==
    /\ up /\ main = "init"
    /\ \/ /\ main' = "blocked"
          /\ state' = "MODEM_STARTUP"
          /\ UNCHANGED <<up, lte_connected, smsVars>>
       \/ erabort

\* Mutant of TakeSem: a take that does not wait and whose result is ignored.
TakeSemNoWait ==
    /\ up /\ main = "blocked"
    /\ lte_connected' = lte_connected - 1
    /\ main' = "register"
    /\ UNCHANGED <<up, state, smsVars>>

\* k_sem_take returns.
TakeSem ==
    /\ up /\ main = "blocked" /\ lte_connected > 0
    /\ lte_connected' = lte_connected - 1
    /\ main' = "register"
    /\ UNCHANGED <<up, state, smsVars>>

\* The timer is initialised and the SMS listener registered.
RegisterSms ==
    /\ up /\ main = "register"
    /\ \/ /\ main' = "running"
          /\ reboot_delay_timer' = Off
          /\ UNCHANGED <<up, state, lte_connected, smsc, ack, sent>>
       \/ erabort

-----------------------------------------------------------------------------
(* PDP context changes, in the modem library's context.  The modem may     *)
(* report either, in any order, once the link controller was started.      *)

\* k_sem_give on a semaphore with a limit of 1.
k_sem_give == lte_connected' = 1

\* Mutants of proc_startup: any event opens the gate; a deactivation leaves the
\* start-up state.
proc_startup_any(flag) ==
    /\ state' = IF flag THEN "MODEM_PDP_UP" ELSE "MODEM_STARTUP"
    /\ k_sem_give

proc_startup_down(flag) ==
    \/ flag /\ state' = "MODEM_PDP_UP" /\ k_sem_give
    \/ ~flag /\ state' = "MODEM_PDP_DOWN" /\ UNCHANGED lte_connected

\* Only the first activation opens the gate; a deactivation before it leaves
\* the machine in start-up.
proc_startup(flag) ==
    \/ flag /\ state' = "MODEM_PDP_UP" /\ k_sem_give
    \/ ~flag /\ state' = "MODEM_STARTUP" /\ UNCHANGED lte_connected

proc_pdp_down(flag) ==
    /\ state' = IF flag THEN "MODEM_PDP_UP" ELSE state
    /\ UNCHANGED lte_connected

proc_pdp_up(flag) ==
    /\ state' = IF flag THEN state ELSE "MODEM_PDP_DOWN"
    /\ UNCHANGED lte_connected

lte_proc_pdp_status(flag) ==
    \/ state = "MODEM_STARTUP" /\ proc_startup(flag)
    \/ state = "MODEM_PDP_DOWN" /\ proc_pdp_down(flag)
    \/ state = "MODEM_PDP_UP" /\ proc_pdp_up(flag)

\* PDN_EVENT_ACTIVATED and PDN_EVENT_DEACTIVATED; other events only log.
pdn_event_handler ==
    /\ up /\ main # "init"
    /\ \E flag \in BOOLEAN : lte_proc_pdp_status(flag)
    /\ UNCHANGED <<up, main, smsVars>>

-----------------------------------------------------------------------------
(* The SMS reboot.                                                         *)

\* Somebody sends the device a message (one at a time, external).
SendSms ==
    /\ smsc = Off /\ sent < MaxSms
    /\ smsc' \in Messages
    /\ sent' = sent + 1
    /\ UNCHANGED <<up, gateVars, reboot_delay_timer, ack>>

\* Mutant of k_timer_start: a running timer is left alone.
k_timer_start_once ==
    reboot_delay_timer' = IF reboot_delay_timer = Off THEN REBOOT_DELAY
                                                      ELSE reboot_delay_timer

\* k_timer_start: a running timer starts over.
k_timer_start == reboot_delay_timer' = REBOOT_DELAY

\* "REBOOT-" is followed by at most LEN_SER_NUM digits of the serial number
\* when the code builds the text it compares a message with.
IsRebootCommand(digits) ==
    digits = IF SERIAL_LEN < LEN_SER_NUM THEN SERIAL_LEN ELSE LEN_SER_NUM

\* The SMS centre delivers the message (again, if a reset came before the
\* acknowledgement) and the listener compares it.
lte_sms_listener ==
    /\ up /\ main = "running"
    /\ smsc # Off /\ ack = Off
    /\ ack' = ACK_LATENCY
    /\ \/ IsRebootCommand(smsc) /\ k_timer_start
       \/ ~IsRebootCommand(smsc) /\ UNCHANGED reboot_delay_timer
    /\ UNCHANGED <<up, gateVars, smsc, sent>>

\* The acknowledgement reaches the SMS centre, which forgets the message.
SmsAcked ==
    /\ up /\ ack = 0
    /\ ack' = Off
    /\ smsc' = Off
    /\ UNCHANGED <<up, gateVars, reboot_delay_timer, sent>>

\* A tick passes for the timer and the acknowledgement, unless one is due.
Tick ==
    /\ up
    /\ reboot_delay_timer # 0 /\ ack # 0
    /\ reboot_delay_timer > 0 \/ ack > 0
    /\ reboot_delay_timer' = IF reboot_delay_timer > 0 THEN reboot_delay_timer - 1
                                                       ELSE reboot_delay_timer
    /\ ack' = IF ack > 0 THEN ack - 1 ELSE ack
    /\ UNCHANGED <<up, gateVars, smsc, sent>>

\* Mutant of lte_reboot_tmr_exp: it defers to the state of the link.
lte_reboot_tmr_exp_linked ==
    up /\ reboot_delay_timer = 0 /\ state = "MODEM_PDP_UP" /\ erabort

lte_reboot_tmr_exp == up /\ reboot_delay_timer = 0 /\ erabort

-----------------------------------------------------------------------------
\* Another module calls erabort.
Reset == up /\ erabort

\* The next boot: RAM is fresh, an acknowledgement under way is lost, and the
\* SMS centre still has what was not acknowledged.
Boot ==
    /\ ~up
    /\ up' = TRUE
    /\ main' = "init"
    /\ state' = "MODEM_STARTUP"
    /\ lte_connected' = 0
    /\ reboot_delay_timer' = Off
    /\ ack' = Off
    /\ UNCHANGED <<smsc, sent>>

Next == \/ StartLink \/ TakeSem \/ RegisterSms
        \/ pdn_event_handler
        \/ SendSms \/ lte_sms_listener \/ SmsAcked \/ Tick \/ lte_reboot_tmr_exp
        \/ Reset \/ Boot

\* The scheduler runs a ready main thread, time passes, a due timer expires, a
\* due acknowledgement arrives and a reset chip boots.  The network owes
\* neither a PDP context nor a message.
Fairness == /\ WF_vars(StartLink)
            /\ WF_vars(TakeSem)
            /\ WF_vars(RegisterSms)
            /\ WF_vars(Tick)
            /\ WF_vars(SmsAcked)
            /\ WF_vars(lte_reboot_tmr_exp)
            /\ WF_vars(Boot)

Spec == Init /\ [][Next]_vars /\ Fairness

-----------------------------------------------------------------------------
(* Properties.                                                             *)

\* The rest of the firmware starts only after a PDP context has come up in
\* this boot, and the gate opens once: the semaphore is given only while the
\* main thread waits for it, whatever the network reports later.
StartupGate ==
    /\ main \in {"register", "running"} => state # "MODEM_STARTUP"
    /\ lte_connected = 1 => main = "blocked" /\ state # "MODEM_STARTUP"

\* A PDP context that comes up starts the device, however often contexts went
\* down before, and even if this one is lost before the main thread runs.
GateOpens == state = "MODEM_PDP_UP" ~> (main = "running" \/ ~up)

\* The reboot an SMS commands comes after the SMS centre has the
\* acknowledgement, also when a second command arrives while the timer of the
\* first one runs: no command is delivered again after its own reboot.
RebootAcked ==
    (up /\ reboot_delay_timer = 0) => ~(smsc # Off /\ ack # Off /\ IsRebootCommand(smsc))

\* An accepted command reboots the device in the end.  (The messages are
\* finitely many: each further command restarts the delay.)
RebootHappens == (up /\ reboot_delay_timer # Off) ~> ~up
=============================================================================

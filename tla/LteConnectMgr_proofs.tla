----------------------- MODULE LteConnectMgr_proofs -----------------------
(***************************************************************************)
(* Proofs about the LTE connection manager, for every delay, latency and   *)
(* number of messages that satisfy its assumptions.                        *)
(*                                                                         *)
(* The argument for the gate: the machine leaves start-up only with the    *)
(* first activation, which is the one that gives the semaphore, and it     *)
(* never returns.  For the reboot: a command waiting for its               *)
(* acknowledgement is always closer to it than the timer is to its expiry, *)
(* because every command starts the timer over.                            *)
(***************************************************************************)
EXTENDS LteConnectMgr, TLAPS

\* Before the link is started nothing has happened, and as long as the machine
\* is in start-up the semaphore was not given.
Fresh == /\ main = "init" => state = "MODEM_STARTUP"
         /\ state = "MODEM_STARTUP" => lte_connected = 0

\* Only a message being delivered is acknowledged, and a command in that
\* position is ahead of the timer it started.
AckFirst == /\ ack # Off => smsc # Off
            /\ (ack # Off /\ IsRebootCommand(smsc) /\ reboot_delay_timer # Off)
                   => ack < reboot_delay_timer

IInv == TypeOK /\ StartupGate /\ Fresh /\ AckFirst

-----------------------------------------------------------------------------
\* A reset leaves the invariant as it is.
LEMMA AbortInv == IInv /\ erabort => IInv'
BY DEF IInv, erabort, gateVars, smsVars, TypeOK, StartupGate, Fresh, AckFirst,
       IsRebootCommand

\* A step that leaves the SMS side alone keeps its part of the invariant.
LEMMA SmsUnchanged ==
    ASSUME IInv, UNCHANGED smsVars
    PROVE  AckFirst'
BY DEF IInv, smsVars, AckFirst, IsRebootCommand

\* A step that leaves the gate alone keeps its part.
LEMMA GateUnchanged ==
    ASSUME IInv, UNCHANGED gateVars
    PROVE  StartupGate' /\ Fresh'
BY DEF IInv, gateVars, StartupGate, Fresh

\* The invariant holds initially.
LEMMA InitInv == Init => IInv
BY DelayAssumption, SmsAssumption
DEF Init, IInv, TypeOK, StartupGate, Fresh, AckFirst, Off

\* Every step keeps the invariant.
LEMMA StepInv == IInv /\ [Next]_vars => IInv'
<1> SUFFICES ASSUME IInv, [Next]_vars PROVE IInv'
  OBVIOUS
<1> USE DelayAssumption, SmsAssumption
<1>1. CASE StartLink
  <2>1. CASE erabort
    BY <2>1, AbortInv
  <2>2. CASE ~erabort
    <3>1. AckFirst'
      BY <1>1, <2>2, SmsUnchanged DEF StartLink
    <3> QED
      BY <1>1, <2>2, <3>1
      DEF StartLink, smsVars, IInv, TypeOK, StartupGate, Fresh
  <2> QED BY <2>1, <2>2
<1>2. CASE TakeSem
  <2>1. AckFirst'
    BY <1>2, SmsUnchanged DEF TakeSem
  <2> QED
    BY <1>2, <2>1 DEF TakeSem, smsVars, IInv, TypeOK, StartupGate, Fresh
<1>3. CASE RegisterSms
  <2>1. CASE erabort
    BY <2>1, AbortInv
  <2>2. CASE ~erabort
    <3>1. /\ main = "register" /\ main' = "running" /\ reboot_delay_timer' = Off
          /\ UNCHANGED <<up, state, lte_connected, smsc, ack, sent>>
      BY <1>3, <2>2 DEF RegisterSms
    <3>2. StartupGate' /\ Fresh'
      BY <3>1 DEF IInv, StartupGate, Fresh
    <3>3. AckFirst'
      BY <3>1 DEF IInv, AckFirst
    <3> QED
      BY <3>1, <3>2, <3>3 DEF IInv, TypeOK, Off
  <2> QED BY <2>1, <2>2
<1>4. CASE pdn_event_handler
  <2>1. AckFirst'
    BY <1>4, SmsUnchanged DEF pdn_event_handler
  <2> QED
    BY <1>4, <2>1
    DEF pdn_event_handler, lte_proc_pdp_status, proc_startup, proc_pdp_down,
        proc_pdp_up, k_sem_give, smsVars, IInv, TypeOK, StartupGate, Fresh
<1>5. CASE SendSms
  <2>1. StartupGate' /\ Fresh'
    BY <1>5, GateUnchanged DEF SendSms
  <2>2. AckFirst'
    BY <1>5 DEF SendSms, IInv, AckFirst
  <2> QED
    BY <1>5, <2>1, <2>2 DEF SendSms, gateVars, IInv, TypeOK
<1>6. CASE lte_sms_listener
  <2>1. StartupGate' /\ Fresh'
    BY <1>6, GateUnchanged DEF lte_sms_listener
  <2>2. AckFirst'
    BY <1>6
    DEF lte_sms_listener, k_timer_start, IInv, AckFirst, IsRebootCommand
  <2> QED
    BY <1>6, <2>1, <2>2
    DEF lte_sms_listener, k_timer_start, gateVars, IInv, TypeOK, Off
<1>7. CASE SmsAcked
  <2>1. StartupGate' /\ Fresh'
    BY <1>7, GateUnchanged DEF SmsAcked
  <2> QED
    BY <1>7, <2>1 DEF SmsAcked, gateVars, IInv, TypeOK, AckFirst, Off
<1>8. CASE Tick
  <2>1. StartupGate' /\ Fresh'
    BY <1>8, GateUnchanged DEF Tick
  <2> QED
    BY <1>8, <2>1
    DEF Tick, gateVars, IInv, TypeOK, AckFirst, Off, IsRebootCommand
<1>9. CASE lte_reboot_tmr_exp \/ Reset
  BY <1>9, AbortInv DEF lte_reboot_tmr_exp, Reset
<1>10. CASE Boot
  BY <1>10 DEF Boot, IInv, TypeOK, StartupGate, Fresh, AckFirst, Off
<1>11. CASE UNCHANGED vars
  <2>1. StartupGate' /\ Fresh' /\ AckFirst'
    BY <1>11, GateUnchanged, SmsUnchanged DEF vars
  <2> QED
    BY <1>11, <2>1 DEF vars, gateVars, smsVars, IInv, TypeOK
<1> QED
  BY <1>1, <1>2, <1>3, <1>4, <1>5, <1>6, <1>7, <1>8, <1>9, <1>10, <1>11 DEF Next

\* The inductive invariant holds in every state of every behaviour.
LEMMA Invariance == Spec => []IInv
<1>1. IInv /\ [Next]_vars => IInv'
  BY StepInv
<1> QED BY <1>1, InitInv, PTL DEF Spec

\* The variables keep their types.
THEOREM TypeCorrect == Spec => []TypeOK
<1>1. IInv => TypeOK
  BY DEF IInv
<1> QED BY <1>1, Invariance, PTL

\* The firmware starts after the first PDP context and the gate opens once.
THEOREM GateCorrect == Spec => []StartupGate
<1>1. IInv => StartupGate
  BY DEF IInv
<1> QED BY <1>1, Invariance, PTL

\* The commanded reboot never comes before the acknowledgement of a command.
THEOREM AckBeforeReboot == Spec => []RebootAcked
<1>1. IInv => RebootAcked
  BY DEF IInv, TypeOK, AckFirst, RebootAcked, Off
<1> QED BY <1>1, Invariance, PTL
=============================================================================

---------------------------- MODULE Device_proofs ----------------------------
(***************************************************************************)
(* Proofs about the whole device, for every SIM card, table of operators,  *)
(* queue size and number of changes and notifications.                     *)
(*                                                                         *)
(* The device takes no step that is not one of the connector's and one of  *)
(* the gate's, or leaves them alone.  So what AwsConnector_proofs and      *)
(* LteConnectMgr_proofs show of these alone holds in the device, and the   *)
(* invariant of this module has only to say what ties them together: the   *)
(* boot's order (Started), the context (Informed), the card (Identified)   *)
(* and the versions on their way (Ordered, Answered).                      *)
(***************************************************************************)
EXTENDS Device, SequenceTheorems, TLAPS

\* What is proved of the connector and of the gate by themselves.
AwsP == INSTANCE AwsConnector_proofs
LteP == INSTANCE LteConnectMgr_proofs WITH
            state <- modem_state,
            REBOOT_DELAY <- 1, ACK_LATENCY <- 0, SERIAL_LEN <- 1, LEN_SER_NUM <- 1,
            MaxSms <- 0, reboot_delay_timer <- -1, smsc <- -1, ack <- -1,
            sent <- 0

\* The gate waits once the link was started, which is after the callback was
\* set up; before, there is no context and nothing to be told.
Started ==
    /\ main = "init" <=> boot # "done"
    /\ boot \in {"apn", "link", "done"} => registered
    /\ link => boot = "done"
    /\ ~link => ~pdn /\ notices = <<>>

\* The last thing the manager was told, or will be, is how things are.
Informed ==
    /\ notices # <<>> => notices[Len(notices)] = pdn
    /\ boot = "done" /\ notices = <<>> => (modem_state = "MODEM_PDP_UP" <=> pdn)

\* From the second initialisation on the modem can be asked; what the lookup
\* has made of the card depends on its power alone.
Identified ==
    /\ boot \in {"iccid", "pdp", "apn", "link", "done"} => info
    /\ boot \in {"link", "done"} =>
          apn = IF uicc /\ sim \in DOMAIN apn_lookup_table THEN apn_lookup_table[sim]
                                                           ELSE DefaultApn

\* Versions do not decrease from the files to the cloud, but for a late one.
Ordered ==
    /\ stored <= desired
    /\ \A i \in 1 .. Len(net) : net[i] <= desired
    /\ "late" \notin mishaps =>
          /\ \A i \in 1 .. Len(net) : stored <= net[i]
          /\ \A i, j \in 1 .. Len(net) : i < j => net[i] <= net[j]

\* What the files will have when every message under way is decoded.
Upcoming == IF net = <<>> THEN stored ELSE net[Len(net)]

\* The shadow asked for, and not lost on its way, makes up for all changes
\* before it; the changes after it are sent.
Answered ==
    /\ callback = "decoding" => net # <<>>
    /\ (up /\ client = "ready" /\ state = 3 /\ mishaps \cap {"no_send", "late"} = {})
          => Upcoming = desired

IInv == /\ TypeOK /\ AwsP!IInv /\ LteP!IInv
        /\ Started /\ Informed /\ Identified /\ Ordered /\ Answered

-----------------------------------------------------------------------------
(* The modules the proofs are about are those the device is made of.       *)

\* The connector, under its two names.
LEMMA AwsSame ==
    /\ Aws!Init <=> AwsP!Init
    /\ Aws!Next <=> AwsP!Next
    /\ Aws!vars = AwsP!vars
    /\ Aws!TypeOK <=> AwsP!TypeOK
BY DEF
  Aws!Init, Aws!Next, Aws!vars, Aws!TypeOK, Aws!Thread, Aws!Client, Aws!Reset,
  Aws!erabort, Aws!aws_connector_init, Aws!TaskInit, Aws!TaskConnect,
  Aws!ProcessEvent, Aws!RequestShadow, Aws!SendReturns, Aws!OnConnecting,
  Aws!OnConnected, Aws!OnReady, Aws!OnDisconnected, Aws!OnDataReceived,
  Aws!DataDecoded, Aws!aws_iot_event_handler, Aws!k_msgq_put, Aws!QueueFull,
  Aws!Requests, Aws!NextState, Aws!aws_offline_state, Aws!aws_connecting_state,
  Aws!aws_connected_state, Aws!States, Aws!Events, Aws!Threads, Aws!Callbacks,
  Aws!Clients, Aws!AWS_STATE_OFFLINE, Aws!AWS_STATE_CONNECTING,
  Aws!AWS_STATE_CONNECTED, Aws!AWS_STATE_READY, Aws!AWS_STATE_DISCONNECTING,
  Aws!AWS_EVENT_CONNECTING, Aws!AWS_EVENT_CONNECTED, Aws!AWS_EVENT_READY,
  Aws!AWS_EVENT_DISCONNECTED, Aws!AWS_IOT_SHADOW_RECEIVED,
  AwsP!Init, AwsP!Next, AwsP!vars, AwsP!TypeOK, AwsP!Thread, AwsP!Client, AwsP!Reset,
  AwsP!erabort, AwsP!aws_connector_init, AwsP!TaskInit, AwsP!TaskConnect,
  AwsP!ProcessEvent, AwsP!RequestShadow, AwsP!SendReturns, AwsP!OnConnecting,
  AwsP!OnConnected, AwsP!OnReady, AwsP!OnDisconnected, AwsP!OnDataReceived,
  AwsP!DataDecoded, AwsP!aws_iot_event_handler, AwsP!k_msgq_put, AwsP!QueueFull,
  AwsP!Requests, AwsP!NextState, AwsP!aws_offline_state, AwsP!aws_connecting_state,
  AwsP!aws_connected_state, AwsP!States, AwsP!Events, AwsP!Threads, AwsP!Callbacks,
  AwsP!Clients, AwsP!AWS_STATE_OFFLINE, AwsP!AWS_STATE_CONNECTING,
  AwsP!AWS_STATE_CONNECTED, AwsP!AWS_STATE_READY, AwsP!AWS_STATE_DISCONNECTING,
  AwsP!AWS_EVENT_CONNECTING, AwsP!AWS_EVENT_CONNECTED, AwsP!AWS_EVENT_READY,
  AwsP!AWS_EVENT_DISCONNECTED, AwsP!AWS_IOT_SHADOW_RECEIVED

\* The gate, under its two names.
LEMMA LteSame ==
    /\ Lte!Init <=> LteP!Init
    /\ Lte!Next <=> LteP!Next
    /\ Lte!vars = LteP!vars
    /\ Lte!TypeOK <=> LteP!TypeOK
BY DEF
  Lte!Init, Lte!Next, Lte!vars, Lte!TypeOK, Lte!gateVars, Lte!smsVars, Lte!Off,
  Lte!Messages, Lte!erabort, Lte!StartLink, Lte!TakeSem, Lte!RegisterSms,
  Lte!pdn_event_handler, Lte!lte_proc_pdp_status, Lte!proc_startup,
  Lte!proc_pdp_down, Lte!proc_pdp_up, Lte!k_sem_give, Lte!SendSms,
  Lte!lte_sms_listener, Lte!IsRebootCommand, Lte!k_timer_start, Lte!SmsAcked,
  Lte!Tick, Lte!lte_reboot_tmr_exp, Lte!Reset, Lte!Boot,
  LteP!Init, LteP!Next, LteP!vars, LteP!TypeOK, LteP!gateVars, LteP!smsVars, LteP!Off,
  LteP!Messages, LteP!erabort, LteP!StartLink, LteP!TakeSem, LteP!RegisterSms,
  LteP!pdn_event_handler, LteP!lte_proc_pdp_status, LteP!proc_startup,
  LteP!proc_pdp_down, LteP!proc_pdp_up, LteP!k_sem_give, LteP!SendSms,
  LteP!lte_sms_listener, LteP!IsRebootCommand, LteP!k_timer_start, LteP!SmsAcked,
  LteP!Tick, LteP!lte_reboot_tmr_exp, LteP!Reset, LteP!Boot

-----------------------------------------------------------------------------
(* Every step of the device is one of each component, or leaves it alone.  *)

\* The steps of the boot before the link is started.
EarlyBoot == \/ SetLeds \/ InitModemInfo \/ LoadConfig \/ InitLteInfo \/ ReadIccid
             \/ InitPdp \/ ConfigureApn

LEMMA AwsStep ==
    ASSUME [Next]_vars
    PROVE  [Aws!Next]_(Aws!vars)
<1> DEFINE Same == UNCHANGED <<up, awsVars>>
<1>1. EarlyBoot => Same
  BY DEF EarlyBoot, SetLeds, InitModemInfo, LoadConfig, InitLteInfo, ReadIccid, InitPdp,
         ConfigureApn, Advance
<1>2. StartLink \/ pdn_event_handler \/ Network \/ Change \/ Late => Same
  BY DEF StartLink, pdn_event_handler, Network, Change, Late
<1>3. FailBoot \/ Reset => Aws!Reset
  BY DEF FailBoot, Reset, erabort, awsVars, Aws!Reset, Aws!erabort
<1>4. PassGate => Same \/ Aws!Reset
  BY DEF PassGate, Lte!TakeSem, Lte!RegisterSms, Lte!erabort, awsVars, Aws!Reset,
         Aws!erabort
<1>5. Thread => Aws!Thread
  BY DEF Thread, Connect, Request, Aws!Thread
<1>6. Dial \/ Drop \/ Receive \/ Decode => Aws!Client
  BY DEF Dial, Drop, Receive, Decode, Aws!Client
<1>7. Boot => Aws!aws_connector_init
  BY DEF Boot
<1>8. UNCHANGED vars => Same
  BY DEF vars
<1>9. Same => UNCHANGED Aws!vars
  BY DEF awsVars, Aws!vars
<1> HIDE DEF Same
<1> QED BY <1>1, <1>2, <1>3, <1>4, <1>5, <1>6, <1>7, <1>8, <1>9
        DEF Next, Main, EarlyBoot, Aws!Next

LEMMA LteStep ==
    ASSUME IInv, [Next]_vars
    PROVE  [Lte!Next]_(Lte!vars)
<1> DEFINE Same == UNCHANGED <<up, gateVars>>
<1>1. EarlyBoot => Same
  BY DEF EarlyBoot, SetLeds, InitModemInfo, LoadConfig, InitLteInfo, ReadIccid, InitPdp,
         ConfigureApn, Advance
<1>2. Network \/ Change \/ Late => Same
  BY DEF Network, Change, Late
<1>3. StartLink \/ PassGate => Lte!StartLink \/ Lte!TakeSem \/ Lte!RegisterSms
  BY DEF StartLink, PassGate
<1>4. FailBoot \/ Reset => Lte!Reset
  BY DEF FailBoot, Reset, erabort, gateVars, Lte!Reset, Lte!erabort, Lte!gateVars,
         Lte!smsVars
<1>5. pdn_event_handler => Lte!pdn_event_handler
  <2> SUFFICES ASSUME pdn_event_handler PROVE Lte!pdn_event_handler
    OBVIOUS
  <2>1. notices # <<>> /\ Head(notices) \in BOOLEAN
    BY HeadTailProperties DEF pdn_event_handler, TakeNotice, IInv, TypeOK, ModemTypeOK
  <2>2. main # "init"
    BY <2>1 DEF IInv, Started
  <2> QED BY <2>1, <2>2 DEF pdn_event_handler, Lte!pdn_event_handler, Lte!smsVars
<1>6. Thread => Same \/ Lte!Reset
  BY DEF Thread, Connect, Request, Aws!TaskInit, Aws!TaskConnect, Aws!ProcessEvent,
         Aws!RequestShadow, Aws!SendReturns, Aws!erabort, gateVars, Lte!Reset,
         Lte!erabort, Lte!gateVars, Lte!smsVars
<1>7. Dial \/ Drop \/ Receive \/ Decode => Same \/ Lte!Reset
  BY DEF Dial, Drop, Receive, Decode, Aws!OnConnecting, Aws!OnConnected, Aws!OnReady,
         Aws!OnDisconnected, Aws!OnDataReceived, Aws!DataDecoded,
         Aws!aws_iot_event_handler, Aws!erabort, gateVars, Lte!Reset, Lte!erabort,
         Lte!gateVars, Lte!smsVars
<1>8. Boot => Lte!Boot
  BY DEF Boot
<1>9. UNCHANGED vars => Same
  BY DEF vars
<1>10. Same => UNCHANGED Lte!vars
  BY DEF gateVars, Lte!vars, Lte!gateVars, Lte!smsVars
<1> HIDE DEF Same
<1> QED BY <1>1, <1>2, <1>3, <1>4, <1>5, <1>6, <1>7, <1>8, <1>9, <1>10
        DEF Next, Main, EarlyBoot, Lte!Next

\* So the components keep their invariants in the device.
LEMMA ComponentsKeep ==
    ASSUME IInv, [Next]_vars
    PROVE  AwsP!IInv' /\ LteP!IInv'
<1>1. AwsP!IInv'
  <2>1. [AwsP!Next]_(AwsP!vars)
    BY AwsStep, AwsSame DEF Aws!vars, AwsP!vars
  <2> QED BY <2>1, AwsP!StepInv, QueueAssumption DEF IInv, AwsP!vars
<1>2. LteP!IInv'
  <2>1. [LteP!Next]_(LteP!vars)
    BY LteStep, LteSame DEF Lte!vars, Lte!gateVars, Lte!smsVars, LteP!vars, LteP!gateVars,
       LteP!smsVars
  <2> QED BY <2>1, LteP!StepInv DEF IInv, LteP!vars, LteP!gateVars, LteP!smsVars
<1> QED BY <1>1, <1>2

-----------------------------------------------------------------------------
(* The boot, the card and the context.                                     *)

\* The part of the invariant about them.
BootSide == /\ boot \in Boots /\ ModemTypeOK
            /\ Started /\ Informed /\ Identified

\* A step that leaves them alone keeps it.
LEMMA BootUnchanged ==
    ASSUME BootSide, UNCHANGED <<boot, modemVars, modem_state>>,
           main' = "init" <=> main = "init"
    PROVE  BootSide'
BY DEF BootSide, modemVars, cardVars, pdnVars, ModemTypeOK, Started, Informed,
       Identified

LEMMA BootStep ==
    ASSUME IInv, [Next]_vars
    PROVE  BootSide'
<1> BootSide
  BY DEF IInv, TypeOK, BootSide
<1> DEFINE Same == /\ UNCHANGED <<boot, modemVars, modem_state>>
                   /\ main' = "init" <=> main = "init"
<1>1. ASSUME EarlyBoot PROVE BootSide'
  <2> USE <1>1 DEF Advance, gateVars, modemVars, cardVars, pdnVars, Boots
  <2>1. Started' /\ boot' \in Boots
    BY DEF EarlyBoot, SetLeds, InitModemInfo, LoadConfig, InitLteInfo, ReadIccid, InitPdp,
           ConfigureApn, modem_info_init, modem_get_iccid, modem_init_pdp,
           modem_lookup_apn, BootSide, Started
  <2>2. Informed'
    BY DEF EarlyBoot, SetLeds, InitModemInfo, LoadConfig, InitLteInfo, ReadIccid, InitPdp,
           ConfigureApn, modem_info_init, modem_get_iccid, modem_init_pdp,
           modem_lookup_apn, BootSide, Informed
  <2>3. ModemTypeOK' /\ Identified'
    <3>1. CASE SetLeds \/ InitModemInfo \/ LoadConfig \/ InitLteInfo \/ ReadIccid \/ InitPdp
      <4>1. /\ UNCHANGED <<apn, sim, link, pdn, notices>>
            /\ info' \in BOOLEAN /\ registered' \in BOOLEAN /\ uicc' \in BOOLEAN
            /\ boot' \notin {"link", "done"}
            /\ boot' \in {"iccid", "pdp", "apn"} => info'
        <5> /\ info \in BOOLEAN /\ registered \in BOOLEAN /\ uicc \in BOOLEAN
            /\ boot \in {"iccid", "pdp", "apn"} => info
          BY DEF BootSide, ModemTypeOK, Identified
        <5>1. CASE SetLeds
          BY <5>1 DEF SetLeds
        <5>2. CASE InitModemInfo
          <6>1. PICK ok \in BOOLEAN : modem_info_init(ok)
            BY <5>2 DEF InitModemInfo
          <6>2. info' \in BOOLEAN
            BY <6>1, Zenon DEF modem_info_init
          <6> QED BY <5>2, <6>1, <6>2 DEF InitModemInfo, modem_info_init
        <5>3. CASE InitLteInfo
          <6>1. info' = TRUE
            BY <5>3, Zenon DEF InitLteInfo, modem_info_init
          <6> QED BY <5>3, <6>1 DEF InitLteInfo, modem_info_init
        <5>4. CASE LoadConfig \/ ReadIccid
          BY <5>4 DEF LoadConfig, ReadIccid, modem_get_iccid
        <5>5. CASE InitPdp
          BY <5>5 DEF InitPdp, modem_init_pdp
        <5> QED BY <3>1, <5>1, <5>2, <5>3, <5>4, <5>5
      <4>2. ModemTypeOK'
        BY <4>1 DEF BootSide, ModemTypeOK
      <4>3. Identified'
        BY <4>1 DEF Identified
      <4> QED
        BY <4>2, <4>3
    <3>2. CASE ConfigureApn
      <4>1. /\ boot = "apn" /\ boot' = "link"
            /\ apn' = IF Imsi \in DOMAIN apn_lookup_table THEN apn_lookup_table[Imsi]
                                                          ELSE DefaultApn
            /\ UNCHANGED <<info, sim, uicc, registered, link, pdn, notices>>
        BY <3>2 DEF ConfigureApn, modem_lookup_apn
      <4>2. info
        BY <4>1 DEF BootSide, Identified
      <4>3. Imsi = IF uicc THEN sim ELSE NoSim
        BY <4>2 DEF Imsi
      <4>4. Identified'
        BY <4>1, <4>2, <4>3, TableAssumption DEF Identified
      <4>5. ModemTypeOK'
        BY <4>1 DEF BootSide, ModemTypeOK
      <4> QED
        BY <4>4, <4>5
    <3> QED BY <1>1, <3>1, <3>2 DEF EarlyBoot
  <2> QED BY <2>1, <2>2, <2>3 DEF BootSide
<1>2. ASSUME StartLink PROVE BootSide'
  <2>1. /\ boot = "link" /\ boot' = "done" /\ main = "init"
        /\ link' \in BOOLEAN
        /\ UNCHANGED <<cardVars, registered, pdn, notices>>
    BY <1>2 DEF StartLink, Lte!StartLink, lte_lc_connect_async
  <2>2. main' # "init" /\ modem_state' = "MODEM_STARTUP"
    BY <1>2 DEF StartLink, Lte!StartLink, Lte!erabort
  <2>3. ~link /\ ~pdn /\ notices = <<>>
    BY <2>1 DEF BootSide, Started
  <2> QED
    BY <2>1, <2>2, <2>3 DEF BootSide, cardVars, ModemTypeOK, Started, Informed, Identified,
       Boots
<1>3. ASSUME pdn_event_handler PROVE BootSide'
  <2> DEFINE h == Head(notices)
  <2>1. /\ notices # <<>> /\ notices' = Tail(notices)
        /\ UNCHANGED <<boot, main, cardVars, registered, link, pdn>>
    BY <1>3 DEF pdn_event_handler, TakeNotice
  <2>2. notices \in Seq(BOOLEAN) /\ Len(notices) <= MaxNotices
    BY DEF BootSide, ModemTypeOK
  <2>3. /\ h \in BOOLEAN /\ h = notices[1]
        /\ Tail(notices) \in Seq(BOOLEAN) /\ Len(Tail(notices)) = Len(notices) - 1
        /\ Len(notices) \in Nat /\ Len(notices) >= 1
        /\ \A i \in 1 .. Len(notices) - 1 : Tail(notices)[i] = notices[i + 1]
    BY <2>1, <2>2
  <2>4. modem_state' = "MODEM_PDP_UP" <=> h
    BY <1>3, <2>3 DEF pdn_event_handler, Lte!lte_proc_pdp_status, Lte!proc_startup,
       Lte!proc_pdp_down, Lte!proc_pdp_up
  <2>5. Informed'
    <3>1. CASE Tail(notices) = <<>>
      <4>1. Len(notices) = 1
        BY <2>3, <3>1
      <4>2. h = pdn
        BY <2>1, <2>3, <4>1 DEF BootSide, Informed
      <4> QED BY <2>1, <2>4, <3>1, <4>2 DEF Informed
    <3>2. CASE Tail(notices) # <<>>
      <4>1. Len(Tail(notices)) >= 1
        BY <2>3, <3>2
      <4>2. Tail(notices)[Len(Tail(notices))] = notices[Len(notices)]
        BY <2>3, <4>1
      <4> QED BY <2>1, <3>2, <4>2 DEF BootSide, Informed
    <3> QED BY <3>1, <3>2
  <2>6. ModemTypeOK'
    BY <2>1, <2>2, <2>3, NoticesAssumption DEF BootSide, ModemTypeOK, cardVars
  <2>7. link
    BY <2>1 DEF BootSide, Started
  <2> QED
    BY <2>1, <2>5, <2>6, <2>7 DEF BootSide, Started, Identified, cardVars
<1>4. ASSUME Network PROVE BootSide'
  <2>1. /\ link /\ Len(notices) < MaxNotices /\ pdn' \in BOOLEAN
        /\ notices' = IF registered THEN Append(notices, pdn') ELSE notices
        /\ UNCHANGED <<boot, main, modem_state, cardVars, registered, link>>
    BY <1>4 DEF Network, ContextChanges, gateVars
  <2>2. registered
    BY <2>1 DEF BootSide, Started
  <2>3. notices \in Seq(BOOLEAN)
    BY DEF BootSide, ModemTypeOK
  <2>4. /\ notices' = Append(notices, pdn') /\ notices' \in Seq(BOOLEAN)
        /\ Len(notices) \in Nat /\ Len(notices') = Len(notices) + 1
        /\ notices'[Len(notices) + 1] = pdn' /\ notices' # <<>>
    BY <2>1, <2>2, <2>3
  <2>5. Informed'
    BY <2>4 DEF Informed
  <2>6. ModemTypeOK'
    BY <2>1, <2>4, NoticesAssumption DEF BootSide, ModemTypeOK, cardVars
  <2> QED
    BY <2>1, <2>5, <2>6 DEF BootSide, Started, Identified, cardVars
<1>5. ASSUME Boot PROVE BootSide'
  <2>1. /\ boot' = "leds" /\ main' = "init"
        /\ info' = FALSE /\ sim' \in Sims /\ uicc' = FALSE
        /\ apn' = NoApn /\ registered' = FALSE /\ link' = FALSE /\ pdn' = FALSE
        /\ notices' = <<>>
    BY <1>5 DEF Boot, Lte!Boot, ModemReset
  <2>2. ModemTypeOK'
    <3>1. notices' \in Seq(BOOLEAN) /\ Len(notices') <= MaxNotices
      BY <2>1, NoticesAssumption
    <3> QED BY <2>1, <3>1 DEF ModemTypeOK
  <2>3. Started' /\ Informed'
    BY <2>1 DEF Started, Informed
  <2>4. boot' \in Boots /\ Identified'
    BY <2>1 DEF Boots, Identified
  <2> QED BY <2>2, <2>3, <2>4 DEF BootSide
<1>6. FailBoot \/ Reset \/ Thread \/ Change \/ Late => Same
  BY DEF FailBoot, Reset, erabort, Thread, Connect, Request, Change, Late, gateVars
<1>7. Dial \/ Drop \/ Receive \/ Decode => Same
  BY DEF Dial, Drop, Receive, Decode, gateVars
<1>8. PassGate => Same
  BY DEF PassGate, Lte!TakeSem, Lte!RegisterSms, Lte!erabort, Lte!gateVars
<1>9. UNCHANGED vars => Same
  BY DEF vars, gateVars
<1>10. Same => BootSide'
  BY BootUnchanged
<1> HIDE DEF Same
<1> QED BY <1>1, <1>2, <1>3, <1>4, <1>5, <1>6, <1>7, <1>8, <1>9, <1>10
        DEF Next, Main, EarlyBoot

-----------------------------------------------------------------------------
(* The cloud and the versions on their way.                                *)

\* The part of the invariant about them.
CloudSide == /\ net \in Seq(0 .. MaxVersion)
             /\ stored \in 0 .. MaxVersion /\ desired \in 0 .. MaxVersion
             /\ mishaps \subseteq Mishaps
             /\ Ordered /\ Answered

\* The one step that makes an ignored session count again is taken before the
\* shadow was asked for.
LEMMA NotYetReady ==
    ASSUME IInv, client # "ready", state = 3
    PROVE  client # "connected"
<1>1. /\ AwsP!Base = 3 /\ AwsP!Base <= announced
  BY DEF IInv, AwsP!IInv, AwsP!Progress, AwsP!Base, AwsP!AWS_STATE_READY
<1>2. client = "connected" => announced = 2
  BY DEF IInv, AwsP!IInv, AwsP!Session
<1> QED BY <1>1, <1>2

\* The thread alone does not reach READY: only the return of a request does.
LEMMA EventIsNotReady ==
    ASSUME IInv, [Next]_vars, thread = "wait", thread' = "wait", sends' = sends
    PROVE  state' = 3 <=> state = 3
<1>1. sends = IF state = 3 THEN 1 ELSE 0
  BY DEF IInv, AwsP!IInv, AwsP!Progress, AwsP!Base, AwsP!AWS_STATE_READY
<1>2. sends' = IF state' = 3 THEN 1 ELSE 0
  BY ComponentsKeep DEF AwsP!IInv, AwsP!Progress, AwsP!Base, AwsP!AWS_STATE_READY
<1> QED BY <1>1, <1>2

\* A step that sends and decodes nothing keeps it, if it makes no session ready.
LEMMA CloudUnchanged ==
    ASSUME CloudSide, UNCHANGED cloudVars,
           mishaps \subseteq mishaps', mishaps' \subseteq Mishaps, "late" \in mishaps' => "late" \in mishaps,
           callback' = "decoding" => callback = "decoding" \/ net # <<>>,
           (up' /\ client' = "ready" /\ state' = 3) => (up /\ client = "ready" /\ state = 3)
    PROVE  CloudSide'
BY DEF CloudSide, cloudVars, Ordered, Answered, Upcoming

LEMMA CloudStep ==
    ASSUME IInv, [Next]_vars
    PROVE  CloudSide'
<1> CloudSide
  BY DEF IInv, TypeOK, CloudSide
<1> DEFINE Calm == /\ UNCHANGED cloudVars
                   /\ mishaps' = mishaps \/ mishaps' = mishaps \cup {"no_connect"}
                   /\ callback' = "decoding" => callback = "decoding" \/ net # <<>>
                   /\ (up' /\ client' = "ready" /\ state' = 3)
                          => (up /\ client = "ready" /\ state = 3)
<1>1. Calm => CloudSide'
  <2> SUFFICES ASSUME Calm PROVE CloudSide'
    OBVIOUS
  <2>1. /\ mishaps \subseteq mishaps' /\ mishaps' \subseteq Mishaps
        /\ "late" \in mishaps' => "late" \in mishaps
    BY DEF CloudSide, Mishaps
  <2> QED BY <2>1, CloudUnchanged
<1> /\ net \in Seq(0 .. MaxVersion) /\ Len(net) \in Nat
    /\ stored \in 0 .. MaxVersion /\ desired \in 0 .. MaxVersion
    /\ stored <= desired /\ MaxVersion \in Nat
    /\ \A i \in 1 .. Len(net) : net[i] \in 0 .. MaxVersion /\ net[i] <= desired
  BY VersionAssumption DEF CloudSide, Ordered
<1>2. ASSUME NEW v \in 0 .. MaxVersion, desired' \in 0 .. MaxVersion,
             net' = Append(net, v), stored' = stored,
             desired <= desired', v <= desired',
             mishaps' = mishaps \/ mishaps' = mishaps \cup {"late"},
             "late" \notin mishaps' => v = desired',
             callback' = "decoding" => callback = "decoding"
      PROVE  CloudSide'
  <2>1. /\ net' \in Seq(0 .. MaxVersion) /\ Len(net') = Len(net) + 1
        /\ \A i \in 1 .. Len(net) : net'[i] = net[i]
        /\ net'[Len(net) + 1] = v /\ net' # <<>>
    BY <1>2
  <2>2. \A i \in 1 .. Len(net') : net'[i] <= desired'
    BY <1>2, <2>1
  <2>3. ASSUME "late" \notin mishaps'
        PROVE  /\ \A i \in 1 .. Len(net') : stored <= net'[i]
               /\ \A i, j \in 1 .. Len(net') : i < j => net'[i] <= net'[j]
    <3>1. /\ \A i \in 1 .. Len(net) : stored <= net[i]
          /\ \A i, j \in 1 .. Len(net) : i < j => net[i] <= net[j]
      BY <1>2, <2>3 DEF CloudSide, Ordered
    <3>2. v = desired'
      BY <1>2, <2>3
    <3>3. \A i \in 1 .. Len(net) : net'[i] <= v
      BY <1>2, <2>1, <3>2
    <3>4. \A i \in 1 .. Len(net') : i \in 1 .. Len(net) \/ i = Len(net) + 1
      BY <2>1
    <3>5. \A i \in 1 .. Len(net') : stored <= net'[i]
      BY <1>2, <2>1, <3>1, <3>2, <3>4
    <3>6. ASSUME NEW i \in 1 .. Len(net'), NEW j \in 1 .. Len(net'), i < j
          PROVE  net'[i] <= net'[j]
      <4>1. i \in 1 .. Len(net)
        BY <2>1, <3>6
      <4>2. CASE j \in 1 .. Len(net)
        <5>1. net[i] <= net[j]
          BY <3>1, <3>6, <4>1, <4>2
        <5> QED BY <2>1, <4>1, <4>2, <5>1
      <4>3. CASE j = Len(net) + 1
        BY <2>1, <3>3, <4>1, <4>3
      <4> QED BY <3>4, <4>2, <4>3
    <3> QED BY <3>5, <3>6
  <2>4. Ordered'
    BY <1>2, <2>2, <2>3 DEF Ordered
  <2>5. Answered'
    BY <1>2, <2>1 DEF Answered, Upcoming
  <2>6. mishaps' \subseteq Mishaps
    BY <1>2 DEF CloudSide, Mishaps
  <2> QED BY <1>2, <2>1, <2>4, <2>5, <2>6 DEF CloudSide
<1>3. ASSUME Request PROVE CloudSide'
  <2>1. /\ UNCHANGED <<up, callback, client, stored, desired>>
    BY <1>3 DEF Request, Aws!SendReturns
  <2>2. CASE net' = Append(net, desired) /\ mishaps' = mishaps
    BY <1>2, <2>1, <2>2
  <2>3. CASE net' = net /\ mishaps' = mishaps \cup {"no_send"}
    BY <2>1, <2>3 DEF CloudSide, Ordered, Answered, Mishaps
  <2> QED BY <1>3, <2>2, <2>3 DEF Request, Mishap
<1>4. ASSUME Drop PROVE CloudSide'
  <2>1. /\ net' = <<>> /\ mishaps' = mishaps \cup {"dropped"}
        /\ UNCHANGED <<stored, desired, callback>> /\ callback = "idle"
        /\ up' = FALSE \/ client' = "off"
    BY <1>4 DEF Drop, Mishap, Aws!OnDisconnected, Aws!aws_iot_event_handler, Aws!erabort
  <2> QED BY <2>1 DEF CloudSide, Ordered, Answered, Mishaps
<1>5. ASSUME Decode PROVE CloudSide'
  <2>1. callback = "decoding" /\ UNCHANGED <<state, client, desired, mishaps>> /\ up
    BY <1>5 DEF Decode, Aws!DataDecoded, Aws!erabort
  <2>2. net # <<>>
    BY <2>1 DEF CloudSide, Answered
  <2>3. CASE ~up'
    BY <1>5, <2>1, <2>2, <2>3 DEF Decode, CloudSide, Ordered, Answered
  <2>4. CASE up'
    <3>1. stored' = Head(net) /\ net' = Tail(net) /\ callback' = "idle"
      BY <1>5, <2>4 DEF Decode, Aws!DataDecoded, Aws!erabort
    <3>2. /\ net' \in Seq(0 .. MaxVersion) /\ Len(net') = Len(net) - 1 /\ Len(net) >= 1
          /\ \A i \in 1 .. Len(net') : net'[i] = net[i + 1]
          /\ stored' = net[1] /\ stored' \in 0 .. MaxVersion
      BY <2>2, <3>1
    <3>3. Upcoming' = Upcoming
      <4>1. CASE Len(net) = 1
        BY <2>2, <3>1, <3>2, <4>1 DEF Upcoming
      <4>2. CASE Len(net) # 1
        <5>1. Len(net') \in 1 .. Len(net') /\ Len(net') + 1 = Len(net)
          BY <3>2, <4>2
        <5>2. net'[Len(net')] = net[Len(net)] /\ net' # <<>>
          BY <3>2, <5>1
        <5> QED BY <2>2, <5>2 DEF Upcoming
      <4> QED BY <4>1, <4>2
    <3>4. Ordered'
      <4>1. \A i \in 1 .. Len(net') : i \in 1 .. Len(net) /\ i + 1 \in 1 .. Len(net)
        BY <3>2
      <4>2. 1 \in 1 .. Len(net) /\ stored' <= desired
        BY <3>2
      <4>3. \A i \in 1 .. Len(net') : net'[i] <= desired
        BY <3>2, <4>1
      <4>4. ASSUME "late" \notin mishaps
            PROVE  /\ \A i \in 1 .. Len(net') : stored' <= net'[i]
                   /\ \A i, j \in 1 .. Len(net') : i < j => net'[i] <= net'[j]
        <5>1. \A i, j \in 1 .. Len(net) : i < j => net[i] <= net[j]
          BY <4>4 DEF CloudSide, Ordered
        <5>2. ASSUME NEW i \in 1 .. Len(net') PROVE stored' <= net'[i]
          <6>1. i + 1 \in 1 .. Len(net) /\ 1 < i + 1
            BY <4>1, <5>2
          <6>2. net[1] <= net[i + 1]
            BY <4>2, <5>1, <6>1
          <6> QED BY <3>2, <6>2
        <5>3. ASSUME NEW i \in 1 .. Len(net'), NEW j \in 1 .. Len(net'), i < j
              PROVE  net'[i] <= net'[j]
          <6>1. /\ i + 1 \in 1 .. Len(net) /\ j + 1 \in 1 .. Len(net)
                /\ i + 1 < j + 1
            BY <4>1, <5>3
          <6>2. net[i + 1] <= net[j + 1]
            BY <5>1, <6>1
          <6> QED BY <3>2, <6>2
        <5> QED BY <5>2, <5>3
      <4> QED BY <2>1, <4>2, <4>3, <4>4 DEF Ordered
    <3>5. Answered'
      BY <2>1, <3>1, <3>3 DEF CloudSide, Answered
    <3> QED BY <2>1, <3>2, <3>4, <3>5 DEF CloudSide
  <2> QED BY <2>3, <2>4
<1>6. ASSUME Change PROVE CloudSide'
  <2>1. /\ desired < MaxVersion /\ desired' = desired + 1
        /\ UNCHANGED <<up, callback, client, state, stored, mishaps>>
    BY <1>6 DEF Change, awsVars
  <2>2. CASE net' = Append(net, desired')
    BY <1>2, <2>1, <2>2
  <2>3. CASE net' = net /\ client # "ready"
    BY <2>1, <2>3 DEF CloudSide, Ordered, Answered
  <2> QED BY <1>6, <2>2, <2>3 DEF Change
<1>7. ASSUME Late PROVE CloudSide'
  <2>1. PICK v \in 1 .. desired - 1 : net' = Append(net, v)
    BY <1>7 DEF Late
  <2>2. /\ mishaps' = mishaps \cup {"late"}
        /\ UNCHANGED <<callback, stored, desired>>
    BY <1>7 DEF Late, Mishap, awsVars
  <2> QED BY <1>2, <2>1, <2>2
<1>8. ASSUME Boot PROVE CloudSide'
  BY <1>8 DEF Boot, Aws!aws_connector_init, CloudSide, Ordered, Answered
<1>9. ASSUME Main \/ pdn_event_handler \/ Network \/ Reset PROVE Calm
  <2>1. CASE EarlyBoot
    BY <2>1 DEF EarlyBoot, SetLeds, InitModemInfo, LoadConfig, InitLteInfo, ReadIccid,
       InitPdp, ConfigureApn, Advance, awsVars
  <2>2. CASE StartLink \/ pdn_event_handler \/ Network
    BY <2>2 DEF StartLink, pdn_event_handler, Network, awsVars
  <2>3. CASE FailBoot \/ Reset
    BY <2>3 DEF FailBoot, Reset, erabort, awsVars
  <2>4. CASE PassGate
    BY <2>4 DEF PassGate, Lte!TakeSem, Lte!RegisterSms, Lte!erabort, awsVars
  <2> QED BY <1>9, <2>1, <2>2, <2>3, <2>4 DEF Main, EarlyBoot
<1>10. ASSUME Thread, ~Request PROVE Calm
  <2>1. CASE Aws!TaskInit \/ Aws!RequestShadow \/ Connect
    BY <1>10, <2>1 DEF Thread, Connect, Request, Mishap, Aws!TaskInit, Aws!RequestShadow,
       Aws!TaskConnect, Aws!erabort
  <2>2. CASE Aws!ProcessEvent
    <3>1. state' = 3 <=> state = 3
      BY <2>2, EventIsNotReady DEF Aws!ProcessEvent
    <3> QED BY <1>10, <2>2, <3>1 DEF Thread, Connect, Aws!TaskConnect, Aws!ProcessEvent
  <2> QED BY <1>10, <2>1, <2>2 DEF Thread
<1>11. ASSUME Dial \/ Receive PROVE Calm
  <2>1. CASE Dial
    <3>1. (up' /\ client' = "ready" /\ state' = 3) => client = "connected" /\ state = 3
      BY <2>1 DEF Dial, Aws!OnConnecting, Aws!OnConnected, Aws!OnReady,
         Aws!aws_iot_event_handler, Aws!erabort
    <3>2. callback' = callback
      BY <2>1 DEF Dial, Aws!OnConnecting, Aws!OnConnected, Aws!OnReady,
         Aws!aws_iot_event_handler, Aws!erabort
    <3> QED BY <2>1, <3>1, <3>2, NotYetReady DEF Dial
  <2>2. CASE Receive
    BY <2>2 DEF Receive, Aws!OnDataReceived
  <2> QED BY <1>11, <2>1, <2>2
<1>12. UNCHANGED vars => Calm
  BY DEF vars, awsVars
<1> HIDE DEF Calm
<1> QED BY <1>1, <1>3, <1>4, <1>5, <1>6, <1>7, <1>8, <1>9, <1>10, <1>11, <1>12 DEF Next

-----------------------------------------------------------------------------
(* What follows for every behaviour.                                       *)

\* The first boot starts in the invariant.
LEMMA InitInv == Init => IInv
<1> SUFFICES ASSUME Init PROVE IInv
  OBVIOUS
<1>1. AwsP!IInv
  BY AwsSame, AwsP!BootInv, QueueAssumption DEF Init
<1>2. LteP!IInv
  BY LteSame, LteP!InitInv DEF Init
<1>3. Lte!TypeOK /\ Aws!TypeOK
  BY <1>1, <1>2, AwsSame, LteSame DEF AwsP!IInv, LteP!IInv
<1>4. BootSide
  <2>1. notices \in Seq(BOOLEAN) /\ Len(notices) <= MaxNotices
    BY NoticesAssumption DEF Init, ModemInit
  <2>2. ModemTypeOK
    BY <2>1 DEF Init, ModemInit, ModemTypeOK
  <2> QED
    BY <2>2 DEF Init, ModemInit, Lte!Init, BootSide, Boots, Started, Informed, Identified
<1>5. CloudSide
  BY VersionAssumption DEF Init, Aws!Init, CloudSide, Ordered, Answered
<1> QED BY <1>1, <1>2, <1>3, <1>4, <1>5 DEF IInv, TypeOK, BootSide, CloudSide

\* Every step keeps it.
LEMMA StepInv == IInv /\ [Next]_vars => IInv'
<1> SUFFICES ASSUME IInv, [Next]_vars PROVE IInv'
  OBVIOUS
<1>1. (Aws!TypeOK <=> AwsP!TypeOK)' /\ (Lte!TypeOK <=> LteP!TypeOK)'
  BY AwsSame, LteSame, PTL
<1>2. Lte!TypeOK' /\ Aws!TypeOK'
  BY <1>1, ComponentsKeep DEF AwsP!IInv, LteP!IInv
<1> QED
  BY <1>2, ComponentsKeep, BootStep, CloudStep DEF IInv, TypeOK, BootSide, CloudSide

\* The inductive invariant holds in every state of every behaviour.
LEMMA Invariance == Spec => []IInv
BY InitInv, StepInv, PTL DEF Spec

\* The variables keep their types.
THEOREM TypeCorrect == Spec => []TypeOK
<1>1. IInv => TypeOK
  BY DEF IInv
<1> QED BY <1>1, Invariance, PTL

\* The manager knows the context, whatever the network does while it is not
\* looking, for any number of notifications under way.
THEOREM ContextIsKnown == Spec => []ContextKnown
<1>1. IInv => ContextKnown
  BY DEF IInv, Informed, ContextKnown
<1> QED BY <1>1, Invariance, PTL

\* How far ApnFitsCard fails, for every table and every card in it: the card has
\* its APN if the modem refused to power it down (modem.c:232), and only then.
\* Neither the information service nor the other steps of the boot matter.
THEOREM PowerDecides ==
    Spec => [](boot \in {"link", "done"} /\ sim \in DOMAIN apn_lookup_table =>
                  (apn = apn_lookup_table[sim] <=> uicc))
<1>1. IInv => (boot \in {"link", "done"} /\ sim \in DOMAIN apn_lookup_table =>
                  (apn = apn_lookup_table[sim] <=> uicc))
  BY TableAssumption DEF IInv, Identified, TypeOK, ModemTypeOK
<1> QED BY <1>1, Invariance, PTL

\* No desired state is forgotten, for any number of changes, messages, sessions
\* and resets.
THEOREM NoneForgotten == Spec => []NothingForgotten
<1>1. IInv => NothingForgotten
  <2> SUFFICES ASSUME IInv, up, client = "ready", stored # desired,
                      mishaps \cap {"no_send", "late"} = {}
               PROVE  \/ Contains(net, desired)
                      \/ Contains(queue, Aws!AWS_EVENT_READY) \/ thread = "send"
    BY DEF NothingForgotten
  <2>1. announced = 3
    BY DEF IInv, AwsP!IInv, AwsP!Session
  <2>2. state \in 0 .. 3
    BY DEF IInv, AwsP!IInv, AwsP!TypeOK, AwsP!Progress, AwsP!States, AwsP!AWS_STATE_OFFLINE,
       AwsP!AWS_STATE_DISCONNECTING, AwsP!AWS_STATE_READY
  <2>3. CASE thread # "send" /\ state # 3
    <3>1. \E i \in 1 .. Len(queue) : queue[i] = 2
      BY <2>1, <2>2, <2>3
      DEF IInv, AwsP!IInv, AwsP!Complete, AwsP!Base, AwsP!LinkEvents,
          AwsP!AWS_EVENT_CONNECTING, AwsP!AWS_EVENT_CONNECTED, AwsP!AWS_EVENT_READY
    <3> QED BY <3>1 DEF Contains, Aws!AWS_EVENT_READY
  <2>4. CASE state = 3
    <3>1. Upcoming = desired
      BY <2>4 DEF IInv, Answered
    <3>2. net # <<>> /\ net[Len(net)] = desired
      BY <3>1 DEF Upcoming
    <3>3. Len(net) \in 1 .. Len(net)
      BY <3>2 DEF IInv, TypeOK
    <3> QED BY <3>2, <3>3 DEF Contains
  <2> QED BY <2>3, <2>4
<1> QED BY <1>1, Invariance, PTL

\* No step takes the files back to an older version but through a late message.
THEOREM NeverOlder == Spec => NoStepBack
<1>1. IInv /\ [Next]_vars => [stored' >= stored \/ "late" \in mishaps]_vars
  <2> SUFFICES ASSUME IInv, [Next]_vars, stored' # stored, "late" \notin mishaps
               PROVE  stored' >= stored
    BY DEF IInv, TypeOK
  <2>1. CASE Decode
    <3>1. stored' = Head(net) /\ callback = "decoding"
      BY <2>1 DEF Decode, Aws!DataDecoded
    <3>2. net # <<>> /\ net \in Seq(0 .. MaxVersion)
      BY <3>1 DEF IInv, TypeOK, Answered
    <3>3. 1 \in 1 .. Len(net) /\ Head(net) = net[1] /\ net[1] \in 0 .. MaxVersion
      BY <3>2, VersionAssumption
    <3>4. stored <= net[1] /\ stored \in Nat
      BY <3>3 DEF IInv, TypeOK, Ordered
    <3> QED BY <3>1, <3>3, <3>4
  <2>2. CASE ~Decode
    <3>1. Main \/ pdn_event_handler \/ Network \/ Reset => stored' = stored
      BY DEF Main, SetLeds, InitModemInfo, LoadConfig, InitLteInfo, ReadIccid, InitPdp,
         ConfigureApn, StartLink, FailBoot, PassGate, pdn_event_handler, Network, Reset,
         erabort, cloudVars
    <3>2. Thread \/ Dial \/ Drop \/ Receive => stored' = stored
      BY DEF Thread, Connect, Request, Dial, Drop, Receive, cloudVars
    <3>3. Change \/ Late \/ Boot \/ UNCHANGED vars => stored' = stored
      BY DEF Change, Late, Boot, vars, cloudVars
    <3> QED BY <2>2, <3>1, <3>2, <3>3 DEF Next
  <2> QED BY <2>1, <2>2
<1> QED BY <1>1, Invariance, PTL DEF Spec, NoStepBack

-----------------------------------------------------------------------------
(* The components in the device.                                           *)

\* Seen from the connector, the device is the connector of AwsConnector: boot,
\* network and cloud add no step to it.
THEOREM IsConnector == Spec => Aws!Init /\ [][Aws!Next]_(Aws!vars)
<1>1. Init => Aws!Init
  BY DEF Init
<1>2. [Next]_vars => [Aws!Next]_(Aws!vars)
  BY AwsStep
<1> QED BY <1>1, <1>2, PTL DEF Spec

\* Seen from the gate, it is that of LteConnectMgr, though the modem here
\* reports a context only when the network changes it.
THEOREM IsGate == Spec => Lte!Init /\ [][Lte!Next]_(Lte!vars)
<1>1. Init => Lte!Init
  BY DEF Init
<1>2. IInv /\ [Next]_vars => [Lte!Next]_(Lte!vars)
  BY LteStep
<1> QED BY <1>1, <1>2, Invariance, PTL DEF Spec

\* So the connector loses no event, takes them in order and asks for the shadow
\* once, and the gate opens once and after a context, in the device as well.
THEOREM ComponentsCorrect ==
    Spec => [](/\ AwsP!NothingLost /\ AwsP!EventsInOrder /\ AwsP!ReadyMeansRequested
               /\ LteP!StartupGate)
<1>1. IInv => /\ AwsP!NothingLost /\ AwsP!EventsInOrder /\ AwsP!ReadyMeansRequested
              /\ LteP!StartupGate
  BY AwsP!Consequences, QueueAssumption DEF IInv, LteP!IInv
<1> QED BY <1>1, Invariance, PTL
=============================================================================

------------------------------- MODULE Device -------------------------------
(***************************************************************************)
(* The device: the boot of main.c, which brings up the modem, waits at the *)
(* gate of the LTE connection manager for a PDP context and then starts    *)
(* the AWS connector, composed with the network and with the shadow in the *)
(* cloud.  The steps of the gate are those of LteConnectMgr, the steps of  *)
(* connector, callback and client those of AwsConnector; a reset takes all *)
(* of them at once.                                                        *)
(*                                                                         *)
(* The configuration is known by its version: `stored' is the last whose   *)
(* message is completely in the files (ShadowDecoder has the message in    *)
(* detail), `desired' the one in the cloud.  Every message carries the     *)
(* whole desired state, as the device never reports its own.               *)
(***************************************************************************)
EXTENDS Modem, SequencesExt

CONSTANTS MSG_QUEUE_SZ,     \* capacity of the connector's queue
          MaxVersion        \* bound: changes by the operator

ASSUME QueueAssumption   == MSG_QUEUE_SZ \in Nat \ {0}
ASSUME VersionAssumption == MaxVersion \in Nat

VARIABLES up,               \* FALSE between erabort and the next boot
          boot,             \* where main is before the link is started
          main,             \* where it is in lte_connect_init
          modem_state,      \* modem_cblk.state
          lte_connected,    \* the semaphore
          thread, state, queue, callback, client, announced, sends,
                            \* the connector, see AwsConnector
          net,              \* versions on their way to the device
          stored,           \* version in the files
          desired,          \* version in the cloud
          mishaps           \* history: what went wrong since the boot

gateVars  == <<main, modem_state, lte_connected>>
awsVars   == <<thread, state, queue, callback, client, announced, sends>>
cloudVars == <<net, stored, desired>>
vars == <<up, boot, modemVars, gateVars, awsVars, cloudVars, mishaps>>

\* The gate, without messages to the SMS listener.
Lte == INSTANCE LteConnectMgr WITH
            state <- modem_state,
            REBOOT_DELAY <- 1, ACK_LATENCY <- 0, SERIAL_LEN <- 1, LEN_SER_NUM <- 1,
            MaxSms <- 0, reboot_delay_timer <- -1, smsc <- -1, ack <- -1,
            sent <- 0

Aws == INSTANCE AwsConnector

Boots   == {"leds", "info", "config", "lte", "iccid", "pdp", "apn", "link", "done"}
Mishaps == {"no_connect", "dropped", "no_send", "late"}

TypeOK ==
    /\ ModemTypeOK
    /\ Lte!TypeOK
    /\ Aws!TypeOK
    /\ boot \in Boots
    /\ net \in Seq(0 .. MaxVersion)
    /\ stored \in 0 .. MaxVersion /\ desired \in 0 .. MaxVersion
    /\ mishaps \subseteq Mishaps

Init ==
    /\ ModemInit
    /\ Lte!Init
    /\ Aws!Init
    /\ boot = "leds"
    /\ net = <<>>
    /\ stored = 0 /\ desired = 0
    /\ mishaps = {}

\* erabort: the chip resets where it is.
erabort ==
    /\ up' = FALSE
    /\ UNCHANGED <<boot, modemVars, gateVars, awsVars, cloudVars, mishaps>>

-----------------------------------------------------------------------------
(* main, up to the gate.  Each step may also fail and reset the chip.      *)

\* The boot moves from p to q.
Advance(p, q) ==
    /\ up /\ boot = p
    /\ boot' = q
    /\ UNCHANGED <<up, gateVars, awsVars, mishaps>>

\* led_init, and led_set_state for the three of them.
SetLeds == Advance("leds", "info") /\ UNCHANGED <<modemVars, cloudVars>>

\* The call in main, which ignores the result.
InitModemInfo ==
    /\ Advance("info", "config")
    /\ \E ok \in BOOLEAN : modem_info_init(ok)
    /\ UNCHANGED cloudVars

\* Mutant of the next operator: defaults are written over the files.
LoadConfigDefaults ==
    /\ Advance("config", "lte")
    /\ info
    /\ modem_get_iccid
    /\ stored' = 0
    /\ UNCHANGED <<net, desired>>

\* config_init: IMEI, ICCID and the files.  modem_get_imei needs the service.
LoadConfig ==
    /\ Advance("config", "lte")
    /\ info
    /\ modem_get_iccid
    /\ UNCHANGED cloudVars

\* lte_connect_init begins; this time the result counts.
InitLteInfo ==
    /\ Advance("lte", "iccid")
    /\ modem_info_init(TRUE)
    /\ UNCHANGED cloudVars

ReadIccid == Advance("iccid", "pdp") /\ modem_get_iccid /\ UNCHANGED cloudVars

InitPdp == Advance("pdp", "apn") /\ modem_init_pdp /\ UNCHANGED cloudVars

ConfigureApn == Advance("apn", "link") /\ modem_lookup_apn /\ UNCHANGED cloudVars

\* lte_lc_init to lte_lc_connect_async; no result of these is looked at.
StartLink ==
    /\ boot = "link" /\ boot' = "done"
    /\ up' = up
    /\ Lte!StartLink
    /\ \E ok \in BOOLEAN : lte_lc_connect_async(ok)
    /\ UNCHANGED <<awsVars, cloudVars, mishaps>>

FailBoot == up /\ boot \notin {"link", "done"} /\ erabort

\* At the gate and after it.
PassGate ==
    /\ Lte!TakeSem \/ Lte!RegisterSms
    /\ UNCHANGED <<boot, modemVars, awsVars, cloudVars, mishaps>>

Main == \/ SetLeds \/ InitModemInfo \/ LoadConfig \/ InitLteInfo \/ ReadIccid
        \/ InitPdp \/ ConfigureApn \/ StartLink \/ FailBoot \/ PassGate

-----------------------------------------------------------------------------
(* The context.                                                            *)

pdn_event_handler ==
    /\ up
    /\ TakeNotice
    /\ Lte!lte_proc_pdp_status(Head(notices))
    /\ UNCHANGED <<up, boot, main, awsVars, cloudVars, mishaps>>

Network ==
    /\ up /\ ContextChanges
    /\ UNCHANGED <<up, boot, gateVars, awsVars, cloudVars, mishaps>>

-----------------------------------------------------------------------------
(* The connector's thread, which aws_connector_init creates when           *)
(* lte_connect_init has returned.                                          *)

Mishap(bad, m) == mishaps' = IF bad THEN mishaps \cup {m} ELSE mishaps

\* aws_iot_connect.  Without a context it fails; with one it may.
Connect ==
    /\ Aws!TaskConnect
    /\ client' = "asked" => pdn
    /\ Mishap(client' = "off", "no_connect")
    /\ UNCHANGED <<boot, modemVars, gateVars, cloudVars>>

\* aws_iot_send returns.  The answer has the version of the moment; there is
\* none when the send failed or the session is gone.
Request ==
    /\ Aws!SendReturns
    /\ \/ /\ client = "ready"
          /\ net' = Append(net, desired)
          /\ UNCHANGED mishaps
       \/ net' = net /\ Mishap(TRUE, "no_send")
    /\ UNCHANGED <<boot, modemVars, gateVars, stored, desired>>

Thread ==
    \/ /\ \/ main = "running" /\ Aws!TaskInit
          \/ Aws!ProcessEvent \/ Aws!RequestShadow
       /\ UNCHANGED <<boot, modemVars, gateVars, cloudVars, mishaps>>
    \/ Connect \/ Request

-----------------------------------------------------------------------------
(* The client.                                                             *)

\* The session goes through its phases, over a context.
Dial ==
    /\ pdn
    /\ Aws!OnConnecting \/ Aws!OnConnected \/ Aws!OnReady
    /\ UNCHANGED <<boot, modemVars, gateVars, cloudVars, mishaps>>

Drop ==
    /\ Aws!OnDisconnected
    /\ net' = <<>>
    /\ Mishap(TRUE, "dropped")
    /\ UNCHANGED <<boot, modemVars, gateVars, stored, desired>>

Receive ==
    /\ net # <<>>
    /\ Aws!OnDataReceived
    /\ UNCHANGED <<boot, modemVars, gateVars, cloudVars, mishaps>>

\* The message in hand is in the files, unless decoding it resets the chip.
Decode ==
    /\ Aws!DataDecoded
    /\ \/ up' /\ stored' = Head(net) /\ net' = Tail(net)
       \/ ~up' /\ UNCHANGED <<stored, net>>
    /\ UNCHANGED <<boot, modemVars, gateVars, desired, mishaps>>

-----------------------------------------------------------------------------
(* Cloud and resets.                                                       *)

\* An operator changes the desired state.  A session that is ready gets the
\* change; one that still subscribes may.
Change ==
    /\ desired < MaxVersion
    /\ desired' = desired + 1
    /\ \/ client \in {"connected", "ready"} /\ net' = Append(net, desired')
       \/ client # "ready" /\ net' = net
    /\ UNCHANGED <<up, boot, modemVars, gateVars, awsVars, stored, mishaps>>

\* A message is repeated, or overtaken by a newer one: an old version comes last.
\* (There is no message of version 0: the decoder discards an empty document.)
Late ==
    /\ client = "ready" /\ "late" \notin mishaps
    /\ \E v \in 1 .. desired - 1 : net' = Append(net, v)
    /\ Mishap(TRUE, "late")
    /\ UNCHANGED <<up, boot, modemVars, gateVars, awsVars, stored, desired>>

\* Another call of erabort, or a loss of power.
Reset == up /\ erabort

Boot ==
    /\ Lte!Boot
    /\ Aws!aws_connector_init
    /\ ModemReset
    /\ boot' = "leds"
    /\ net' = <<>>
    /\ mishaps' = {}
    /\ UNCHANGED <<stored, desired>>

Next == \/ Main \/ pdn_event_handler \/ Network
        \/ Thread \/ Dial \/ Drop \/ Receive \/ Decode
        \/ Change \/ Late \/ Reset \/ Boot

\* The device runs what is ready to run, and boots.
Fairness ==
    /\ WF_vars(Main)
    /\ WF_vars(pdn_event_handler)
    /\ WF_vars(Thread)
    /\ WF_vars(Decode)
    /\ WF_vars(Boot)

\* A client that was asked to connect goes on while it has a context, and the
\* session delivers.  The properties say what else they need of the network.
Spec == Init /\ [][Next]_vars /\ Fairness /\ WF_vars(Dial) /\ WF_vars(Receive)

-----------------------------------------------------------------------------
(* Properties.                                                             *)

\* The connection manager's idea of the context is the network's, as soon as
\* it has handled what it was told: no activation or deactivation is lost from
\* the first on, because the callback is set before the link is started
\* (modem.c:393-396).
ContextKnown ==
    (up /\ boot = "done" /\ notices = <<>>) => (modem_state = "MODEM_PDP_UP" <=> pdn)

\* A context the network activates starts the rest of the firmware, even if it
\* is gone again before the main thread runs.
ActivationHeard == pdn ~> (main = "running" \/ ~up)

\* "The requirement is to automatically set the PDN on the modem based on the
\* SIM card being used" (modem.c:431), which the caller takes for powered at this
\* point (lte_connect_mgr.c:701): when the link is about to be started, a card of
\* an operator the table lists has that operator's APN.
ApnFitsCard ==
    (boot \in {"link", "done"} /\ sim \in DOMAIN apn_lookup_table) =>
        apn = apn_lookup_table[sim]

\* In a session that is ready, a desired state the files do not have is on its
\* way, or still to be asked for, or was missed by a request that failed or a
\* message that came late: nothing else makes the device forget one.
NothingForgotten ==
    (up /\ client = "ready" /\ stored # desired) =>
        \/ Contains(net, desired)
        \/ Contains(queue, Aws!AWS_EVENT_READY) \/ thread = "send"
        \/ mishaps \cap {"no_send", "late"} # {}

\* The files never go back to an older version, whatever resets and sessions
\* come between, unless an old message comes after a newer one.
NoStepBack == [][stored' >= stored \/ "late" \in mishaps]_vars

\* A device that stays up and has a context ends in a session with the desired
\* configuration in its files, unless it tried to connect in vain, lost the
\* session, failed to send its request or got a message late.
EndsInSync ==
    <>[](up /\ pdn /\ mishaps = {}) => <>[](client = "ready" /\ stored = desired)
=============================================================================

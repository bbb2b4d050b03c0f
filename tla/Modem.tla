------------------------------- MODULE Modem -------------------------------
(***************************************************************************)
(* The modem support of bsp/modem.c, as the start-up uses it: the identity *)
(* of modem and SIM card, the APN that goes with the card, and the default *)
(* PDP context with the notifications it causes.  This module has the      *)
(* state and the operations, each as it succeeds; Device gives them a      *)
(* caller, who resets the chip when one of them fails.                     *)
(*                                                                         *)
(* The modem and the network are external: the card answers only while it  *)
(* is powered (modem.c:215), and the information service only once it is   *)
(* initialised (main.c:50-51).  Starting the link powers the card too,  *)
(* but after the last read of it, and `uicc' does not follow that.         *)
(***************************************************************************)
EXTENDS Naturals, Sequences

CONSTANTS Sims,             \* cards: the MCC/MNC of their IMSI, or NoSim
          NoSim,            \* an empty slot
          apn_lookup_table, \* the APN of each MCC/MNC the firmware lists
          DefaultApn,       \* "eseye1"
          NoApn,            \* apn_str before the lookup
          MaxNotices        \* bound: notifications not handled yet

ASSUME TableAssumption ==
    /\ NoSim \notin DOMAIN apn_lookup_table
    /\ \A m \in DOMAIN apn_lookup_table : apn_lookup_table[m] # DefaultApn

ASSUME NoticesAssumption == MaxNotices \in Nat

VARIABLES info,         \* the modem information service is initialised
          sim,          \* the card in the slot
          uicc,         \* the card is powered for being read (CFUN=41)
          apn,          \* apn_str, configured for the default context
          registered,   \* pdn_event_handler and pdp_context_notify are set
          link,         \* the link controller was started
          pdn,          \* the default context is active
          notices       \* AT notifications on their way to the callback

cardVars  == <<info, sim, uicc, apn>>
pdnVars   == <<registered, link, pdn, notices>>
modemVars == <<cardVars, pdnVars>>

ModemTypeOK ==
    /\ info \in BOOLEAN
    /\ sim \in Sims
    /\ uicc \in BOOLEAN
    /\ apn \in {NoApn, DefaultApn} \cup {apn_lookup_table[m] : m \in DOMAIN apn_lookup_table}
    /\ registered \in BOOLEAN
    /\ link \in BOOLEAN /\ pdn \in BOOLEAN
    /\ notices \in Seq(BOOLEAN) /\ Len(notices) <= MaxNotices

ModemInit ==
    /\ info = FALSE
    /\ sim \in Sims
    /\ uicc = FALSE
    /\ apn = NoApn
    /\ registered = FALSE
    /\ link = FALSE /\ pdn = FALSE
    /\ notices = <<>>

\* A chip reset restarts the modem; the card may have been changed meanwhile.
ModemReset ==
    /\ info' = FALSE
    /\ sim' \in Sims
    /\ uicc' = FALSE
    /\ apn' = NoApn
    /\ registered' = FALSE
    /\ link' = FALSE /\ pdn' = FALSE
    /\ notices' = <<>>

-----------------------------------------------------------------------------
\* modem_info_init, with its result.
modem_info_init(ok) ==
    /\ info' = (info \/ ok)
    /\ UNCHANGED <<sim, uicc, apn, pdnVars>>

\* modem_get_iccid: the card is powered up (CFUN=41), read, and powered down
\* again (CFUN=40); nobody looks at the result, so the modem may refuse.
modem_get_iccid ==
    /\ uicc' \in BOOLEAN
    /\ UNCHANGED <<info, sim, apn, pdnVars>>

\* Mutant of the next operator: the callback is set up for a later context.
modem_init_pdp_deaf == UNCHANGED modemVars

\* The first half of modem_init_apn_pdp_context: AT+CNEC, AT+CGEREP, pdn_init
\* and pdn_default_callback_set.
modem_init_pdp ==
    /\ registered' = TRUE
    /\ UNCHANGED <<cardVars, link, pdn, notices>>

\* imsi_str after a read whose result is not checked: empty, unless the card
\* could answer.
Imsi == IF info /\ uicc THEN sim ELSE NoSim

\* modem_lookup_apn, and pdn_ctx_configure with what it found.
modem_lookup_apn ==
    /\ apn' = IF Imsi \in DOMAIN apn_lookup_table THEN apn_lookup_table[Imsi]
                                                  ELSE DefaultApn
    /\ UNCHANGED <<info, sim, uicc, pdnVars>>

-----------------------------------------------------------------------------
\* lte_lc_connect_async, with its result.
lte_lc_connect_async(ok) ==
    /\ link' = ok
    /\ UNCHANGED <<cardVars, registered, pdn, notices>>

\* The network activates or deactivates the default context, or the modem
\* repeats a notification; nobody is told unless the callback is set.
ContextChanges ==
    /\ link
    /\ Len(notices) < MaxNotices
    /\ pdn' \in BOOLEAN
    /\ notices' = IF registered THEN Append(notices, pdn') ELSE notices
    /\ UNCHANGED <<cardVars, registered, link>>

\* pdn_event_handler takes the next notification.
TakeNotice ==
    /\ notices # <<>>
    /\ notices' = Tail(notices)
    /\ UNCHANGED <<cardVars, registered, link, pdn>>
=============================================================================

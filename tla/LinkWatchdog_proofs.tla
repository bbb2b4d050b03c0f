------------------------ MODULE LinkWatchdog_proofs ------------------------
(***************************************************************************)
(* Proofs about the link watchdog, for every tolerance.                    *)
(*                                                                         *)
(* The argument: the counter never exceeds the reports since the session   *)
(* was last up, even if a clear of it is overwritten, and equals them as   *)
(* long as nobody cleared it.  The load and the store of the counter carry *)
(* the two facts through the register in between.                          *)
(***************************************************************************)
EXTENDS LinkWatchdog, TLAPS

\* A call under way has room for one more report.
Room == pc \in {"get_mode", "set_mode", "load", "store"} => downs < MaxReports

\* The counter, and the copy of it about to be incremented, never run ahead ...
CountBounded == /\ link_down_cnt <= downs
                /\ pc = "store" => reg <= downs

\* ... and do not fall behind unless the shell interferes.
CountExact == cleared = FALSE => /\ link_down_cnt = downs
                                 /\ pc = "store" => reg = downs

\* Outside the test the reports are within the tolerance.
WithinTolerance ==
    (app_connectivity_up = TRUE /\ cleared = FALSE /\ pc \notin {"test", "reset"})
        => downs <= LTE_MAX_LINK_DOWN

\* A reboot for a lost session is one the code was told to make.
Justified == /\ reason = "link_down" => /\ app_connectivity_up = TRUE
                                        /\ downs > LTE_MAX_LINK_DOWN
             /\ up = TRUE => reason = "none"

IInv == TypeOK /\ Room /\ CountBounded /\ CountExact /\ WithinTolerance /\ Justified

-----------------------------------------------------------------------------
\* A fact the SMT backend does not find by itself.
LEMMA FalseIsBoolean == \A x : x = FALSE => x \in BOOLEAN
BY Zenon

\* Any reset with a reason other than the lost session keeps the invariant.
LEMMA AbortInv ==
    ASSUME IInv, NEW r \in {"mode", "other"}, erabort(r)
    PROVE  IInv'
BY FalseIsBoolean DEF IInv, erabort, TypeOK, Room, CountBounded, CountExact, WithinTolerance,
       Justified

\* The invariant holds initially and after a boot.
LEMMA BootInv == (Init => IInv) /\ (lte_connect_init => IInv')
<1> USE LinkDownAssumption, FalseIsBoolean
<1> USE DEF IInv, TypeOK, PCs, Room, CountBounded, CountExact, WithinTolerance,
            Justified
<1>1. Init => IInv
  BY DEF Init
<1>2. ASSUME lte_connect_init PROVE IInv'
  <2>1. TypeOK'
    BY <1>2 DEF lte_connect_init
  <2>2. (Room /\ CountBounded /\ CountExact)'
    BY <1>2 DEF lte_connect_init
  <2>3. (WithinTolerance /\ Justified)'
    BY <1>2 DEF lte_connect_init
  <2> QED BY <2>1, <2>2, <2>3
<1> QED BY <1>1, <1>2

\* Every step keeps the invariant.
LEMMA StepInv == IInv /\ [Next]_vars => IInv'
<1> SUFFICES ASSUME IInv, [Next]_vars PROVE IInv'
  OBVIOUS
<1> USE LinkDownAssumption, FalseIsBoolean
<1> USE DEF IInv, TypeOK, PCs, Room, CountBounded, CountExact, WithinTolerance,
            Justified
<1>1. CASE ReportUp
  BY <1>1 DEF ReportUp
<1>2. CASE ResetCount
  BY <1>2 DEF ResetCount
<1>3. CASE ReportDown
  BY <1>3 DEF ReportDown
<1>4. CASE GetMode
  BY <1>4, AbortInv DEF GetMode
<1>5. CASE SetMode
  BY <1>5, AbortInv DEF SetMode
<1>6. CASE LoadCount
  BY <1>6 DEF LoadCount
<1>7. CASE StoreCount
  BY <1>7 DEF StoreCount
<1>8. CASE TestCount
  <2>1. CASE TooManyDown /\ erabort("link_down")
    <3>1. pc = "test" /\ downs > LTE_MAX_LINK_DOWN
      BY <1>8, <2>1 DEF TestCount, TooManyDown
    <3>2. TypeOK'
      BY <2>1 DEF erabort
    <3>3. (Room /\ CountBounded /\ CountExact /\ WithinTolerance)'
      BY <2>1, <3>1 DEF erabort
    <3>4. Justified'
      BY <2>1, <3>1 DEF TooManyDown, erabort
    <3> QED BY <3>2, <3>3, <3>4
  <2>2. CASE /\ ~TooManyDown
             /\ pc = "test" /\ pc' = "idle"
             /\ UNCHANGED <<up, link_down_cnt, reg, app_connectivity_up, mode,
                            reason, downs, cleared>>
    BY <2>2 DEF TooManyDown
  <2> QED BY <1>8, <2>1, <2>2 DEF TestCount
<1>9. CASE lte_stats_clear
  BY <1>9 DEF lte_stats_clear
<1>10. CASE ModemOffline
  BY <1>10 DEF ModemOffline
<1>11. CASE Reset
  BY <1>11, AbortInv DEF Reset
<1>12. CASE lte_connect_init
  BY <1>12, BootInv
<1>13. CASE UNCHANGED vars
  BY <1>13 DEF vars
<1> QED
  BY <1>1, <1>2, <1>3, <1>4, <1>5, <1>6, <1>7, <1>8, <1>9, <1>10, <1>11, <1>12,
     <1>13
  DEF Next, Reporter

\* The inductive invariant holds in every state of every behaviour.
LEMMA Invariance == Spec => []IInv
<1>1. Init => IInv
  BY BootInv
<1>2. IInv /\ [Next]_vars => IInv'
  BY StepInv
<1> QED BY <1>1, <1>2, PTL DEF Spec

\* The variables keep their types.
THEOREM TypeCorrect == Spec => []TypeOK
<1>1. IInv => TypeOK
  BY DEF IInv
<1> QED BY <1>1, Invariance, PTL

\* No reboot for a lost session before the tolerance is exceeded, whatever the
\* shell clears in between.
THEOREM NeverEarly == Spec => []NoEarlyReboot
<1>1. IInv => NoEarlyReboot
  BY DEF IInv, Justified, NoEarlyReboot
<1> QED BY <1>1, Invariance, PTL

\* No device runs on past the tolerance unless its user cleared the counter.
THEOREM NeverLate == Spec => []RebootsAfterN
<1>1. IInv => RebootsAfterN
  BY DEF IInv, WithinTolerance, RebootsAfterN
<1> QED BY <1>1, Invariance, PTL
=============================================================================

---------------------------- MODULE PhaseTracker ----------------------------
(***************************************************************************)
(* What the AWS connector thread promises the rest of the firmware, with   *)
(* the message queue, the callbacks and the handlers left out: the nRF     *)
(* client announces the phases of one cloud session one after the other,   *)
(* and the thread takes notice of each of them, in that order, without     *)
(* skipping, repeating or inventing one, until the device restarts.        *)
(***************************************************************************)
EXTENDS Naturals

CONSTANT LastPhase      \* the phase in which the session may be used

VARIABLES announced,    \* the last phase the client announced
          seen,         \* the last phase the thread took notice of
          up            \* the device runs (FALSE: it is restarting)

vars == <<announced, seen, up>>

TypeOK == /\ announced \in 0 .. LastPhase
          /\ seen \in 0 .. LastPhase
          /\ up \in BOOLEAN

Init == announced = 0 /\ seen = 0 /\ up = TRUE

Announce == /\ up
            /\ announced < LastPhase
            /\ announced' = announced + 1
            /\ UNCHANGED <<seen, up>>

Observe == /\ up
           /\ seen < announced
           /\ seen' = seen + 1
           /\ UNCHANGED <<announced, up>>

Fail == up /\ up' = FALSE /\ UNCHANGED <<announced, seen>>

Restart == ~up /\ up' = TRUE /\ announced' = 0 /\ seen' = 0

Next == Announce \/ Observe \/ Fail \/ Restart

Spec == Init /\ [][Next]_vars /\ WF_vars(Observe) /\ WF_vars(Restart)
=============================================================================

----------------------------- MODULE ShadowSync -----------------------------
(***************************************************************************)
(* What the way from the shadow to the files promises, seen from outside:  *)
(* the device accepts the versions of the desired state in the order in    *)
(* which they are sent, each whole or not at all, and accepts everything   *)
(* that is sent in a session that lasts.                                   *)
(***************************************************************************)
EXTENDS Naturals, Sequences

VARIABLES online,   \* the session is up
          net,      \* versions sent and not accepted yet
          desired,  \* version of the desired state
          stored    \* last version the device accepted for good

vars == <<online, net, desired, stored>>

Init == online = FALSE /\ net = <<>> /\ desired \in Nat /\ stored = desired

\* The operator changes the desired state.
Change ==
    /\ desired' = desired + 1
    /\ net' = IF online THEN Append(net, desired') ELSE net
    /\ UNCHANGED <<online, stored>>

\* A session begins with the desired state of the moment.
Begin ==
    /\ ~online /\ net = <<>>
    /\ online' = TRUE
    /\ net' = <<desired>>
    /\ UNCHANGED <<desired, stored>>

Accept ==
    /\ net # <<>>
    /\ stored' = Head(net)
    /\ net' = Tail(net)
    /\ UNCHANGED <<online, desired>>

\* The session ends; at most the version in hand survives it.
End ==
    /\ online' = FALSE
    /\ \/ net' = <<>>
       \/ net # <<>> /\ net' = <<Head(net)>>
    /\ UNCHANGED <<desired, stored>>

Next == Change \/ Begin \/ Accept \/ End

\* Versions sent are accepted unless the session ends.  (Weak fairness of
\* Accept, which is enabled while something is under way.)
AcceptsAll == []<>(net = <<>>) \/ []<><<Accept>>_vars

Spec == Init /\ [][Next]_vars /\ AcceptsAll
=============================================================================

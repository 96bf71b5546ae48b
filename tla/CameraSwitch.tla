---------------------------- MODULE CameraSwitch ----------------------------
(***************************************************************************)
(* What Ethernet/Client/ethernetClient.h promises to a caller that is      *)
(* alone with the camera: a switch.  A call asks for the state the caller  *)
(* believes the camera is not in, takes effect at one instant, and returns *)
(* what happened at that instant.  Turning off may be refused, because a   *)
(* camera that is still starting up must not be killed; turning on may     *)
(* not.  A switch may break, at the latest when its server is shut down:   *)
(* then calls fail and change nothing; one that breaks while it is being   *)
(* turned off may take itself to be off by then.  CameraLink implements this module  *)
(* over datagrams when one thread uses a link that neither loses nor       *)
(* delays.                                                                 *)
(***************************************************************************)
VARIABLES
    streaming,   \* the switch takes the camera to be streaming
    believed,    \* what Camera_isLive answers
    call,        \* the state the call in progress asks for, or "none"
    answer,      \* its verdict once it has taken effect, or "none"
    broken       \* nobody serves calls any more

vars == <<streaming, believed, call, answer, broken>>

Init ==
    /\ streaming = FALSE
    /\ believed = FALSE
    /\ call = "none"
    /\ answer = "none"
    /\ broken = FALSE

\* Camera_toggle, Camera_turnOn and Camera_turnOff only ever ask for the
\* opposite of what they believe.
Invoke ==
    /\ call = "none"
    /\ call' = IF believed THEN "off" ELSE "on"
    /\ UNCHANGED <<streaming, believed, answer, broken>>

Pending == call # "none" /\ answer = "none"

Succeed ==
    /\ Pending
    /\ ~broken
    /\ answer' = "ok"
    /\ streaming' = (call = "on")
    /\ UNCHANGED <<believed, call, broken>>

Refuse ==
    /\ Pending
    /\ ~broken
    /\ call = "off"
    /\ answer' = "bad"
    /\ UNCHANGED <<streaming, believed, call, broken>>

Return ==
    /\ answer # "none"
    /\ believed' = IF answer = "ok" THEN call = "on" ELSE believed
    /\ call' = "none"
    /\ answer' = "none"
    /\ UNCHANGED <<streaming, broken>>

Break ==
    /\ answer = "none"
    /\ ~broken
    /\ broken' = TRUE
    /\ UNCHANGED <<streaming, believed, call, answer>>

BreakTurningOff ==
    /\ Pending
    /\ call = "off"
    /\ ~broken
    /\ broken' = TRUE
    /\ streaming' = FALSE
    /\ UNCHANGED <<believed, call, answer>>

GiveUp ==
    /\ Pending
    /\ broken
    /\ call' = "none"
    /\ UNCHANGED <<streaming, believed, answer, broken>>

Next == Invoke \/ Succeed \/ Refuse \/ Return \/ Break \/ BreakTurningOff \/ GiveUp

\* Whatever was called returns.
Fairness == WF_vars(Succeed \/ Refuse \/ GiveUp) /\ WF_vars(Return)

Spec == Init /\ [][Next]_vars /\ Fairness
=============================================================================

---------------------------- MODULE MCCameraLink ----------------------------
(* Instances of CameraLink for TLC. *)
EXTENDS CameraLink

\* Who calls what: the response handler on the main thread toggles, the menu
\* thread turns on and off, the stream controller thread turns on.
CallsOfProgram ==
    [t \in Threads |-> CASE t = "main" -> {"toggle"}
                         [] t = "menu" -> {"turnOn", "turnOff"}
                         [] t = "stream" -> {"turnOn"}]

\* One thread that makes every kind of call.
EveryCall == [t \in Threads |-> CallKinds]
=============================================================================

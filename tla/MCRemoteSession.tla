-------------------------- MODULE MCRemoteSession --------------------------
(* Instances of RemoteSession for TLC. *)
EXTENDS RemoteSession

\* One user who knows both passwords and does everything, and one who knows one
\* and only logs in.
Knowing == [c \in Clients |-> IF c = "a" THEN {"p", "q"} ELSE {"p"}]
Doing == [c \in Clients |-> IF c = "a" THEN Commands ELSE {"login"}]
Asking == [c \in Clients |->
    IF c = "a"
    THEN {<<"toggle", "cam">>, <<"toggle", "trigger">>, <<"toggle", "fan">>,
          <<"sdanger", "20">>, <<"sdanger", "overflow">>, <<"rdthresh", "none">>,
          <<"conf", "short">>, <<"conf", "nomfa">>, <<"gdanger", "none">>}
    ELSE {}]
=============================================================================

----------------------------- MODULE CameraLink -----------------------------
(***************************************************************************)
(* The camera switch of the security system: the threads of the main       *)
(* program that call Camera_toggle, Camera_turnOn and Camera_turnOff       *)
(* (Ethernet/Client), the datagram link to the second board, the camera    *)
(* server there (Ethernet/Server) and the stream it starts and kills       *)
(* (WebCam/Stream).                                                        *)
(*                                                                         *)
(* The threads share one flag, isCameraOn, locked for each read and each   *)
(* write but not across a call, and one socket, on which answers carry     *)
(* nothing that says which request they answer.  Every blocking point of a *)
(* call is a step of its own; the server is one process that handles one   *)
(* datagram to the end before it reads the next.  The pipelines it forks   *)
(* are processes of their own: they want one device, and may end.          *)
(***************************************************************************)
EXTENDS Naturals, Sequences, FiniteSets

CONSTANTS
    Threads,      \* the threads of the main program that use the camera
    Main,         \* the one that runs Camera_cleanup
    Calls,        \* Calls[t]: the camera functions thread t calls
    Faults,       \* what may go wrong: see FaultKinds
    Pids,         \* the camera board's supply of processes and descriptors:
                  \* one is used up by every shell forked for a pipeline
    NoPid,        \* streamingPid before the first fork
    MaxInFlight   \* bound: no call begins with this many datagrams under way

CallKinds == {"toggle", "turnOn", "turnOff"}

\* "loss": the link drops a datagram.  "late": an answer takes longer than the
\* one second a receive waits.  "restart": the main program dies and is started
\* again.  "death": a pipeline ends that nobody killed.
FaultKinds == {"loss", "late", "restart", "death"}

ASSUME CameraAssumption ==
    /\ Main \in Threads
    /\ Calls \in [Threads -> SUBSET CallKinds]
    /\ Faults \subseteq FaultKinds
    /\ NoPid \notin Pids
    /\ MaxInFlight \in Nat \ {0}

VARIABLES
    isCameraOn,    \* the flag the threads share
    pc,            \* where each thread is in its camera call
    want,          \* the state the call's request asks for
    socketOpen,    \* Camera_cleanup has not closed the socket
    toServer,      \* requests in flight or in the server's buffer
    toClient,      \* answers in flight or in the socket's buffer
    serverUp,      \* the camera server runs
    response,      \* the server's answer buffer, kept between requests
    streamActive,  \* Stream.c isActive
    starting,      \* Stream.c timer: the ten seconds of start-up have not passed
    streamingPid,  \* the shell Stream_turnOff kills the children of
    pipelines,     \* the shells whose pipeline still runs
    holder,        \* the one whose capture was the last to get the device
    forked,        \* the shells ever forked: none is ever waited for
    intact         \* history: nothing was lost or late since the program started

clientVars == <<isCameraOn, pc, want, socketOpen, intact>>
streamVars == <<streamActive, starting, streamingPid, pipelines, holder, forked>>
serverVars == <<serverUp, response>>
vars == <<clientVars, toServer, toClient, serverVars, streamVars>>

Requests == {"on", "off", "stop"}
\* "garbage": the answer buffer before anything was written to it.
Responses == {"ok", "bad", "garbage"}

TypeOK ==
    /\ isCameraOn \in BOOLEAN
    /\ pc \in [Threads -> {"idle", "checked", "sent", "waiting", "accepted"}]
    /\ want \in [Threads -> {"on", "off"}]
    /\ socketOpen \in BOOLEAN
    /\ toServer \in Seq(Requests)
    /\ toClient \in Seq(Responses)
    /\ serverUp \in BOOLEAN
    /\ response \in Responses
    /\ streamActive \in BOOLEAN
    /\ starting \in BOOLEAN
    /\ streamingPid \in Pids \cup {NoPid}
    /\ pipelines \subseteq forked
    /\ holder \in Pids \cup {NoPid}
    /\ forked \subseteq Pids
    /\ intact \in BOOLEAN

Init ==
    /\ isCameraOn = FALSE
    /\ pc = [t \in Threads |-> "idle"]
    /\ want = [t \in Threads |-> "off"]
    /\ socketOpen = TRUE
    /\ toServer = <<>>
    /\ toClient = <<>>
    /\ serverUp = TRUE
    /\ response = "garbage"
    /\ streamActive = FALSE
    /\ starting = FALSE
    /\ streamingPid = NoPid
    /\ pipelines = {}
    /\ holder = NoPid
    /\ forked = {}
    /\ intact = TRUE

-----------------------------------------------------------------------------
(* The main program's threads *)

\* A call that has something to ask for: it has read isCameraOn and released
\* the mutex.  A call that finds the camera as wanted returns at once and
\* changes nothing.  The main thread makes no call after Camera_cleanup.
Begin(t, state) ==
    /\ pc[t] = "idle"
    /\ t = Main => socketOpen
    /\ Len(toServer) + Len(toClient) < MaxInFlight
    /\ pc' = [pc EXCEPT ![t] = "checked"]
    /\ want' = [want EXCEPT ![t] = state]
    /\ UNCHANGED <<isCameraOn, socketOpen, toServer, toClient, intact, serverVars, streamVars>>

\* Slip: the toggle that does not look at the state.
ToggleBlind(t) ==
    /\ "toggle" \in Calls[t]
    /\ Begin(t, "on")

Toggle(t) ==
    /\ "toggle" \in Calls[t]
    /\ Begin(t, IF isCameraOn THEN "off" ELSE "on")

TurnOn(t) ==
    /\ "turnOn" \in Calls[t]
    /\ ~isCameraOn
    /\ Begin(t, "on")

TurnOff(t) ==
    /\ "turnOff" \in Calls[t]
    /\ isCameraOn
    /\ Begin(t, "off")

\* sendto: on a closed socket, or towards a server that is gone, the request
\* vanishes; the client does not look at the result.
Send(t) ==
    /\ pc[t] = "checked"
    /\ pc' = [pc EXCEPT ![t] = "sent"]
    /\ toServer' = IF socketOpen /\ serverUp
                   THEN Append(toServer, want[t]) ELSE toServer
    /\ UNCHANGED <<isCameraOn, want, socketOpen, toClient, intact, serverVars, streamVars>>

\* recvfrom: fails at once on a closed descriptor, blocks otherwise.
StartReceive(t) ==
    /\ pc[t] = "sent"
    /\ pc' = [pc EXCEPT ![t] = IF socketOpen THEN "waiting" ELSE "idle"]
    /\ UNCHANGED <<isCameraOn, want, socketOpen, toServer, toClient, intact, serverVars, streamVars>>

\* Slip: any answer counts as "ok".
ReceiveAnything(t) ==
    /\ pc[t] = "waiting"
    /\ toClient # <<>>
    /\ toClient' = Tail(toClient)
    /\ pc' = [pc EXCEPT ![t] = "accepted"]
    /\ UNCHANGED <<isCameraOn, want, socketOpen, toServer, intact, serverVars, streamVars>>

\* Any answer ends any thread's wait: the first one in the buffer, whoever asked.
Receive(t) ==
    /\ pc[t] = "waiting"
    /\ toClient # <<>>
    /\ toClient' = Tail(toClient)
    /\ pc' = [pc EXCEPT ![t] = IF Head(toClient) = "ok" THEN "accepted" ELSE "idle"]
    /\ UNCHANGED <<isCameraOn, want, socketOpen, toServer, intact, serverVars, streamVars>>

\* Slip: a receive without SO_RCVTIMEO.
TimeoutNever(t) ==
    /\ pc[t] = "waiting"
    /\ FALSE
    /\ UNCHANGED vars

\* SO_RCVTIMEO.  Unless answers may be late, only a wait that nothing can end
\* any more runs out.
Timeout(t) ==
    /\ pc[t] = "waiting"
    /\ "late" \in Faults \/ (toServer = <<>> /\ toClient = <<>>)
    /\ pc' = [pc EXCEPT ![t] = "idle"]
    /\ intact' = (intact /\ toServer = <<>> /\ toClient = <<>>)
    /\ UNCHANGED <<isCameraOn, want, socketOpen, toServer, toClient, serverVars, streamVars>>

\* setCamera, and the call returns true.
Accept(t) ==
    /\ pc[t] = "accepted"
    /\ isCameraOn' = (want[t] = "on")
    /\ pc' = [pc EXCEPT ![t] = "idle"]
    /\ UNCHANGED <<want, socketOpen, toServer, toClient, intact, serverVars, streamVars>>

\* Controller_stop runs this before it stops the other threads.
Cleanup ==
    /\ pc[Main] = "idle"
    /\ socketOpen
    /\ socketOpen' = FALSE
    /\ toServer' = IF serverUp THEN Append(toServer, "stop") ELSE toServer
    /\ UNCHANGED <<isCameraOn, pc, want, toClient, intact, serverVars, streamVars>>

-----------------------------------------------------------------------------
(* The camera server *)

\* A closed socket still belongs to the threads blocked in recvfrom on it.
CanDeliver == socketOpen \/ \E t \in Threads : pc[t] = "waiting"

Answer(verdict) ==
    toClient' = IF CanDeliver THEN Append(toClient, verdict) ELSE toClient

Handling(request) ==
    /\ serverUp
    /\ toServer # <<>>
    /\ Head(toServer) = request

\* No process or descriptor is left.
Exhausted == forked = Pids

\* Slip: the new shell's pid is not kept.
HandleOnKeepsPid ==
    /\ Handling("on")
    /\ toServer' = Tail(toServer)
    /\ streamActive' = TRUE
    /\ starting' = TRUE
    /\ \E p \in Pids \ forked :
            /\ pipelines' = pipelines \cup {p}
            /\ forked' = forked \cup {p}
    /\ response' = "ok"
    /\ Answer("ok")
    /\ UNCHANGED <<clientVars, serverUp, streamingPid, holder>>

\* Slip: a pipeline from a shell that was never forked.
HandleOnNoFork ==
    /\ Handling("on")
    /\ toServer' = Tail(toServer)
    /\ streamActive' = TRUE
    /\ starting' = TRUE
    /\ \E p \in Pids : streamingPid' = p /\ pipelines' = pipelines \cup {p}
    /\ response' = "ok"
    /\ Answer("ok")
    /\ UNCHANGED <<clientVars, serverUp, holder, forked>>

\* Stream_turnOn: arms the timer and forks a pipeline, whether or not one runs.
\* When no process or descriptor is left popen fails, streamingPid keeps its
\* value, and the request is answered as if it had succeeded.
HandleOn ==
    /\ Handling("on")
    /\ toServer' = Tail(toServer)
    /\ streamActive' = TRUE
    /\ starting' = TRUE
    /\ \/ \E p \in Pids \ forked :
            /\ streamingPid' = p
            /\ pipelines' = pipelines \cup {p}
            /\ forked' = forked \cup {p}
       \/ /\ Exhausted
          /\ UNCHANGED <<streamingPid, pipelines, forked>>
    /\ response' = "ok"
    /\ Answer("ok")
    /\ UNCHANGED <<clientVars, serverUp, holder>>

\* Slip: the flag is cleared and nothing is killed.
HandleOffNoKill ==
    /\ Handling("off")
    /\ toServer' = Tail(toServer)
    /\ streamActive' = FALSE
    /\ response' = "ok"
    /\ Answer("ok")
    /\ UNCHANGED <<clientVars, serverUp, starting, streamingPid, pipelines, holder, forked>>

\* Slip: a refusal is not answered.
HandleOffSilent ==
    /\ Handling("off")
    /\ toServer' = Tail(toServer)
    /\ streamActive /\ starting
    /\ UNCHANGED <<clientVars, toClient, serverVars, streamVars>>

\* Stream_turnOff: refused while the timer runs; of a stream that is off it
\* succeeds and does nothing.
HandleOff ==
    /\ Handling("off")
    /\ toServer' = Tail(toServer)
    /\ \/ /\ streamActive /\ starting
          /\ response' = "bad"
          /\ UNCHANGED <<streamActive, pipelines>>
       \/ /\ streamActive /\ ~starting /\ ~Exhausted
          /\ streamActive' = FALSE
          /\ pipelines' = pipelines \ {streamingPid}
          /\ response' = "ok"
       \/ /\ ~streamActive
          /\ response' = "ok"
          /\ UNCHANGED <<streamActive, pipelines>>
    /\ Answer(response')
    /\ UNCHANGED <<clientVars, serverUp, starting, streamingPid, holder, forked>>

\* killStream runs pkill through popen and reads the pipe unchecked: when popen
\* fails the server dies in feof(NULL), with the flag already cleared, before it
\* has answered, and the pipeline it was to kill runs on.
HandleOffDies ==
    /\ Handling("off")
    /\ streamActive /\ ~starting /\ Exhausted
    /\ streamActive' = FALSE
    /\ toServer' = <<>>
    /\ serverUp' = FALSE
    /\ UNCHANGED <<clientVars, toClient, response, starting, streamingPid,
                   pipelines, holder, forked>>

\* Slip: the loop goes on after sys:stop.
HandleStopGoesOn ==
    /\ Handling("stop")
    /\ toServer' = <<>>
    /\ Answer(response)
    /\ UNCHANGED <<clientVars, serverVars, streamVars>>

\* sys:stop: the loop still sends whatever the answer buffer holds, then the
\* program ends.  It leaves the stream as it is: Stream_cleanup has no caller.
HandleStop ==
    /\ Handling("stop")
    /\ toServer' = <<>>
    /\ serverUp' = FALSE
    /\ Answer(response)
    /\ UNCHANGED <<clientVars, response, streamVars>>

Serve == HandleOn \/ HandleOff \/ HandleOffDies \/ HandleStop

\* Ten seconds after the last Stream_turnOn.
StartupOver ==
    /\ starting
    /\ starting' = FALSE
    /\ UNCHANGED <<clientVars, toServer, toClient, serverVars,
                   streamActive, streamingPid, pipelines, holder, forked>>

-----------------------------------------------------------------------------
(* The pipelines *)

DeviceFree == holder \notin pipelines

\* The first capture to ask for the free device gets it.
OpensDevice(p) ==
    /\ p \in pipelines
    /\ DeviceFree
    /\ holder' = p
    /\ UNCHANGED <<clientVars, toServer, toClient, serverVars,
                   streamActive, starting, streamingPid, pipelines, forked>>

Ends(p) ==
    /\ p \in pipelines
    /\ pipelines' = pipelines \ {p}
    /\ UNCHANGED <<clientVars, toServer, toClient, serverVars,
                   streamActive, starting, streamingPid, holder, forked>>

\* Any other capture exits (errno_exit: the device is busy), and its ffmpeg with
\* it.  The server does not learn of it.
FindsBusy(p) == Ends(p) /\ ~DeviceFree /\ p # holder

\* Capture gives up on a camera that no longer delivers, or ffmpeg ends.
Dies(p) == Ends(p) /\ "death" \in Faults

-----------------------------------------------------------------------------
(* What may go wrong *)

LoseRequest ==
    /\ "loss" \in Faults
    /\ toServer # <<>>
    /\ toServer' = Tail(toServer)
    /\ intact' = FALSE
    /\ UNCHANGED <<isCameraOn, pc, want, socketOpen, toClient, serverVars, streamVars>>

LoseAnswer ==
    /\ "loss" \in Faults
    /\ toClient # <<>>
    /\ toClient' = Tail(toClient)
    /\ intact' = FALSE
    /\ UNCHANGED <<isCameraOn, pc, want, socketOpen, toServer, serverVars, streamVars>>

\* The main program dies in whatever it was doing and starts again with its
\* static variables reset and a new socket.  It takes longer to start than the
\* server needs for the requests under way.
Restart ==
    /\ "restart" \in Faults
    /\ socketOpen
    /\ toServer = <<>>
    /\ isCameraOn' = FALSE
    /\ pc' = [t \in Threads |-> "idle"]
    /\ toClient' = <<>>
    /\ intact' = TRUE
    /\ UNCHANGED <<want, socketOpen, toServer, serverVars, streamVars>>

-----------------------------------------------------------------------------
Next ==
    \/ \E t \in Threads :
        \/ Toggle(t)
        \/ TurnOn(t)
        \/ TurnOff(t)
        \/ Send(t)
        \/ StartReceive(t)
        \/ Receive(t)
        \/ Timeout(t)
        \/ Accept(t)
    \/ Cleanup
    \/ HandleOn
    \/ HandleOff
    \/ HandleOffDies
    \/ HandleStop
    \/ StartupOver
    \/ \E p \in Pids : OpensDevice(p) \/ FindsBusy(p) \/ Dies(p)
    \/ LoseRequest
    \/ LoseAnswer
    \/ Restart

\* Threads are scheduled, a receive ends within its second, the server reads
\* its socket whenever it can, and clocks advance.  Nobody has to make a call,
\* and nothing has to go wrong.
Fairness ==
    /\ \A t \in Threads : /\ WF_vars(Send(t))
                          /\ WF_vars(StartReceive(t))
                          /\ WF_vars(Receive(t) \/ Timeout(t))
                          /\ WF_vars(Accept(t))
    /\ WF_vars(Serve)
    /\ WF_vars(StartupOver)

Spec == Init /\ [][Next]_vars /\ Fairness

-----------------------------------------------------------------------------
(* Properties *)

\* Stream.h: "precondition: if the stream is not on" of Stream_turnOn, at the
\* moment the server is about to run it.
TurnOnPrecondition == Handling("on") => ~streamActive

\* Any pipeline that runs is the one Stream_turnOff would kill, and once the
\* server takes its stream to be off none does.
KeepsTrack ==
    /\ pipelines \subseteq {streamingPid}
    /\ serverUp /\ ~streamActive => pipelines = {}

\* The server keeps track of its stream (Stream.c streamingPid) as long as its
\* callers keep to the precondition of Stream_turnOn, whichever threads call,
\* whatever is lost, late or restarted, and however pipelines end.
Tracked == []TurnOnPrecondition => []KeepsTrack

\* Every datagram is accounted for while socket and server are there: since the
\* program started, until a datagram is lost or a wait runs out under one, there
\* are as many requests and answers under way as threads waiting for an answer,
\* so none is left behind to be taken for the answer of a later call
\* (clientNet.c ClientNet_receive takes the first one it finds).
NoAnswerLeftBehind ==
    intact /\ socketOpen /\ serverUp =>
        Len(toServer) + Len(toClient) =
            Cardinality({t \in Threads : pc[t] \in {"sent", "waiting"}})

\* For one thread on a reliable link, between calls what Camera_isLive answers
\* is what the camera server, while it runs, believes of its stream.
Agreement == pc[Main] = "idle" /\ serverUp => isCameraOn = streamActive

\* For one thread on a reliable link no pipeline ever runs that the server
\* could not kill: Stream_turnOn does not check for a running stream and relies
\* on its callers for that.
NoOrphan == pipelines \subseteq {streamingPid}

\* Every camera call returns, also when datagrams are lost: the caller is never
\* left waiting for an answer (SO_RCVTIMEO in ClientNet_init).
EveryCallReturns == \A t \in Threads : pc[t] # "idle" ~> pc[t] = "idle"

\* Closing the socket shuts the camera server down ("this will send the shutdown
\* signal to the camera server", ethernetClient.h), on a link without loss.
CleanupStopsServer == ~socketOpen ~> ~serverUp

\* ethernetClient.h of Camera_turnOff: "if the camera is off it does nothing
\* otherwise it will turn off the camera".  It cannot without a server, which
\* nothing but Camera_cleanup is meant to stop.
CanTurnOff == isCameraOn /\ socketOpen => serverUp

Switch == INSTANCE CameraSwitch WITH
    streaming <- streamActive,
    believed <- isCameraOn,
    call <- IF pc[Main] = "idle" THEN "none" ELSE want[Main],
    answer <- CASE toClient # <<>> -> Head(toClient)
                [] pc[Main] = "accepted" -> "ok"
                [] OTHER -> "none",
    broken <- ~serverUp

\* One thread on a reliable link sees a switch: every call takes effect once,
\* in one instant between its begin and its return, with the verdict it returns.
ImplementsSwitch == Switch!Spec

\* Its safety part, without the promise that calls finish.
ImplementsSwitchSteps == Switch!Init /\ [][Switch!Next]_(Switch!vars)
=============================================================================

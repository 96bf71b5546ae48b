----------------------------- MODULE VideoPath -----------------------------
(***************************************************************************)
(* The way of a picture: the camera's driver fills buffers it shares with  *)
(* capture (WebCam/Capture), capture writes them to a pipe, ffmpeg turns   *)
(* them into datagrams, and the relay on the PC (Server) records these and *)
(* passes them on to the web pages.                                        *)
(*                                                                         *)
(* Stream.c starts capture and ffmpeg together and kills them together.    *)
(* The driver, ffmpeg and the network are not part of the repository; they *)
(* are modelled from how capture.c and udp_server.js use them.             *)
(*                                                                         *)
(* A picture is the number of its shot, in two halves, because a picture   *)
(* is far larger than the pipe and the driver could change it in between.  *)
(* Capture uses memory mapping (its default, and no flag of STREAM_COMMAND *)
(* chooses otherwise).                                                     *)
(***************************************************************************)
EXTENDS Naturals, Sequences, FiniteSets

CONSTANTS
    Granted,      \* the numbers of buffers the driver may grant
    FrameCounts,  \* capture's option -c: 0 is without end
    PipeSize,     \* the halves of pictures that fit into the pipe
    MaxShots,     \* bound on the pictures taken, and on the datagrams of one run
                  \* of the relay beyond which none is repeated
    Faults        \* "device": ioctl fails; "encoder": ffmpeg dies; "lose" and
                  \* "repeat": datagrams; "relay": it dies or its socket fails

ASSUME VideoAssumption ==
    /\ Granted \subseteq Nat
    /\ FrameCounts \subseteq Nat
    /\ PipeSize \in Nat \ {0}
    /\ MaxShots \in Nat
    /\ Faults \subseteq {"device", "encoder", "lose", "repeat", "relay"}

VARIABLES
    step,        \* where capture is; see Steps
    count,       \* the pictures it still has to take, if they are counted
    isInfinite,  \* loopIsInfinite
    buffers,     \* the indices of the buffers, 0 .. n_buffers - 1
    held,        \* the buffer capture has taken from the driver
    half,        \* and the half of it to be written
    incoming,    \* the driver's queue of buffers to be filled
    filled,      \* and of those that are
    image,       \* what each buffer holds
    shot,        \* the number of pictures taken
    pipe,        \* between capture and ffmpeg
    encoder,     \* ffmpeg runs
    got,         \* the half it has read last
    inFlight,    \* datagrams on their way
    relay,       \* the relay runs
    fileStream,  \* its recording: "none", "open" or "ended"
    recording,   \* what is in the file
    relayed      \* history: what this run of the relay has passed on

captureVars == <<step, count, isInfinite, buffers, held, half>>
driverVars == <<incoming, filled, image>>
encoderVars == <<pipe, encoder, got>>
relayVars == <<relay, fileStream, recording, relayed>>
vars == <<captureVars, driverVars, shot, encoderVars, inFlight, relayVars>>

Steps == {"off", "open", "init", "start", "select", "write", "requeue", "stop",
          "close"}
Indices == UNION {0..n - 1 : n \in Granted}
Shots == 0..MaxShots
Halves == Shots \X {1, 2}
Nothing == <<0, 2>>    \* before the first half of the first picture

TypeOK ==
    /\ step \in Steps
    /\ count \in {0} \cup UNION {0..c : c \in FrameCounts}
    /\ isInfinite \in BOOLEAN
    /\ buffers \subseteq Indices
    /\ held \in Indices \cup {0}
    /\ half \in {1, 2}
    /\ incoming \in Seq(buffers)
    /\ filled \in Seq(buffers)
    /\ image \in [Indices -> Shots]
    /\ shot \in Shots
    /\ pipe \in Seq(Halves) /\ Len(pipe) <= PipeSize
    /\ encoder \in BOOLEAN
    /\ got \in Halves
    /\ inFlight \subseteq Shots
    /\ relay \in BOOLEAN
    /\ fileStream \in {"none", "open", "ended"}
    /\ recording \in Seq(Shots)
    /\ relayed \in Seq(Shots)

Init ==
    /\ step = "off" /\ count = 0 /\ isInfinite = FALSE
    /\ buffers = {} /\ held = 0 /\ half = 1
    /\ incoming = <<>> /\ filled = <<>> /\ image = [i \in Indices |-> 0]
    /\ shot = 0
    /\ pipe = <<>> /\ encoder = FALSE /\ got = Nothing
    /\ inFlight = {}
    /\ relay = TRUE /\ fileStream = "none" /\ recording = <<>> /\ relayed = <<>>

----------------------------------------------------------------------------
(* Capture. *)

Outside == <<shot, encoderVars, inFlight, relayVars>>

\* Stream_turnOn: the shell starts both ends of the pipe.
Launch ==
    /\ step = "off" /\ ~encoder
    /\ step' = "open"
    /\ count' \in FrameCounts
    /\ isInfinite' = (count' = 0)
    /\ encoder' = TRUE /\ pipe' = <<>> /\ got' = Nothing
    /\ UNCHANGED <<buffers, held, half, driverVars, shot, inFlight, relayVars>>

\* The end of the process: the kernel unmaps the buffers and closes the device.
Gone ==
    /\ step' = "off" /\ count' = 0 /\ isInfinite' = FALSE
    /\ buffers' = {} /\ held' = 0 /\ half' = 1
    /\ incoming' = <<>> /\ filled' = <<>> /\ image' = [i \in Indices |-> 0]

Exit == Gone /\ UNCHANGED Outside

Goto(place) == step' = place

OpenDevice ==
    /\ step = "open" /\ Goto("init")
    /\ UNCHANGED <<count, isInfinite, buffers, held, half, driverVars, Outside>>

\* init_mmap asks for four buffers and takes what it is granted, from two on.
InitDevice ==
    /\ step = "init"
    /\ \E n \in Granted :
        IF n < 2 THEN Exit
        ELSE /\ Goto("start")
             /\ buffers' = 0..n - 1
             /\ UNCHANGED <<count, isInfinite, held, half, driverVars, Outside>>

StartCapturing ==
    /\ step = "start" /\ Goto("select")
    /\ incoming' = [i \in 1..Cardinality(buffers) |-> i - 1]
    /\ UNCHANGED <<count, isInfinite, buffers, held, half, filled, image, Outside>>

\* Slip: the buffer goes back to the driver before it is written.
DequeueAndRequeue ==
    /\ step = "select" /\ filled # <<>>
    /\ held' = Head(filled) /\ filled' = Tail(filled)
    /\ half' = 1
    /\ incoming' = Append(incoming, held')
    /\ Goto("write")
    /\ UNCHANGED <<count, isInfinite, buffers, image, Outside>>

\* read_frame takes a filled buffer when select has found one.
Dequeue ==
    /\ step = "select" /\ filled # <<>>
    /\ held' = Head(filled) /\ filled' = Tail(filled)
    /\ half' = 1
    /\ Goto("write")
    /\ UNCHANGED <<count, isInfinite, buffers, incoming, image, Outside>>

\* Slip: waits for another thirty seconds.
SelectTimeoutRetries == step = "select" /\ filled = <<>> /\ UNCHANGED vars

\* Thirty seconds without a picture.
SelectTimeout == step = "select" /\ filled = <<>> /\ Exit

\* process_image.  Without a reader the signal of the pipe ends the program.
ProcessImage ==
    /\ step = "write"
    /\ IF ~encoder THEN Exit
       ELSE /\ Len(pipe) < PipeSize
            /\ pipe' = Append(pipe, <<image[held], half>>)
            /\ IF half = 1 THEN half' = 2 /\ UNCHANGED step
                           ELSE half' = 1 /\ Goto("requeue")
            /\ UNCHANGED <<count, isInfinite, buffers, held, driverVars, shot,
                           encoder, got, inFlight, relayVars>>

\* Slip: counts without a look at loopIsInfinite.
RequeueCounts ==
    /\ step = "requeue"
    /\ incoming' = Append(incoming, held)
    /\ count' = count - 1
    /\ Goto(IF isInfinite \/ count' > 0 THEN "select" ELSE "stop")
    /\ UNCHANGED <<isInfinite, buffers, held, half, filled, image, Outside>>

\* Slip: the request is cleared before it is used again.
RequeueCleared ==
    /\ step = "requeue"
    /\ incoming' = Append(incoming, 0)
    /\ count' = IF isInfinite THEN count ELSE count - 1
    /\ Goto(IF isInfinite \/ count' > 0 THEN "select" ELSE "stop")
    /\ UNCHANGED <<isInfinite, buffers, held, half, filled, image, Outside>>

Requeue ==
    /\ step = "requeue"
    /\ incoming' = Append(incoming, held)
    /\ count' = IF isInfinite THEN count ELSE count - 1
    /\ Goto(IF isInfinite \/ count' > 0 THEN "select" ELSE "stop")
    /\ UNCHANGED <<isInfinite, buffers, held, half, filled, image, Outside>>

StopCapturing ==
    /\ step = "stop" /\ Goto("close")
    /\ incoming' = <<>> /\ filled' = <<>>
    /\ UNCHANGED <<count, isInfinite, buffers, held, half, image, Outside>>

CloseDevice == step = "close" /\ Exit

\* errno_exit, wherever the device is asked for something.
DeviceFails ==
    /\ "device" \in Faults
    /\ step \in Steps \ {"off", "write"}
    /\ Exit

\* Stream_turnOff: pkill reaches both, wherever they are.
Kill ==
    /\ step # "off" \/ encoder
    /\ Gone
    /\ encoder' = FALSE /\ pipe' = <<>> /\ got' = Nothing
    /\ UNCHANGED <<shot, inFlight, relayVars>>

----------------------------------------------------------------------------
(* What lies between: the driver, ffmpeg, the network. *)

\* A picture for which no buffer is queued is lost.
Shoot ==
    /\ step \in {"select", "write", "requeue"}
    /\ shot < MaxShots
    /\ shot' = shot + 1
    /\ IF incoming = <<>> THEN UNCHANGED driverVars
       ELSE /\ image' = [image EXCEPT ![Head(incoming)] = shot']
            /\ filled' = Append(filled, Head(incoming))
            /\ incoming' = Tail(incoming)
    /\ UNCHANGED <<captureVars, encoderVars, inFlight, relayVars>>

\* ffmpeg sends a picture when it has read all of it.
Encode ==
    /\ encoder /\ pipe # <<>>
    /\ pipe' = Tail(pipe) /\ got' = Head(pipe)
    /\ inFlight' = IF got'[2] = 2 THEN inFlight \cup {got'[1]} ELSE inFlight
    /\ UNCHANGED <<captureVars, driverVars, shot, encoder, relayVars>>

\* It ends when nobody can write to the pipe any more.
EncoderEnds ==
    /\ encoder
    /\ (step = "off" /\ pipe = <<>>) \/ "encoder" \in Faults
    /\ encoder' = FALSE /\ pipe' = <<>> /\ got' = Nothing
    /\ UNCHANGED <<captureVars, driverVars, shot, inFlight, relayVars>>

Lose ==
    /\ "lose" \in Faults \/ ~relay
    /\ \E d \in inFlight : inFlight' = inFlight \ {d}
    /\ UNCHANGED <<captureVars, driverVars, shot, encoderVars, relayVars>>

----------------------------------------------------------------------------
(* The relay. *)

\* A datagram that arrives, in any order, perhaps not for the last time.
Arrives(d) ==
    /\ relay
    /\ d \in inFlight
    /\ \/ inFlight' = inFlight \ {d}
       \/ "repeat" \in Faults /\ Len(relayed) < MaxShots /\ UNCHANGED inFlight
    /\ UNCHANGED <<captureVars, driverVars, shot, encoderVars>>

\* Slip: opened for appending.
OpenAppends(d) ==
    /\ Arrives(d)
    /\ fileStream = "none"
    /\ fileStream' = "open"
    /\ relayed' = Append(relayed, d)
    /\ UNCHANGED <<relay, recording>>

\* The first datagram opens the recording, over the one of an earlier run, and
\* is not written to it.
Open(d) ==
    /\ Arrives(d)
    /\ fileStream = "none"
    /\ fileStream' = "open"
    /\ recording' = <<>>
    /\ relayed' = Append(relayed, d)
    /\ UNCHANGED relay

Relay(d) ==
    /\ Arrives(d)
    /\ fileStream = "open"
    /\ recording' = Append(recording, d)
    /\ relayed' = Append(relayed, d)
    /\ UNCHANGED <<relay, fileStream>>

\* What a stream held back when its process died is not in the file.
RelayGone ==
    /\ relay' = FALSE /\ fileStream' = "none" /\ relayed' = <<>>
    /\ \E n \in 0..Len(recording) : recording' = SubSeq(recording, 1, n)

\* A write after the end is an error nobody listens for.
WriteAfterEnd(d) ==
    /\ Arrives(d)
    /\ fileStream = "ended"
    /\ RelayGone

\* The handler of the socket's errors ends the recording but keeps it.
SocketError ==
    /\ "relay" \in Faults
    /\ relay /\ fileStream = "open"
    /\ fileStream' = "ended"
    /\ UNCHANGED <<captureVars, driverVars, shot, encoderVars, inFlight, relay,
                    recording, relayed>>

RelayDies ==
    /\ "relay" \in Faults
    /\ relay
    /\ RelayGone
    /\ UNCHANGED <<captureVars, driverVars, shot, encoderVars, inFlight>>

RelayStarts ==
    /\ ~relay /\ relay' = TRUE
    /\ UNCHANGED <<captureVars, driverVars, shot, encoderVars, inFlight, fileStream,
                    recording, relayed>>

----------------------------------------------------------------------------

Capture ==
    \/ OpenDevice \/ InitDevice \/ StartCapturing \/ Dequeue \/ SelectTimeout
    \/ ProcessImage \/ Requeue \/ StopCapturing \/ CloseDevice

Next ==
    \/ Launch \/ Capture \/ DeviceFails \/ Kill
    \/ Shoot \/ Encode \/ EncoderEnds \/ Lose
    \/ \E d \in Shots : Open(d) \/ Relay(d) \/ WriteAfterEnd(d)
    \/ SocketError \/ RelayDies \/ RelayStarts

\* Capture is scheduled and select has a timeout; ffmpeg reads.  Nothing is asked
\* of the camera, of whoever kills, or of the network.
Fairness == WF_vars(Capture) /\ WF_vars(Encode)

Spec == Init /\ [][Next]_vars /\ Fairness

----------------------------------------------------------------------------
(* Properties. *)

Taken == IF step \in {"write", "requeue"} THEN <<held>> ELSE <<>>

\* While the camera runs each buffer is in one place: queued, filled, or in
\* capture's hands; read_frame gives back what it has taken, and nothing else.
BuffersKept ==
    step \in {"select", "write", "requeue"} =>
        LET all == incoming \o filled \o Taken
        IN  /\ Len(all) = Cardinality(buffers)
            /\ {all[i] : i \in DOMAIN all} = buffers

Follows(h, g) ==
    IF g[2] = 1 THEN h = <<g[1], 2>> ELSE h[2] = 1 /\ h[1] > g[1]

\* What ffmpeg reads are whole pictures in the order they were taken: the driver
\* never gets a buffer back that process_image has not written in full.
WholeFramesInOrder ==
    LET s == <<got>> \o pipe
    IN  \A i \in 1..Len(s) - 1 : Follows(s[i + 1], s[i])

\* The recording of this run of the relay is what the pages saw, but for the
\* datagram that opened it, over any number of sessions of the camera.
RecordingIsRelayed == fileStream # "none" => recording = Tail(relayed)

\* A capture nobody reads from does not keep the camera (mainloop's timeout of
\* select, where the camera has stopped delivering as well).
CameraIsReleased == ~encoder ~> step = "off"
=============================================================================

---------------------------- MODULE MotionWatch -----------------------------
(***************************************************************************)
(* The motion sensor (MotionSensor/motionSensor.c) and the two threads     *)
(* that poll it: the danger analyzer (DangerAnalyzer/dangerAnalyzer.c),    *)
(* always, a second's sleep after it has posted what came of the last      *)
(* poll, however long that took; and the stream controller (WebCam/Stream/ *)
(* StreamController.c), every ten milliseconds, while the camera is set to *)
(* triggered.                                                              *)
(*                                                                         *)
(* MotionSensor_getState debounces in software with two static variables,  *)
(* inDetectState and timer, that no mutex protects.  A poll is therefore   *)
(* several steps here: the line is read, the flag is read, and a last step *)
(* writes.                                                                 *)
(*                                                                         *)
(* A Tick is a fraction of a second.  A poll is over within a tick, and    *)
(* the line changes from one tick to the next; a post lasts for any number *)
(* of ticks, or for ever.                                                  *)
(***************************************************************************)
EXTENDS Naturals, FiniteSets

CONSTANTS
    AutoModes,       \* what users set "triggered" to: {FALSE} or BOOLEAN
    PulseTicks,      \* how long the hardware holds the line high
    DebounceTicks,   \* ACTIVE_DURATION_MS
    LiveTicks,       \* STREAM_DURATION_MS, scaled down
    SleepTicks,      \* SLEEP_MS of the analyzer
    MaxGap,          \* premise: the longest time between two of its polls
    QuietTicks       \* premise: the shortest time between two pulses

ASSUME MotionAssumption ==
    /\ AutoModes \subseteq BOOLEAN
    /\ PulseTicks \in Nat \ {0}
    /\ DebounceTicks \in Nat \ {0}
    /\ LiveTicks \in Nat \ {0}
    /\ SleepTicks \in Nat \ {0}
    /\ MaxGap \in Nat \ {0}
    /\ QuietTicks \in Nat \ {0}

Pollers == {"analyzer", "stream"}

VARIABLES
    isActive,        \* the sensor is enabled
    inDetectState,   \* motionSensor.c: ready to report
    timer,           \* motionSensor.c: ticks until the debounce timer expires
    pc,              \* where each poller is in MotionSensor_getState, and
                     \* "posting": the analyzer is in Http_post
    sleep,           \* ticks until the analyzer's sleep is over
    seen,            \* what it read from the line
    isTriggered,     \* StreamController.c: the camera follows the sensor
    isLive,          \* streamListenerThread: a triggered session runs
    liveTimer,       \* streamListenerThread: ticks until it expires
    cameraOn,        \* ethernetClient.c isCameraOn
    stopping,        \* the pollers told to stop
    line,            \* ticks until the sensor's line falls, 0 when low
    quiet,           \* how long the line was low, or has been, up to QuietTicks
    gap,             \* ticks since the analyzer's last poll, up to MaxGap + 1
    triggers,        \* increments of triggerCount since the line rose
    covered,         \* the sensor has been enabled since the line rose
    alone            \* the camera has been on manual since the line rose

sensorVars == <<isActive, inDetectState, timer>>
streamVars == <<isTriggered, isLive, liveTimer, cameraOn>>
pulseVars == <<line, quiet, covered, alone>>
paceVars == <<sleep, gap>>
vars == <<sensorVars, pc, seen, streamVars, stopping, pulseVars, paceVars, triggers>>

TypeOK ==
    /\ isActive \in BOOLEAN
    /\ inDetectState \in BOOLEAN
    /\ timer \in 0 .. DebounceTicks
    /\ pc \in [Pollers -> {"idle", "read", "arming", "rearming", "posting"}]
    /\ sleep \in 0 .. SleepTicks
    /\ seen \in [Pollers -> BOOLEAN]
    /\ isTriggered \in BOOLEAN
    /\ isLive \in BOOLEAN
    /\ liveTimer \in 0 .. LiveTicks
    /\ cameraOn \in BOOLEAN
    /\ stopping \subseteq Pollers
    /\ line \in 0 .. PulseTicks
    /\ quiet \in 0 .. QuietTicks
    /\ gap \in 0 .. MaxGap + 1
    /\ triggers \in Nat
    /\ covered \in BOOLEAN
    /\ alone \in BOOLEAN

Init ==
    /\ isActive = TRUE
    /\ inDetectState = TRUE
    /\ timer = 0
    /\ pc = [t \in Pollers |-> "idle"]
    /\ sleep = 0
    /\ seen = [t \in Pollers |-> FALSE]
    /\ isTriggered = FALSE
    /\ isLive = FALSE
    /\ liveTimer = 0
    /\ cameraOn = FALSE
    /\ stopping = {}
    /\ line = 0
    /\ quiet = QuietTicks
    /\ gap = 0
    /\ triggers = 0
    /\ covered = TRUE
    /\ alone = TRUE

-----------------------------------------------------------------------------
(* MotionSensor_getState, step by step *)

\* getState: a disabled sensor reads as quiet.
Read(t) ==
    /\ pc[t] = "idle"
    /\ t \notin stopping
    /\ pc' = [pc EXCEPT ![t] = "read"]
    /\ seen' = [seen EXCEPT ![t] = isActive /\ line > 0]

AnalyzerPoll ==
    /\ sleep = 0
    /\ Read("analyzer")
    /\ gap' = 0
    /\ UNCHANGED <<sensorVars, sleep, streamVars, stopping, pulseVars, triggers>>

StreamPoll ==
    /\ isTriggered
    /\ Read("stream")
    /\ UNCHANGED <<sensorVars, streamVars, stopping, pulseVars, paceVars, triggers>>

\* What a poller does with the state it is given.  The analyzer counts a
\* detection, and goes on to its post.  The stream controller turns the camera on
\* for a detection outside a session and begins one, whether or not Camera_turnOn
\* succeeds, drops a detection within a session whose time is not over, and
\* otherwise ends a session whose time is over, leaving the camera as it is.
Analyze(detected) ==
    /\ triggers' = IF detected THEN triggers + 1 ELSE triggers
    /\ UNCHANGED streamVars

\* Slip: a session is never over.
FollowForever(detected) ==
    /\ isLive' = (isLive \/ detected)
    /\ liveTimer' = IF detected THEN LiveTicks ELSE liveTimer
    /\ cameraOn' = (cameraOn \/ detected)
    /\ UNCHANGED <<isTriggered, triggers>>

Follow(detected) ==
    /\ \/ /\ detected /\ ~isLive
          /\ isLive' = TRUE
          /\ liveTimer' = LiveTicks
          /\ \E succeeds \in BOOLEAN : cameraOn' = (cameraOn \/ succeeds)
       \/ /\ ~(detected /\ ~isLive)
          /\ isLive' = (isLive /\ liveTimer > 0)
          /\ UNCHANGED <<liveTimer, cameraOn>>
    /\ UNCHANGED <<isTriggered, triggers>>

Return(t, detected) ==
    /\ pc' = [pc EXCEPT ![t] = IF t = "analyzer" THEN "posting" ELSE "idle"]
    /\ IF t = "analyzer" THEN Analyze(detected) ELSE Follow(detected)
    /\ UNCHANGED <<isActive, seen, stopping, pulseVars, paceVars>>

\* Reading the timer while the other thread writes it mixes the seconds of one
\* end with the nanoseconds of the other, which can give either answer unless
\* both ends are a whole debounce away.
TimerReads ==
    IF timer < DebounceTicks /\ \E u \in Pollers : pc[u] = "arming"
    THEN BOOLEAN ELSE {timer = 0}

\* The test of inDetectState, and of the timer when it is FALSE: either a write
\* follows, or nothing does and the state returned is PIR_NONE.
Decide(t, next) ==
    /\ pc[t] = "read"
    /\ pc' = [pc EXCEPT ![t] = next]
    /\ UNCHANGED <<sensorVars, seen, streamVars, stopping, pulseVars, paceVars, triggers>>

DecideToReport(t) ==
    /\ inDetectState
    /\ seen[t]
    /\ Decide(t, "arming")

\* Slip: the detect state is restored by a poll that finds the line low.
DecideToRearmLow(t) ==
    /\ ~inDetectState
    /\ ~seen[t]
    /\ TRUE \in TimerReads
    /\ Decide(t, "rearming")

DecideToRearm(t) ==
    /\ ~inDetectState
    /\ TRUE \in TimerReads
    /\ Decide(t, "rearming")

ReportNothing(t) ==
    /\ pc[t] = "read"
    /\ \/ inDetectState /\ ~seen[t]
       \/ ~inDetectState /\ FALSE \in TimerReads
    /\ Return(t, FALSE)
    /\ UNCHANGED <<inDetectState, timer>>

\* Slip: reporting does not leave the detect state.
ReportAgain(t) ==
    /\ pc[t] = "arming"
    /\ timer' = DebounceTicks
    /\ Return(t, TRUE)
    /\ UNCHANGED inDetectState

\* Slip: a debounce longer than ACTIVE_DURATION_MS.
ReportTooLong(t) ==
    /\ pc[t] = "arming"
    /\ timer' = DebounceTicks + 1
    /\ inDetectState' = FALSE
    /\ Return(t, TRUE)

\* Timer_start, inDetectState = false, return PIR_DETECT.
Report(t) ==
    /\ pc[t] = "arming"
    /\ timer' = DebounceTicks
    /\ inDetectState' = FALSE
    /\ Return(t, TRUE)

\* Slip: the detect state is not restored.
RearmForgets(t) ==
    /\ pc[t] = "rearming"
    /\ Return(t, FALSE)
    /\ UNCHANGED <<inDetectState, timer>>

\* inDetectState = true, return PIR_NONE: the line is not looked at again.
Rearm(t) ==
    /\ pc[t] = "rearming"
    /\ inDetectState' = TRUE
    /\ Return(t, FALSE)
    /\ UNCHANGED timer

-----------------------------------------------------------------------------
(* The loops around it *)

\* Http_post returns, and the analyzer goes to sleep.
Posted ==
    /\ pc["analyzer"] = "posting"
    /\ pc' = [pc EXCEPT !["analyzer"] = "idle"]
    /\ sleep' = SleepTicks
    /\ UNCHANGED <<sensorVars, gap, seen, streamVars, stopping, pulseVars, triggers>>

\* The stream thread's loop while the camera is on manual.
StandDown ==
    /\ pc["stream"] = "idle"
    /\ "stream" \notin stopping
    /\ ~isTriggered
    /\ isLive
    /\ isLive' = FALSE
    /\ UNCHANGED <<sensorVars, pc, seen, isTriggered, liveTimer, cameraOn,
                   stopping, pulseVars, paceVars, triggers>>

-----------------------------------------------------------------------------
(* The users, at the menu and over the network, and the environment *)

\* MotionSensor_toggle
ToggleSensor ==
    /\ isActive' = ~isActive
    /\ covered' = FALSE
    /\ UNCHANGED <<inDetectState, timer, pc, seen, streamVars, stopping, line,
                   quiet, alone, paceVars, triggers>>

\* Stream_Controller_setAuto and Stream_Controller_toggle
SetAuto ==
    /\ isTriggered' \in AutoModes \ {isTriggered}
    /\ alone' = FALSE
    /\ UNCHANGED <<sensorVars, pc, seen, isLive, liveTimer, cameraOn, stopping,
                   line, quiet, covered, paceVars, triggers>>

\* The users switch the camera only while it is not triggered.
SwitchByHand ==
    /\ ~isTriggered
    /\ cameraOn' = ~cameraOn
    /\ UNCHANGED <<sensorVars, pc, seen, isTriggered, isLive, liveTimer, stopping,
                   pulseVars, paceVars, triggers>>

\* Controller_stop: the stream controller first, then the danger analyzer.
Stop(t) ==
    /\ t \notin stopping
    /\ t = "analyzer" => "stream" \in stopping
    /\ stopping' = stopping \cup {t}
    /\ covered' = FALSE
    /\ UNCHANGED <<sensorVars, pc, seen, streamVars, line, quiet, alone,
                   paceVars, triggers>>

Down(n) == IF n > 0 THEN n - 1 ELSE 0
Up(n, bound) == IF n < bound THEN n + 1 ELSE bound

\* The next tick, once an analyzer whose sleep is over has polled.  The line falls
\* when the pulse is over; a low line may rise.
Tick ==
    /\ \A t \in Pollers : pc[t] \in {"idle", "posting"}
    /\ pc["analyzer"] = "idle" => sleep > 0 \/ "analyzer" \in stopping
    /\ timer' = Down(timer)
    /\ liveTimer' = Down(liveTimer)
    /\ sleep' = Down(sleep)
    /\ gap' = Up(gap, MaxGap + 1)
    /\ \/ /\ line > 0
          /\ line' = line - 1
          /\ quiet' = IF line = 1 THEN 0 ELSE quiet
          /\ UNCHANGED <<covered, alone, triggers>>
       \/ /\ line = 0
          /\ line' \in {0, PulseTicks}
          /\ quiet' = Up(quiet, QuietTicks)
          /\ triggers' = 0
          /\ covered' = (isActive /\ stopping = {})
          /\ alone' = ~isTriggered
    /\ UNCHANGED <<isActive, inDetectState, pc, seen, isTriggered, isLive,
                   cameraOn, stopping>>

-----------------------------------------------------------------------------
\* Whatever thread t does next.
Step(t) ==
    \/ t = "analyzer" /\ AnalyzerPoll
    \/ t = "stream" /\ (StreamPoll \/ StandDown)
    \/ DecideToReport(t)
    \/ DecideToRearm(t)
    \/ ReportNothing(t)
    \/ Report(t)
    \/ Rearm(t)

Next ==
    \/ \E t \in Pollers :
        \/ DecideToReport(t)
        \/ DecideToRearm(t)
        \/ ReportNothing(t)
        \/ Report(t)
        \/ Rearm(t)
        \/ Stop(t)
    \/ AnalyzerPoll
    \/ StreamPoll
    \/ Posted
    \/ StandDown
    \/ ToggleSensor
    \/ SetAuto
    \/ SwitchByHand
    \/ Tick

\* Both loops run, and time passes while they sleep, however often the stream
\* thread polls in between (strong: each of its polls disables Tick for a while);
\* nobody has to touch the controls.  Nor does a post have to return: http.c sets
\* no timeout.
Fairness ==
    /\ \A t \in Pollers : WF_vars(Step(t))
    /\ SF_vars(Tick)

Spec == Init /\ [][Next]_vars /\ Fairness

-----------------------------------------------------------------------------
(* Properties *)

\* A pulse has just ended that came while the sensor was enabled, with the camera
\* on manual all the time.
PulseOver ==
    /\ line = 0
    /\ quiet = 0
    /\ covered
    /\ alone

\* Software debouncing works whoever polls: the analyzer never counts one pulse
\* of the line twice (motionSensor.h: "does software debouncing to get the
\* correct state"), although the stream thread's writes to inDetectState and
\* timer interleave with its own.
NoDoubleCount == triggers <= 1

\* dangerAnalyzer.c of its sleep between polls: "setting it to 1s will always
\* catch detections".
AlwaysCaught == PulseOver => triggers = 1

\* The analyzer polls at least every MaxGap ticks: no post takes long.
Punctual == gap <= MaxGap

\* The line was low for QuietTicks before it rose.
Spaced == line > 0 => quiet = QuietTicks

\* What is true of it: the analyzer counts every such pulse exactly once as long
\* as its polls keep to MaxGap, with whatever drift, and pulses to QuietTicks,
\* whoever has polled before.  The poll that ends the debounce does not look at
\* the line (motionSensor.c MotionSensor_getState): it is the one after it that
\* has to fall into the pulse.
EveryPulseCountedAlone == [](Punctual /\ Spaced) => []AlwaysCaught

\* A detection does not leave the sensor deaf: while a poller runs and its posts
\* return, the debounce state always ends, also when the two threads race for it.
SensorRecovers ==
    []<>(pc["analyzer"] # "posting") =>
        (~inDetectState ~> inDetectState \/ "analyzer" \in stopping)

\* A triggered session ends, so that a later detection can begin another
\* (streamListenerThread).
SessionEnds == isLive ~> ~isLive \/ "stream" \in stopping

\* StreamController.h: "If set to triggered the camera turns on for 2min if
\* motion sensor is triggered."  So once all is quiet in a session, the camera
\* goes off, unless it is set to manual, or something moves, or the program ends.
CameraGoesOff ==
    isLive /\ cameraOn /\ line = 0 ~>
        ~cameraOn \/ ~isTriggered \/ line > 0 \/ stopping # {}
=============================================================================

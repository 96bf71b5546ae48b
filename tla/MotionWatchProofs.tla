-------------------------- MODULE MotionWatchProofs --------------------------
(***************************************************************************)
(* Proofs about MotionWatch, for every duration of pulses, debounce, sleep *)
(* and sessions: the unlocked debounce state of the motion sensor counts   *)
(* no pulse twice as long as a pulse is not longer than the debounce, and  *)
(* misses none while the analyzer polls alone, its polls are close enough  *)
(* and pulses far enough apart.                                            *)
(***************************************************************************)
EXTENDS MotionWatch, TLAPS

\* The analyzer has a sleep before it until its next poll.
Resting == pc["analyzer"] = "posting" \/ (pc["analyzer"] = "idle" /\ sleep > 0)

\* What a poller carries from the line to its write.  A poller that is about to
\* report has seen the line high in this tick, and found the flag set; if the
\* flag is not set any more, the other poller has just reported.  A poller that
\* is about to restore the flag found it not set, and if it is set now, the
\* other poller has restored it, and the analyzer sleeps after it has.
PollInv ==
    /\ \A t \in Pollers :
        /\ pc[t] \in {"read", "arming"} /\ seen[t] => line > 0
        /\ pc[t] = "arming" => seen[t] /\ (inDetectState \/ timer = DebounceTicks)
    /\ pc["stream"] = "rearming" /\ inDetectState => Resting
    /\ pc["stream"] = "rearming" => pc["analyzer"] # "arming"

\* Once a pulse has been counted the flag is not set and the timer outlasts the
\* pulse.
CountedInv ==
    triggers > 0 /\ line > 0 =>
        /\ ~inDetectState
        /\ timer >= line
        /\ \A t \in Pollers : pc[t] # "rearming"
        /\ pc["analyzer"] # "arming"

\* Where a poller may be.
Places == {"idle", "read", "arming", "rearming", "posting"}

\* A poller's own steps, and all others.
Polls(t) ==
    \/ DecideToReport(t) \/ DecideToRearm(t) \/ ReportNothing(t)
    \/ Report(t) \/ Rearm(t)

LEMMA Cases ==
    ASSUME [Next]_vars
    PROVE  \/ \E t \in Pollers : Polls(t) \/ Stop(t)
           \/ AnalyzerPoll \/ StreamPoll \/ Posted \/ StandDown \/ ToggleSensor
           \/ SetAuto \/ SwitchByHand \/ Tick \/ UNCHANGED vars
  BY DEF Next, Polls

\* The follower of the sensor keeps the types of its own variables.
LEMMA FollowTyped ==
    ASSUME TypeOK, NEW detected \in BOOLEAN, Follow(detected)
    PROVE  /\ isTriggered' \in BOOLEAN /\ isLive' \in BOOLEAN
           /\ liveTimer' \in 0 .. LiveTicks /\ cameraOn' \in BOOLEAN
           /\ triggers' \in Nat
<1>1. liveTimer' \in 0 .. LiveTicks
  <2>1. liveTimer' \in {liveTimer, LiveTicks}
    BY DEF Follow
  <2> QED
    BY <2>1, MotionAssumption DEF TypeOK
<1>2. isLive' \in BOOLEAN
  BY DEF Follow
<1>3. cameraOn' \in BOOLEAN
  BY DEF TypeOK, Follow
<1>4. isTriggered' \in BOOLEAN /\ triggers' \in Nat
  BY DEF TypeOK, Follow
<1> QED
  BY <1>1, <1>2, <1>3, <1>4

LEMMA ReturnTyped ==
    ASSUME TypeOK, NEW t \in Pollers, NEW detected \in BOOLEAN, Return(t, detected)
    PROVE  /\ pc' \in [Pollers -> Places]
           /\ isTriggered' \in BOOLEAN /\ isLive' \in BOOLEAN
           /\ liveTimer' \in 0 .. LiveTicks /\ cameraOn' \in BOOLEAN
           /\ triggers' \in Nat
<1>1. pc' \in [Pollers -> Places]
  BY DEF TypeOK, Return, Places
<1>2. CASE t = "analyzer"
  <2>1. triggers' \in Nat
    BY <1>2 DEF TypeOK, Return, Analyze
  <2>2. UNCHANGED streamVars
    BY <1>2 DEF Return, Analyze
  <2> QED
    BY <1>1, <2>1, <2>2 DEF TypeOK, streamVars
<1>3. CASE t # "analyzer"
  <2>1. Follow(detected)
    BY <1>3 DEF Return
  <2> QED
    BY <1>1, <2>1, FollowTyped
<1> QED
  BY <1>2, <1>3

\* Every variable keeps its type, the debounce timer its range also where the two
\* pollers write it at once.
THEOREM TypeCorrect == Spec => []TypeOK
<1>1. Init => TypeOK
  <2> SUFFICES ASSUME Init
               PROVE  TypeOK
    OBVIOUS
  <2>1. /\ timer \in 0 .. DebounceTicks /\ liveTimer \in 0 .. LiveTicks
        /\ line \in 0 .. PulseTicks /\ triggers \in Nat
        /\ sleep \in 0 .. SleepTicks /\ quiet \in 0 .. QuietTicks /\ gap \in 0 .. MaxGap + 1
    BY MotionAssumption DEF Init
  <2>2. stopping \subseteq Pollers
    BY DEF Init
  <2> QED
    BY <2>1, <2>2 DEF Init, TypeOK
<1>2. TypeOK /\ [Next]_vars => TypeOK'
  <2> SUFFICES ASSUME TypeOK, [Next]_vars
               PROVE  TypeOK'
    OBVIOUS
  <2>1. ASSUME NEW t \in Pollers, DecideToReport(t) \/ DecideToRearm(t)
        PROVE  TypeOK'
    BY <2>1 DEF TypeOK, DecideToReport, DecideToRearm, Decide, sensorVars, streamVars,
                pulseVars, paceVars
  <2>2. ASSUME NEW t \in Pollers, ReportNothing(t) \/ Report(t) \/ Rearm(t)
        PROVE  TypeOK'
    <3>1. PICK detected \in BOOLEAN : Return(t, detected)
      <4>1. Return(t, FALSE) \/ Return(t, TRUE)
        BY <2>2 DEF ReportNothing, Report, Rearm
      <4> QED
        BY <4>1
    <3>2. inDetectState' \in BOOLEAN /\ timer' \in 0 .. DebounceTicks
      <4>1. CASE ReportNothing(t)
        BY <4>1 DEF TypeOK, ReportNothing
      <4>2. CASE Report(t)
        <5>1. timer' \in 0 .. DebounceTicks
          BY <4>2, MotionAssumption DEF Report
        <5> QED
          BY <4>2, <5>1 DEF Report
      <4>3. CASE Rearm(t)
        BY <4>3 DEF TypeOK, Rearm
      <4> QED
        BY <2>2, <4>1, <4>2, <4>3
    <3> QED
      BY <3>1, <3>2, ReturnTyped DEF TypeOK, Return, pulseVars, paceVars, Places
  <2>3. ASSUME NEW t \in Pollers, Stop(t)
        PROVE  TypeOK'
    BY <2>3 DEF TypeOK, Stop, sensorVars, streamVars, paceVars
  <2>4. ASSUME AnalyzerPoll \/ StreamPoll
        PROVE  TypeOK'
    <3>1. PICK t \in Pollers : Read(t)
      BY <2>4 DEF AnalyzerPoll, StreamPoll, Pollers
    <3>2. seen' \in [Pollers -> BOOLEAN]
      BY <3>1 DEF TypeOK, Read
    <3>3. pc' \in [Pollers -> Places]
      BY <3>1 DEF TypeOK, Read, Places
    <3>4. stopping' = stopping /\ sleep' = sleep
      BY <2>4, <3>1 DEF TypeOK, AnalyzerPoll, StreamPoll, Read, paceVars
    <3>5. gap' \in 0 .. MaxGap + 1
      BY <2>4, MotionAssumption DEF TypeOK, AnalyzerPoll, StreamPoll, paceVars
    <3> QED
      BY <2>4, <3>2, <3>3, <3>4, <3>5
      DEF TypeOK, AnalyzerPoll, StreamPoll, sensorVars, streamVars, pulseVars, Places
  <2>5. ASSUME StandDown \/ ToggleSensor \/ SwitchByHand \/ UNCHANGED vars
        PROVE  TypeOK'
    BY <2>5 DEF TypeOK, StandDown, ToggleSensor, SwitchByHand, vars, sensorVars,
                streamVars, pulseVars, paceVars
  <2>6. ASSUME SetAuto
        PROVE  TypeOK'
    BY <2>6, MotionAssumption DEF TypeOK, SetAuto, sensorVars, paceVars
  <2>8. ASSUME Posted
        PROVE  TypeOK'
    <3>1. sleep' \in 0 .. SleepTicks
      BY <2>8, MotionAssumption DEF Posted
    <3> QED
      BY <2>8, <3>1 DEF TypeOK, Posted, sensorVars, streamVars, pulseVars
  <2>7. ASSUME Tick
        PROVE  TypeOK'
    <3>1. /\ timer' \in 0 .. DebounceTicks /\ liveTimer' \in 0 .. LiveTicks
          /\ line' \in 0 .. PulseTicks /\ triggers' \in Nat
      BY <2>7, MotionAssumption DEF TypeOK, Tick, Down
    <3>2. covered' \in BOOLEAN /\ alone' \in BOOLEAN
      BY <2>7 DEF TypeOK, Tick
    <3>3. sleep' \in 0 .. SleepTicks
      BY <2>7, MotionAssumption DEF TypeOK, Tick, Down
    <3>4. gap' \in 0 .. MaxGap + 1
      BY <2>7, MotionAssumption DEF TypeOK, Tick, Up
    <3>5. quiet' \in 0 .. QuietTicks
      BY <2>7, MotionAssumption DEF TypeOK, Tick, Up
    <3> QED
      BY <2>7, <3>1, <3>2, <3>3, <3>4, <3>5 DEF TypeOK, Tick
  <2> QED
    BY <2>1, <2>2, <2>3, <2>4, <2>5, <2>6, <2>7, <2>8, Cases DEF Polls
<1> QED
  BY <1>1, <1>2, PTL DEF Spec

-----------------------------------------------------------------------------
(* No pulse is counted twice. *)

LEMMA StartsQuiet == Init => PollInv /\ CountedInv /\ NoDoubleCount
  BY DEF Init, PollInv, CountedInv, NoDoubleCount, Pollers

\* A poller's step moves that poller only.
LEMMA MovesOne ==
    ASSUME TypeOK, NEW t \in Pollers, NEW place, pc' = [pc EXCEPT ![t] = place]
    PROVE  /\ pc'[t] = place
           /\ \A u \in Pollers \ {t} : pc'[u] = pc[u]
  BY DEF TypeOK

LEMMA PollKeeps ==
    ASSUME TypeOK, PollInv, AnalyzerPoll \/ StreamPoll
    PROVE  PollInv'
<1>1. PICK t \in Pollers : Read(t) /\ (t = "analyzer" => sleep = 0)
  BY DEF AnalyzerPoll, StreamPoll, Pollers
<1>2. UNCHANGED <<inDetectState, timer, line, sleep>>
  BY DEF AnalyzerPoll, StreamPoll, sensorVars, pulseVars, paceVars
<1>3. seen'[t] = (isActive /\ line > 0)
  BY <1>1 DEF TypeOK, Read
<1>4. seen'[t] => line' > 0
  BY <1>2, <1>3
<1>5. \A u \in Pollers \ {t} : seen'[u] = seen[u]
  BY <1>1 DEF TypeOK, Read
<1>6. pc[t] = "idle" /\ pc' = [pc EXCEPT ![t] = "read"]
  BY <1>1 DEF Read
<1> QED
  BY <1>1, <1>2, <1>4, <1>5, <1>6 DEF TypeOK, PollInv, Resting, Pollers

LEMMA DecideToReportKeeps ==
    ASSUME TypeOK, PollInv, NEW t \in Pollers, DecideToReport(t)
    PROVE  PollInv'
  BY DEF TypeOK, PollInv, Resting, DecideToReport, Decide, Pollers, sensorVars, pulseVars,
         paceVars

\* The race for the timer has one outcome where it matters: a poller that finds
\* the flag cleared while the other is still to report finds a timer just
\* started.
LEMMA TimerNotTorn ==
    ASSUME TypeOK, PollInv, ~inDetectState, TRUE \in TimerReads
    PROVE  timer = 0 /\ \A t \in Pollers : pc[t] # "arming"
<1>1. ASSUME NEW t \in Pollers, pc[t] = "arming"
      PROVE  timer = DebounceTicks
  BY <1>1 DEF PollInv
<1>2. ASSUME ~(timer < DebounceTicks) \/ \A t \in Pollers : pc[t] # "arming"
      PROVE  timer = 0
  <2>1. TimerReads = {timer = 0}
    BY <1>2 DEF TimerReads
  <2>2. TRUE \in {timer = 0}
    BY <2>1, Zenon
  <2> QED
    BY <2>2, Zenon
<1>3. timer = DebounceTicks => ~(timer < DebounceTicks)
  BY MotionAssumption
<1>4. timer = 0
  BY <1>1, <1>2, <1>3
<1> QED
  BY <1>1, <1>4, MotionAssumption

LEMMA DecideToRearmKeeps ==
    ASSUME TypeOK, PollInv, NEW t \in Pollers, DecideToRearm(t)
    PROVE  PollInv'
<1>1. ~inDetectState /\ \A u \in Pollers : pc[u] # "arming"
  BY TimerNotTorn DEF DecideToRearm
<1> QED
  BY <1>1 DEF TypeOK, PollInv, Resting, DecideToRearm, Decide, Pollers, sensorVars, pulseVars,
         paceVars

LEMMA ReturnKeeps ==
    ASSUME TypeOK, PollInv, NEW t \in Pollers, ReportNothing(t) \/ Report(t) \/ Rearm(t)
    PROVE  PollInv'
<1>1. CASE ReportNothing(t)
  BY <1>1 DEF TypeOK, PollInv, Resting, ReportNothing, Return, Pollers, pulseVars, paceVars
<1>2. CASE Report(t)
  BY <1>2 DEF TypeOK, PollInv, Resting, Report, Return, Pollers, pulseVars, paceVars
<1>3. CASE Rearm(t)
  BY <1>3 DEF TypeOK, PollInv, Resting, Rearm, Return, Pollers, pulseVars, paceVars
<1> QED
  BY <1>1, <1>2, <1>3

LEMMA OthersKeep ==
    ASSUME TypeOK, PollInv,
           \/ \E t \in Pollers : Stop(t)
           \/ StandDown \/ ToggleSensor \/ SetAuto \/ SwitchByHand \/ UNCHANGED vars
    PROVE  PollInv'
<1>1. UNCHANGED <<inDetectState, timer, pc, seen, line, sleep>>
  BY DEF Stop, StandDown, ToggleSensor, SetAuto, SwitchByHand, vars, sensorVars, pulseVars,
         paceVars
<1> QED
  BY <1>1 DEF PollInv, Resting

LEMMA PostedKeeps ==
    ASSUME TypeOK, PollInv, Posted
    PROVE  PollInv'
<1>1. pc'["analyzer"] = "idle" /\ pc'["stream"] = pc["stream"] /\ sleep' > 0
  BY MotionAssumption DEF TypeOK, Posted, Pollers
<1>2. UNCHANGED <<inDetectState, timer, seen, line>>
  BY DEF Posted, sensorVars, pulseVars
<1> QED
  BY <1>1, <1>2 DEF PollInv, Resting, Pollers

LEMMA TickKeeps ==
    ASSUME TypeOK, PollInv, Tick
    PROVE  PollInv'
<1>1. \A t \in Pollers : pc'[t] \in {"idle", "posting"}
  BY DEF Tick
<1> QED
  BY <1>1 DEF PollInv, Pollers

LEMMA PollInvKept ==
    ASSUME TypeOK, PollInv, [Next]_vars
    PROVE  PollInv'
  BY Cases, PollKeeps, DecideToReportKeeps, DecideToRearmKeeps, ReturnKeeps, OthersKeep,
     PostedKeeps, TickKeeps DEF Polls

\* Counting happens in one place, and puts the flag and the timer right for the
\* rest of the pulse.
LEMMA ReportCounts ==
    ASSUME TypeOK, PollInv, CountedInv, NoDoubleCount, PulseTicks <= DebounceTicks,
           NEW t \in Pollers, Report(t)
    PROVE  CountedInv' /\ NoDoubleCount'
<1>1. pc[t] = "arming" /\ line > 0 /\ line' = line /\ line \in 0 .. PulseTicks
  BY DEF TypeOK, PollInv, Report, Return, pulseVars
<1>2. timer' = DebounceTicks /\ ~inDetectState'
  BY DEF Report
<1>3. timer' >= line'
  BY <1>1, <1>2, MotionAssumption
<1>4. pc'[t] \in {"idle", "posting"} /\ \A u \in Pollers \ {t} : pc'[u] = pc[u]
  BY MovesOne DEF Report, Return
<1>5. CASE t = "analyzer"
  <2>1. triggers = 0
    BY <1>1, <1>5 DEF TypeOK, CountedInv
  <2>2. triggers' = 1
    BY <1>5, <2>1 DEF Report, Return, Analyze
  <2>3. \A u \in Pollers : pc'[u] # "rearming"
    BY <1>1, <1>4, <1>5 DEF PollInv, Pollers
  <2> QED
    BY <1>2, <1>3, <1>4, <1>5, <2>2, <2>3 DEF CountedInv, NoDoubleCount
<1>6. CASE t = "stream"
  <2>1. triggers' = triggers
    BY <1>6 DEF Report, Return, Follow
  <2> QED
    BY <1>1, <1>2, <1>3, <1>4, <1>6, <2>1 DEF CountedInv, NoDoubleCount, Pollers
<1> QED
  BY <1>5, <1>6 DEF Pollers

\* Until then, and after, no other step of a poller counts or clears what a count
\* has set.
LEMMA OtherPollsCount ==
    ASSUME TypeOK, PollInv, CountedInv, NoDoubleCount, NEW t \in Pollers,
           Polls(t), ~Report(t)
    PROVE  CountedInv' /\ NoDoubleCount'
<1>1. UNCHANGED <<line, triggers>>
  BY DEF Polls, DecideToReport, DecideToRearm, Decide, ReportNothing, Rearm, Return,
         Analyze, Follow, pulseVars
<1>2. CASE triggers > 0 /\ line > 0
  <2>1. ~inDetectState /\ timer >= line /\ timer # 0
    BY <1>2 DEF TypeOK, CountedInv
  <2>2. ReportNothing(t)
    BY <1>2, <2>1, TimerNotTorn DEF Polls, DecideToReport, DecideToRearm, Rearm, CountedInv
  <2>3. /\ UNCHANGED <<inDetectState, timer>>
        /\ pc'[t] \in {"idle", "posting"} /\ \A u \in Pollers \ {t} : pc'[u] = pc[u]
    BY <2>2, MovesOne DEF ReportNothing, Return
  <2> QED
    BY <1>1, <1>2, <2>3 DEF TypeOK, CountedInv, NoDoubleCount, Pollers
<1> QED
  BY <1>1, <1>2 DEF CountedInv, NoDoubleCount

LEMMA RestCounts ==
    ASSUME TypeOK, PollInv, CountedInv, NoDoubleCount,
           \/ \E t \in Pollers : Stop(t)
           \/ AnalyzerPoll \/ StreamPoll \/ Posted \/ StandDown \/ ToggleSensor
           \/ SetAuto \/ SwitchByHand \/ UNCHANGED vars
    PROVE  CountedInv' /\ NoDoubleCount'
<1>1. UNCHANGED <<inDetectState, timer, line, triggers>>
  BY DEF Stop, AnalyzerPoll, StreamPoll, Posted, StandDown, ToggleSensor, SetAuto,
         SwitchByHand, vars, sensorVars, pulseVars
<1>2. \A t \in Pollers : pc'[t] \in {pc[t], "read", "idle"}
  BY DEF TypeOK, Stop, AnalyzerPoll, StreamPoll, Posted, Read, StandDown, ToggleSensor,
         SetAuto, SwitchByHand, vars
<1> QED
  BY <1>1, <1>2 DEF CountedInv, NoDoubleCount, Pollers

\* Pulse and timer run down together.
LEMMA TickCounts ==
    ASSUME TypeOK, CountedInv, NoDoubleCount, Tick
    PROVE  CountedInv' /\ NoDoubleCount'
<1>1. \A t \in Pollers : pc'[t] \in {"idle", "posting"}
  BY DEF Tick
<1>2. inDetectState' = inDetectState /\ timer' = IF timer > 0 THEN timer - 1 ELSE 0
  BY DEF Tick, Down
<1>3. CASE line > 0 /\ line' = line - 1 /\ triggers' = triggers
  BY <1>1, <1>2, <1>3 DEF TypeOK, CountedInv, NoDoubleCount, Pollers
<1>4. CASE triggers' = 0
  BY <1>4 DEF CountedInv, NoDoubleCount
<1> QED
  BY <1>3, <1>4 DEF Tick

\* Software debouncing works whoever polls, for pulses not longer than the
\* debounce (motionSensor.h): the analyzer never counts one pulse of the line
\* twice, although nothing protects the debounce state from the other poller.
THEOREM NoneTwice ==
    ASSUME PulseTicks <= DebounceTicks
    PROVE  Spec => []NoDoubleCount
<1>1. Init => PollInv /\ CountedInv /\ NoDoubleCount
  BY StartsQuiet
<1>2. TypeOK /\ PollInv /\ CountedInv /\ NoDoubleCount /\ [Next]_vars
        => (PollInv /\ CountedInv /\ NoDoubleCount)'
  <2> SUFFICES ASSUME TypeOK, PollInv, CountedInv, NoDoubleCount, [Next]_vars
               PROVE  CountedInv' /\ NoDoubleCount'
    BY PollInvKept
  <2> QED
    BY Cases, ReportCounts, OtherPollsCount, RestCounts, TickCounts
<1> QED
  BY <1>1, <1>2, TypeCorrect, PTL DEF Spec

-----------------------------------------------------------------------------
(* No pulse is missed. *)

Premise == Punctual /\ Spaced

\* While the camera is on manual the stream thread does not poll, and while a
\* pulse may still count the sensor is enabled and nobody has been stopped.
AloneInv ==
    /\ pc["stream"] # "posting"
    /\ alone => ~isTriggered /\ pc["stream"] = "idle"
    /\ line > 0 /\ covered => isActive /\ stopping = {}

\* Between pulses: a debounce that is not over began no later than the pulse
\* ended; one that is over waits for the analyzer's next poll.
LowInv ==
    line = 0 /\ ~inDetectState =>
        \/ timer > 0 /\ timer + quiet < DebounceTicks
        \/ timer = 0 /\ gap + DebounceTicks >= quiet + 2
        \/ timer = 0 /\ pc["analyzer"] \in {"read", "rearming"}

\* The rest of a pulse that is still to be counted has room for the polls it
\* takes: one if the sensor is ready, two if the debounce is over, and the rest of
\* the debounce before them if it is not.
RoomAfterDebounce ==
    ~inDetectState /\ timer > 0 => line + 1 > timer + 2 * MaxGap

RoomWhileAway ==
    /\ inDetectState => line + gap > MaxGap
    /\ RoomAfterDebounce
    /\ ~inDetectState /\ timer = 0 => line + gap > 2 * MaxGap

RoomInPoll ==
    /\ seen["analyzer"]
    /\ RoomAfterDebounce
    /\ ~inDetectState /\ timer = 0 => line > MaxGap

RoomInv ==
    line > 0 /\ covered /\ alone /\ triggers = 0 =>
        /\ pc["analyzer"] \in {"idle", "posting"} => RoomWhileAway
        /\ pc["analyzer"] = "read" => RoomInPoll
        /\ pc["analyzer"] = "rearming" => line > MaxGap

LEMMA StartsReady == Init => AloneInv /\ LowInv /\ RoomInv /\ AlwaysCaught
  BY MotionAssumption DEF Init, AloneInv, LowInv, RoomInv, AlwaysCaught, PulseOver, Pollers

LEMMA AloneKept ==
    ASSUME TypeOK, AloneInv, [Next]_vars
    PROVE  AloneInv'
<1>1. ASSUME NEW t \in Pollers, Polls(t)
      PROVE  AloneInv'
  <2>1. UNCHANGED <<line, covered, alone, isTriggered, isActive, stopping>>
    BY <1>1 DEF Polls, DecideToReport, DecideToRearm, Decide, ReportNothing, Report, Rearm,
               Return, Analyze, Follow, sensorVars, streamVars, pulseVars
  <2>2. pc[t] \in {"read", "arming", "rearming"} /\ \A u \in Pollers \ {t} : pc'[u] = pc[u]
    BY <1>1, MovesOne DEF Polls, DecideToReport, DecideToRearm, Decide, ReportNothing,
               Report, Rearm, Return
  <2>3. t = "stream" => pc'[t] # "posting"
    BY <1>1 DEF TypeOK, Polls, DecideToReport, DecideToRearm, Decide, ReportNothing,
               Report, Rearm, Return
  <2> QED
    BY <2>1, <2>2, <2>3 DEF AloneInv, Pollers
<1>2. CASE AnalyzerPoll \/ StreamPoll \/ Posted
  <2>1. UNCHANGED <<line, covered, alone, isTriggered, isActive, stopping>>
    BY <1>2 DEF AnalyzerPoll, StreamPoll, Posted, sensorVars, streamVars, pulseVars
  <2>2. pc'["stream"] = pc["stream"] \/ (pc'["stream"] = "read" /\ isTriggered)
    BY <1>2 DEF TypeOK, AnalyzerPoll, StreamPoll, Posted, Read, Pollers
  <2> QED
    BY <2>1, <2>2 DEF AloneInv
<1>3. CASE (\E t \in Pollers : Stop(t)) \/ StandDown \/ ToggleSensor \/ SetAuto \/ SwitchByHand
             \/ UNCHANGED vars
  BY <1>3 DEF AloneInv, Stop, StandDown, ToggleSensor, SetAuto, SwitchByHand, vars,
             sensorVars, streamVars, pulseVars
<1>4. CASE Tick
  <2>1. pc' = pc /\ pc["stream"] = "idle"
    BY <1>4 DEF Tick, AloneInv, Pollers
  <2>2. line' > 0 => line > 0 \/ covered' = (isActive /\ stopping = {})
    BY <1>4 DEF Tick
  <2>3. line > 0 => covered' = covered /\ alone' = alone
    BY <1>4 DEF Tick
  <2>4. alone' = alone \/ alone' = ~isTriggered
    BY <1>4 DEF Tick
  <2>5. UNCHANGED <<isActive, stopping, isTriggered>>
    BY <1>4 DEF Tick
  <2>6. line' > 0 /\ covered' => isActive' /\ stopping' = {}
    <3>1. CASE line > 0
      BY <2>3, <2>5, <3>1 DEF AloneInv
    <3>2. CASE ~(line > 0)
      BY <2>2, <2>5, <3>2, Zenon
    <3> QED
      BY <3>1, <3>2
  <2>7. alone' => ~isTriggered' /\ pc'["stream"] = "idle"
    BY <2>1, <2>4, <2>5 DEF AloneInv
  <2> QED
    BY <2>1, <2>6, <2>7 DEF AloneInv
<1> QED
  BY <1>1, <1>2, <1>3, <1>4, Cases

\* A poller finds the timer torn only while the other one is to report, which
\* takes a line that is high.
LEMMA NothingWhileDue ==
    ASSUME TypeOK, PollInv, NEW t \in Pollers, ReportNothing(t), ~inDetectState,
           \A u \in Pollers : pc[u] # "arming"
    PROVE  timer > 0
<1>1. TimerReads = {timer = 0}
  BY DEF TimerReads
<1>2. FALSE \in TimerReads
  BY DEF ReportNothing
<1>3. ~(timer = 0)
  <2>1. FALSE \in {timer = 0}
    BY <1>1, <1>2, Zenon
  <2> QED
    BY <2>1, Zenon
<1> QED
  BY <1>3 DEF TypeOK

LEMMA LowPolls ==
    ASSUME TypeOK, PollInv, LowInv, NEW t \in Pollers, Polls(t)
    PROVE  LowInv'
<1> SUFFICES ASSUME line = 0
             PROVE  LowInv'
  <2>1. line' = line
    BY DEF Polls, DecideToReport, DecideToRearm, Decide, ReportNothing, Report, Rearm,
           Return, pulseVars
  <2> QED
    BY <2>1 DEF LowInv
<1>1. \A u \in Pollers : pc[u] # "arming"
  BY DEF TypeOK, PollInv
<1>2. UNCHANGED <<line, quiet, gap, timer>>
  <2>1. ~Report(t)
    BY <1>1 DEF Report
  <2> QED
    BY <2>1 DEF Polls, DecideToReport, DecideToRearm, Decide, ReportNothing, Rearm,
                Return, sensorVars, pulseVars, paceVars
<1>3. CASE ReportNothing(t)
  <2>1. ~inDetectState => timer > 0
    BY <1>1, <1>3, NothingWhileDue
  <2>2. inDetectState' = inDetectState
    BY <1>3 DEF ReportNothing
  <2> QED
    BY <1>2, <2>1, <2>2 DEF TypeOK, LowInv
<1>4. CASE DecideToRearm(t)
  <2>1. pc'["analyzer"] \in {pc["analyzer"], "rearming"} /\ inDetectState' = inDetectState
    BY <1>4 DEF TypeOK, DecideToRearm, Decide, sensorVars
  <2> QED
    BY <1>2, <2>1 DEF LowInv
<1>5. CASE Rearm(t)
  BY <1>5 DEF Rearm, LowInv
<1>6. CASE DecideToReport(t)
  BY <1>6 DEF DecideToReport, Decide, sensorVars, LowInv
<1>7. CASE Report(t)
  BY <1>1, <1>7 DEF Report
<1> QED
  BY <1>3, <1>4, <1>5, <1>6, <1>7 DEF Polls

\* Between pulses the debounce and the quiet change by a tick each.
LEMMA LowRunsDown ==
    ASSUME NEW d \in Nat, NEW k \in Nat, NEW q \in Nat, NEW g \in Nat, NEW r \in Nat,
           r <= q + 1,
           (k > 0 /\ k + q < d) \/ (k = 0 /\ g + d >= q + 2)
    PROVE  LET n == IF k > 0 THEN k - 1 ELSE 0
           IN  (n > 0 /\ n + r < d) \/ (n = 0 /\ (g + 1) + d >= r + 2)
  OBVIOUS

LEMMA LowTick ==
    ASSUME TypeOK, LowInv, Punctual, Tick
    PROVE  LowInv'
<1> SUFFICES ASSUME line' = 0, ~inDetectState
             PROVE  LowInv'
  BY DEF LowInv, Tick
<1>1. gap' = gap + 1 /\ timer' = IF timer > 0 THEN timer - 1 ELSE 0
  BY MotionAssumption DEF TypeOK, Punctual, Tick, Up, Down
<1>2. CASE line > 0
  <2>1. quiet' = 0
    BY <1>2 DEF TypeOK, Tick
  <2>2. CASE timer > 1
    BY <1>1, <2>1, <2>2, MotionAssumption DEF TypeOK, LowInv
  <2>3. CASE timer <= 1
    BY <1>1, <2>1, <2>3, MotionAssumption DEF TypeOK, LowInv
  <2> QED
    BY <2>2, <2>3 DEF TypeOK
<1>3. CASE line = 0
  <2>1. quiet' \in Nat /\ quiet' <= quiet + 1
    BY <1>3, MotionAssumption DEF TypeOK, Tick, Up
  <2>2. pc["analyzer"] \notin {"read", "rearming"}
    BY DEF Tick, Pollers
  <2>5. (timer > 0 /\ timer + quiet < DebounceTicks)
          \/ (timer = 0 /\ gap + DebounceTicks >= quiet + 2)
    BY <1>3, <2>2 DEF LowInv, Tick
  <2>6. (timer' > 0 /\ timer' + quiet' < DebounceTicks)
          \/ (timer' = 0 /\ gap' + DebounceTicks >= quiet' + 2)
    <3>1. timer \in Nat /\ quiet \in Nat /\ gap \in Nat /\ DebounceTicks \in Nat
      BY MotionAssumption DEF TypeOK
    <3> QED
      BY <1>1, <2>1, <2>5, <3>1, LowRunsDown
  <2> QED
    BY <2>6 DEF LowInv
<1> QED
  BY <1>2, <1>3 DEF TypeOK

LEMMA LowKept ==
    ASSUME TypeOK, PollInv, LowInv, Punctual, [Next]_vars
    PROVE  LowInv'
<1>1. CASE AnalyzerPoll
  <2>1. pc'["analyzer"] = "read"
    BY <1>1 DEF TypeOK, AnalyzerPoll, Read, Pollers
  <2>2. UNCHANGED <<inDetectState, timer, line, quiet>>
    BY <1>1 DEF AnalyzerPoll, sensorVars, pulseVars
  <2> QED
    BY <2>1, <2>2 DEF TypeOK, LowInv
<1>2. CASE (\E t \in Pollers : Stop(t)) \/ StreamPoll \/ StandDown \/ ToggleSensor \/ SetAuto
             \/ SwitchByHand \/ UNCHANGED vars
  <2>1. UNCHANGED <<inDetectState, timer, line, quiet, gap>>
    BY <1>2 DEF Stop, StreamPoll, StandDown, ToggleSensor, SetAuto, SwitchByHand, vars,
               sensorVars, pulseVars, paceVars
  <2>2. pc'["analyzer"] = pc["analyzer"]
    BY <1>2 DEF TypeOK, Stop, StreamPoll, Read, StandDown, ToggleSensor, SetAuto,
               SwitchByHand, vars, Pollers
  <2> QED
    BY <2>1, <2>2 DEF LowInv
<1>3. CASE Posted
  <2>1. UNCHANGED <<inDetectState, timer, line, quiet, gap>> /\ pc["analyzer"] = "posting"
    BY <1>3 DEF Posted, sensorVars, pulseVars
  <2> QED
    BY <2>1 DEF LowInv
<1> QED
  BY <1>1, <1>2, <1>3, LowPolls, LowTick, Cases

\* A pulse begins with room enough, if pulses and polls keep their distances.
LEMMA RoomAtRise ==
    ASSUME TypeOK, LowInv, Punctual, Spaced', Tick, line = 0, line' > 0,
           MaxGap <= PulseTicks, DebounceTicks + 2 * MaxGap <= PulseTicks + QuietTicks + 1
    PROVE  RoomInv'
<1>1. line' = PulseTicks /\ gap' = gap + 1 /\ quiet + 1 >= QuietTicks
  BY MotionAssumption DEF TypeOK, Punctual, Spaced, Tick, Up
<1>2. timer' = IF timer > 0 THEN timer - 1 ELSE 0
  BY DEF Tick, Down
<1>3. pc' = pc /\ inDetectState' = inDetectState /\ pc["analyzer"] \in {"idle", "posting"}
  BY DEF Tick, Pollers
<1>4. inDetectState => line' + gap' > MaxGap
  BY <1>1, MotionAssumption DEF TypeOK
<1>5. ~inDetectState /\ timer > 1 => line' + 1 > timer' + 2 * MaxGap
  BY <1>1, <1>2, <1>3, MotionAssumption DEF TypeOK, LowInv
<1>6. ~inDetectState /\ timer <= 1 => timer' = 0 /\ line' + gap' > 2 * MaxGap
  BY <1>1, <1>2, <1>3, MotionAssumption DEF TypeOK, LowInv
<1>7. timer' > 0 => timer > 1
  BY <1>2 DEF TypeOK
<1>8. RoomWhileAway'
  BY <1>2, <1>3, <1>4, <1>5, <1>6, <1>7 DEF TypeOK, RoomWhileAway, RoomAfterDebounce
<1> QED
  BY <1>3, <1>8 DEF RoomInv

\* As it runs down, the time since the last poll makes up for it; when it is over,
\* the last poll would have been too long ago.
LEMMA RoomRunsDown ==
    ASSUME TypeOK, AloneInv, RoomInv, NoDoubleCount, Punctual, Punctual', Tick, line > 0
    PROVE  RoomInv' /\ AlwaysCaught'
<1>1. line' = line - 1 /\ gap' = gap + 1
  <2>1. line # 0
    BY DEF TypeOK
  <2>2. line' = line - 1
    BY <2>1 DEF Tick
  <2>3. gap' = Up(gap, MaxGap + 1)
    BY DEF Tick
  <2> QED
    BY <2>2, <2>3, MotionAssumption DEF TypeOK, Punctual, Up
<1> SUFFICES ASSUME covered, alone, triggers = 0
             PROVE  RoomInv' /\ AlwaysCaught'
  <2>1. UNCHANGED <<covered, alone, triggers>>
    BY DEF TypeOK, Tick
  <2> QED
    BY <2>1 DEF TypeOK, RoomInv, AlwaysCaught, PulseOver, NoDoubleCount
<1>2. timer' = IF timer > 0 THEN timer - 1 ELSE 0
  BY DEF Tick, Down
<1>3. pc' = pc /\ inDetectState' = inDetectState /\ pc["analyzer"] \in {"idle", "posting"}
  BY DEF Tick, Pollers
<1>4. RoomWhileAway
  BY <1>3 DEF RoomInv
<1>5. inDetectState => line' + gap' > MaxGap
  BY <1>1, <1>4 DEF TypeOK, RoomWhileAway
<1>6. ~inDetectState /\ timer > 1 => line' + 1 > timer' + 2 * MaxGap
  BY <1>1, <1>2, <1>4, MotionAssumption DEF TypeOK, RoomWhileAway, RoomAfterDebounce
<1>7. ~inDetectState /\ timer <= 1 => timer' = 0 /\ line' + gap' > 2 * MaxGap
  BY <1>1, <1>2, <1>4, MotionAssumption DEF TypeOK, RoomWhileAway, RoomAfterDebounce
<1>8. timer' > 0 => timer > 1
  BY <1>2 DEF TypeOK
<1>9. RoomInv'
  <2>1. RoomWhileAway'
    BY <1>2, <1>3, <1>5, <1>6, <1>7, <1>8 DEF TypeOK, RoomWhileAway, RoomAfterDebounce
  <2> QED
    BY <1>3, <2>1 DEF RoomInv
<1>10. line' # 0
  <2>1. inDetectState => line' > 0
    BY <1>1, <1>5, MotionAssumption DEF TypeOK, Punctual
  <2>2. ~inDetectState /\ timer > 1 => line' > 0
    BY <1>1, <1>2, <1>6, MotionAssumption DEF TypeOK, Punctual
  <2>3. ~inDetectState /\ timer <= 1 => line' > 0
    BY <1>1, <1>7, MotionAssumption DEF TypeOK, Punctual
  <2> QED
    BY <2>1, <2>2, <2>3 DEF TypeOK
<1> QED
  BY <1>9, <1>10 DEF AlwaysCaught, PulseOver

\* The polls that use it up.
LEMMA RoomPolls ==
    ASSUME TypeOK, PollInv, AloneInv, RoomInv, NoDoubleCount, NEW t \in Pollers, Polls(t)
    PROVE  RoomInv'
<1>1. UNCHANGED <<line, covered, alone, gap>>
  BY DEF Polls, DecideToReport, DecideToRearm, Decide, ReportNothing, Report, Rearm,
         Return, pulseVars, paceVars
<1> SUFFICES ASSUME line > 0, covered, alone, triggers' = 0
             PROVE  RoomInv'
  BY <1>1 DEF RoomInv
<1>2. t = "analyzer" /\ pc["stream"] = "idle"
  BY DEF Polls, DecideToReport, DecideToRearm, Decide, ReportNothing, Report, Rearm,
         AloneInv, Pollers
<1>3. CASE DecideToReport(t)
  <2>1. pc'["analyzer"] = "arming"
    BY <1>2, <1>3 DEF TypeOK, DecideToReport, Decide
  <2> QED
    BY <2>1 DEF RoomInv
<1>4. CASE DecideToRearm(t)
  <2>1. pc'["analyzer"] = "rearming" /\ pc["analyzer"] = "read" /\ triggers = 0
    BY <1>2, <1>4 DEF TypeOK, DecideToRearm, Decide
  <2>2. ~inDetectState /\ timer = 0
    BY <1>4, TimerNotTorn DEF DecideToRearm
  <2> QED
    BY <1>1, <2>1, <2>2 DEF RoomInv, RoomInPoll
<1>5. CASE ReportNothing(t)
  <2>1. pc["analyzer"] = "read" /\ pc'["analyzer"] = "posting"
    BY <1>2, <1>5 DEF TypeOK, ReportNothing, Return
  <2>2. triggers = 0 /\ UNCHANGED <<inDetectState, timer>>
    BY <1>2, <1>5 DEF ReportNothing, Return, Analyze
  <2>3. RoomInPoll
    BY <2>1, <2>2 DEF RoomInv
  <2>4. ~inDetectState
    BY <1>2, <1>5, <2>3 DEF ReportNothing, RoomInPoll
  <2>5. timer > 0
    BY <1>2, <1>5, <2>1, <2>4, NothingWhileDue DEF Pollers
  <2>6. RoomAfterDebounce'
    BY <1>1, <2>2, <2>3 DEF RoomInPoll, RoomAfterDebounce
  <2>7. RoomWhileAway'
    BY <2>2, <2>4, <2>5, <2>6 DEF TypeOK, RoomWhileAway
  <2> QED
    BY <2>1, <2>7 DEF RoomInv
<1>6. CASE Report(t)
  <2>1. triggers' = triggers + 1
    BY <1>2, <1>6 DEF Report, Return, Analyze
  <2> QED
    BY <2>1 DEF TypeOK
<1>7. CASE Rearm(t)
  <2>1. pc["analyzer"] = "rearming" /\ pc'["analyzer"] = "posting"
    BY <1>2, <1>7 DEF TypeOK, Rearm, Return
  <2>2. triggers = 0 /\ inDetectState'
    BY <1>2, <1>7 DEF Rearm, Return, Analyze
  <2>3. line > MaxGap
    BY <2>1, <2>2 DEF RoomInv
  <2>4. line' + gap' > MaxGap
    BY <1>1, <2>3, MotionAssumption DEF TypeOK
  <2> QED
    BY <2>1, <2>2, <2>4 DEF RoomInv, RoomWhileAway, RoomAfterDebounce
<1> QED
  BY <1>3, <1>4, <1>5, <1>6, <1>7 DEF Polls

LEMMA RoomKept ==
    ASSUME TypeOK, PollInv, AloneInv, LowInv, RoomInv, NoDoubleCount,
           Punctual, Punctual', Spaced', [Next]_vars,
           MaxGap <= PulseTicks, DebounceTicks + 2 * MaxGap <= PulseTicks + QuietTicks + 1
    PROVE  RoomInv'
<1>1. CASE AnalyzerPoll
  <2>1. pc["analyzer"] = "idle" /\ pc'["analyzer"] = "read" /\ gap' = 0
    BY <1>1 DEF TypeOK, AnalyzerPoll, Read, Pollers
  <2>2. UNCHANGED <<inDetectState, timer, line, covered, alone, triggers>>
    BY <1>1 DEF AnalyzerPoll, sensorVars, pulseVars
  <2> SUFFICES ASSUME line > 0, covered, alone, triggers = 0
               PROVE  RoomInPoll'
    BY <2>1, <2>2 DEF RoomInv
  <2>3. seen'["analyzer"]
    BY <1>1 DEF TypeOK, AnalyzerPoll, Read, AloneInv, Pollers
  <2>4. RoomWhileAway
    BY <2>1 DEF RoomInv
  <2>5. RoomAfterDebounce'
    BY <2>2, <2>4 DEF RoomWhileAway, RoomAfterDebounce
  <2>6. ~inDetectState /\ timer = 0 => line > MaxGap
    BY <2>4, MotionAssumption DEF TypeOK, RoomWhileAway, Punctual
  <2> QED
    BY <2>2, <2>3, <2>5, <2>6 DEF RoomInPoll
<1>2. CASE (\E t \in Pollers : Stop(t)) \/ StreamPoll \/ StandDown \/ ToggleSensor \/ SetAuto
             \/ SwitchByHand \/ UNCHANGED vars
  <2>1. UNCHANGED <<inDetectState, timer, line, gap, triggers>>
    BY <1>2 DEF Stop, StreamPoll, StandDown, ToggleSensor, SetAuto, SwitchByHand, vars,
               sensorVars, pulseVars, paceVars
  <2>2. pc'["analyzer"] = pc["analyzer"] /\ seen'["analyzer"] = seen["analyzer"]
    BY <1>2 DEF TypeOK, Stop, StreamPoll, Read, StandDown, ToggleSensor, SetAuto,
               SwitchByHand, vars, Pollers
  <2>3. (covered' => covered) /\ (alone' => alone)
    BY <1>2 DEF Stop, StreamPoll, StandDown, ToggleSensor, SetAuto, SwitchByHand, vars,
               pulseVars
  <2> QED
    BY <2>1, <2>2, <2>3 DEF RoomInv, RoomWhileAway, RoomInPoll, RoomAfterDebounce
<1>3. CASE Posted
  <2>1. UNCHANGED <<inDetectState, timer, line, gap, triggers, covered, alone>>
    BY <1>3 DEF Posted, sensorVars, pulseVars
  <2>2. pc["analyzer"] = "posting" /\ pc'["analyzer"] = "idle"
    BY <1>3 DEF TypeOK, Posted, Pollers
  <2> QED
    BY <2>1, <2>2 DEF RoomInv, RoomWhileAway, RoomAfterDebounce
<1>4. CASE Tick
  <2>1. CASE line > 0
    BY <1>4, <2>1, RoomRunsDown
  <2>2. CASE line = 0 /\ line' > 0
    BY <1>4, <2>2, RoomAtRise
  <2>3. CASE ~(line' > 0)
    BY <2>3 DEF RoomInv
  <2> QED
    BY <2>1, <2>2, <2>3 DEF TypeOK
<1> QED
  BY <1>1, <1>2, <1>3, <1>4, RoomPolls, Cases

\* What a pulse has been counted as does not change once it is over.
LEMMA CaughtKept ==
    ASSUME TypeOK, PollInv, AloneInv, RoomInv, NoDoubleCount, AlwaysCaught,
           Punctual, Punctual', [Next]_vars
    PROVE  AlwaysCaught'
<1>1. CASE Tick
  <2>1. CASE line > 0
    BY <1>1, <2>1, RoomRunsDown
  <2>2. CASE line = 0
    <3>1. quiet' # 0
      BY <1>1, <2>2, MotionAssumption DEF TypeOK, Tick, Up
    <3> QED
      BY <3>1 DEF AlwaysCaught, PulseOver
  <2> QED
    BY <2>1, <2>2 DEF TypeOK
<1>2. ASSUME NEW t \in Pollers, Polls(t)
      PROVE  AlwaysCaught'
  <2>1. UNCHANGED <<line, quiet, covered, alone>>
    BY <1>2 DEF Polls, DecideToReport, DecideToRearm, Decide, ReportNothing, Report, Rearm,
               Return, pulseVars
  <2>2. line = 0 => triggers' = triggers
    <3>1. CASE Report(t)
      BY <3>1 DEF TypeOK, PollInv, Report
    <3>2. CASE ~Report(t)
      BY <1>2, <3>2 DEF Polls, DecideToReport, DecideToRearm, Decide, ReportNothing, Rearm,
                       Return, Analyze, Follow
    <3> QED
      BY <3>1, <3>2
  <2> QED
    BY <2>1, <2>2 DEF AlwaysCaught, PulseOver
<1>3. CASE (\E t \in Pollers : Stop(t)) \/ AnalyzerPoll \/ StreamPoll \/ Posted \/ StandDown
             \/ ToggleSensor \/ SetAuto \/ SwitchByHand \/ UNCHANGED vars
  <2>1. UNCHANGED <<line, quiet, triggers>> /\ (covered' => covered) /\ (alone' => alone)
    BY <1>3 DEF Stop, AnalyzerPoll, StreamPoll, Posted, StandDown, ToggleSensor, SetAuto,
               SwitchByHand, vars, pulseVars
  <2> QED
    BY <2>1 DEF AlwaysCaught, PulseOver
<1> QED
  BY <1>1, <1>2, <1>3, Cases

\* dangerAnalyzer.c's "setting it to 1s will always catch detections", as far as
\* it goes: with the camera on manual the analyzer counts every pulse exactly once
\* as long as its polls keep to MaxGap, and pulses to QuietTicks, with room for
\* the debounce and two polls in a pulse and the quiet before it.
THEOREM NoneMissed ==
    ASSUME PulseTicks <= DebounceTicks,
           MaxGap <= PulseTicks,
           DebounceTicks + 2 * MaxGap <= PulseTicks + QuietTicks + 1
    PROVE  Spec => EveryPulseCountedAlone
<1> DEFINE Inv == PollInv /\ AloneInv /\ LowInv /\ RoomInv /\ AlwaysCaught
<1>1. Init => Inv
  BY StartsQuiet, StartsReady
<1>2. TypeOK /\ NoDoubleCount /\ Inv /\ Premise /\ Premise' /\ [Next]_vars => Inv'
  BY PollInvKept, AloneKept, LowKept, RoomKept, CaughtKept DEF Premise
<1>3. Inv => AlwaysCaught
  OBVIOUS
<1> HIDE DEF Inv
<1>4. Spec /\ []Premise => []Inv
  BY <1>1, <1>2, TypeCorrect, NoneTwice, PTL DEF Spec
<1>5. Spec => ([]Premise => []AlwaysCaught)
  BY <1>3, <1>4, PTL
<1> QED
  BY <1>5 DEF EveryPulseCountedAlone, Premise

=============================================================================

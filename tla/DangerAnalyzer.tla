--------------------------- MODULE DangerAnalyzer ---------------------------
(***************************************************************************)
(* The danger analyzer (DangerAnalyzer/dangerAnalyzer.c) with its history  *)
(* (DangerAnalyzer/CircularBuffer) and the buzzer it drives (Buzzer).  Its *)
(* thread polls the motion sensor once a second, adds a record to the      *)
(* history, and reads, recomputes and writes the danger level in three     *)
(* critical sections, between which the menu and the remote user may reset *)
(* the level or set the threshold.  MotionWatch models the polling; here a *)
(* poll detects something or does not.                                     *)
(*                                                                         *)
(* Each round ends with a post to the server, which sets no timeout and    *)
(* may take for ever.                                                      *)
(*                                                                         *)
(* The level is a fraction; here it is a number of steps out of MaxLevel,  *)
(* and the two piecewise linear curves are replaced by what bounds them.   *)
(***************************************************************************)
EXTENDS Integers

CONSTANTS
    Size,          \* BUFFER_SIZE
    Window,        \* SPIKE_FREQUENCY_WINDOW
    MaxLevel,      \* danger level 1.0
    Decay,         \* PLLLTS_PARAM_Y1, in steps
    Thresholds,    \* the thresholds users set
    MaxTriggers    \* bound: detections in a behaviour

ASSUME AnalyzerAssumption ==
    /\ Size \in Nat /\ Size > 1
    /\ Window \in 1 .. Size - 1
    /\ MaxLevel \in Nat \ {0}
    /\ Decay \in 0 .. MaxLevel
    /\ Thresholds \subseteq 0 .. MaxLevel /\ Thresholds # {}
    /\ MaxTriggers \in Nat

VARIABLES
    buf, next,       \* History: the records' numTriggers; isFull is never set
    wrapped,         \* next has come round to 0
    triggerCount,    \* detections so far
    sinceLast,       \* timeSinceLastDetectedInMs: an "instant" or an "interval"
    dangerLevel,     \* the shared level
    threshold,       \* Settings_getDangerThresholdSetting
    level, thresh,   \* mainloop's copies
    pc,              \* where mainloop is
    stopping,        \* s_stop
    alarm,           \* buzzer.c isActive: the buzzer sounds
    cleaned          \* Buzzer_cleanup has run

historyVars == <<buf, next, wrapped, triggerCount, sinceLast>>
sharedVars == <<dangerLevel, threshold, stopping>>
vars == <<historyVars, sharedVars, level, thresh, pc, alarm, cleaned>>

Levels == 0 .. MaxLevel

\* What may lie in memory just before the buffer.
WildCounts == 0 .. MaxTriggers

-----------------------------------------------------------------------------
(* CircularBuffer.  An index below the array reads whatever lies there. *)

At(i) == IF i \in 0 .. Size - 1 THEN {buf[i]} ELSE WildCounts

LatestIndex == next - 1

NLatestIndex(n) == IF next - n < 0 THEN 0 ELSE next - n

OldestIndex == 0

\* The values a frequency may have, as the bounds of its contribution: none when
\* the two records count the same, some when they differ, and anything when a
\* record, with its time, was never written.
Gains ==
    IF LatestIndex < 0 THEN -MaxLevel .. MaxLevel
    ELSE IF buf[LatestIndex] = buf[OldestIndex] /\ buf[LatestIndex] = buf[NLatestIndex(Window)]
         THEN {0} ELSE Levels

\* PLltts of an instant, milliseconds since 1970, is its maximum; of an interval
\* between detections anything up to that.
Drops == IF sinceLast = "instant" THEN {Decay} ELSE 0 .. Decay

\* Slip: a clamp with one end.
BoundedBelow(x) == IF x < 0 THEN 0 ELSE x

Bounded(x) == IF x < 0 THEN 0 ELSE IF x > MaxLevel THEN MaxLevel ELSE x

-----------------------------------------------------------------------------
TypeOK ==
    /\ buf \in [0 .. Size - 1 -> Nat]
    /\ next \in 0 .. Size - 1
    /\ wrapped \in BOOLEAN
    /\ triggerCount \in Nat
    /\ sinceLast \in {"instant", "interval"}
    /\ dangerLevel \in Levels
    /\ threshold \in Thresholds
    /\ level \in Levels
    /\ thresh \in Thresholds
    /\ pc \in {"top", "recorded", "computed", "stored", "judged", "posting", "ended"}
    /\ stopping \in BOOLEAN
    /\ alarm \in BOOLEAN
    /\ cleaned \in BOOLEAN

\* DangerAnalyzer_start: Buffer_make and the thread's first line.
Init ==
    /\ buf = [i \in 0 .. Size - 1 |-> 0]
    /\ next = 1
    /\ wrapped = FALSE
    /\ triggerCount = 0
    /\ sinceLast = "instant"
    /\ dangerLevel = 0
    /\ threshold \in Thresholds
    /\ level = 0
    /\ thresh = threshold
    /\ pc = "top"
    /\ stopping = FALSE
    /\ alarm = FALSE
    /\ cleaned = FALSE

-----------------------------------------------------------------------------
(* mainloop *)

\* Subtracting the last value from the current time turns an instant into an
\* interval and an interval into an instant.
Flip(kind) == IF kind = "instant" THEN "interval" ELSE "instant"

\* Slip: next moves before the record is written.
AddSkips(n) ==
    /\ \E latest \in At(LatestIndex) : buf' = [buf EXCEPT ![(next + 1) % Size] = latest + n]
    /\ next' = (next + 1) % Size
    /\ wrapped' = (wrapped \/ next' = 0)

Add(n) ==
    /\ \E latest \in At(LatestIndex) : buf' = [buf EXCEPT ![next] = latest + n]
    /\ next' = (next + 1) % Size
    /\ wrapped' = (wrapped \/ next' = 0)

Detect ==
    /\ pc = "top"
    /\ ~stopping
    /\ triggerCount < MaxTriggers
    /\ triggerCount' = triggerCount + 1
    /\ sinceLast' = Flip(sinceLast)
    /\ Add(1)
    /\ pc' = "recorded"
    /\ UNCHANGED <<sharedVars, level, thresh, alarm, cleaned>>

DetectNothing ==
    /\ pc = "top"
    /\ ~stopping
    /\ Add(0)
    /\ pc' = "recorded"
    /\ UNCHANGED <<triggerCount, sinceLast, sharedVars, level, thresh, alarm, cleaned>>

\* Slip: the thread does not look at s_stop while the alarm sounds.
EndWhenSilent ==
    /\ pc = "top"
    /\ stopping
    /\ ~alarm
    /\ pc' = "ended"
    /\ UNCHANGED <<historyVars, sharedVars, level, thresh, alarm, cleaned>>

End ==
    /\ pc = "top"
    /\ stopping
    /\ pc' = "ended"
    /\ UNCHANGED <<historyVars, sharedVars, level, thresh, alarm, cleaned>>

\* getDangerLevel and computeNewDangerLevel, which touches only the thread's own
\* data.
Compute ==
    /\ pc = "recorded"
    /\ \E gain \in Gains, drop \in Drops : level' = Bounded(dangerLevel + gain - drop)
    /\ pc' = "computed"
    /\ UNCHANGED <<historyVars, sharedVars, thresh, alarm, cleaned>>

Store ==
    /\ pc = "computed"
    /\ dangerLevel' = level
    /\ pc' = "stored"
    /\ UNCHANGED <<historyVars, threshold, stopping, level, thresh, alarm, cleaned>>

ReadThreshold ==
    /\ pc = "stored"
    /\ thresh' = threshold
    /\ pc' = "judged"
    /\ UNCHANGED <<historyVars, sharedVars, level, alarm, cleaned>>

\* Slip: the comparison the wrong way round.
JudgeSwapped ==
    /\ pc = "judged"
    /\ alarm' = (level < thresh)
    /\ pc' = "posting"
    /\ UNCHANGED <<historyVars, sharedVars, level, thresh, cleaned>>

\* Buzzer_alarm or Buzzer_stopAlarm, and Http_post is called.
Judge ==
    /\ pc = "judged"
    /\ alarm' = (level > thresh)
    /\ pc' = "posting"
    /\ UNCHANGED <<historyVars, sharedVars, level, thresh, cleaned>>

\* Http_post returns, and the thread sleeps for a second.
Posted ==
    /\ pc = "posting"
    /\ pc' = "top"
    /\ UNCHANGED <<historyVars, sharedVars, level, thresh, alarm, cleaned>>

-----------------------------------------------------------------------------
(* The menu, the remote user and the controller *)

Reset ==
    /\ dangerLevel' = 0
    /\ UNCHANGED <<historyVars, threshold, stopping, level, thresh, pc, alarm, cleaned>>

SetThreshold ==
    /\ threshold' \in Thresholds
    /\ UNCHANGED <<historyVars, dangerLevel, stopping, level, thresh, pc, alarm, cleaned>>

Stop ==
    /\ ~stopping
    /\ stopping' = TRUE
    /\ UNCHANGED <<historyVars, dangerLevel, threshold, level, thresh, pc, alarm, cleaned>>

\* Slip: the buzzer is cleaned up before the thread is joined.
CleanupEarly ==
    /\ stopping
    /\ ~cleaned
    /\ alarm' = FALSE
    /\ cleaned' = TRUE
    /\ UNCHANGED <<historyVars, sharedVars, level, thresh, pc>>

\* Buzzer_cleanup, after DangerAnalyzer_stop has joined the thread.
Cleanup ==
    /\ pc = "ended"
    /\ ~cleaned
    /\ alarm' = FALSE
    /\ cleaned' = TRUE
    /\ UNCHANGED <<historyVars, sharedVars, level, thresh, pc>>

-----------------------------------------------------------------------------
Loop == \/ Detect \/ DetectNothing \/ End
        \/ Compute \/ Store \/ ReadThreshold \/ Judge

Next == Loop \/ Posted \/ Reset \/ SetThreshold \/ Stop \/ Cleanup

\* The thread runs, as far as the post that ends a round, and the controller goes
\* on after its join.  Nothing makes a post return: http.c sets no timeout.
Fairness == WF_vars(Loop) /\ WF_vars(Cleanup)

Spec == Init /\ [][Next]_vars /\ Fairness

-----------------------------------------------------------------------------
(* Properties *)

\* Until the buffer first comes round, the latest record of the history holds
\* the number of detections DangerAnalyzer_getNumTriggers reports, so that
\* differences of records count detections (Buffer_add, addTriggerCount).
HistoryCountsTriggers == ~wrapped => buf[LatestIndex] = triggerCount

\* A level at its maximum is heard: every threshold is below it, so unless the
\* level is reset or decays the alarm sounds in the end, whenever the threshold
\* is changed in between, and also if the post that follows never returns.
AlarmIsHeard ==
    dangerLevel = MaxLevel ~> alarm \/ dangerLevel # MaxLevel \/ stopping

\* The program never ends with the buzzer sounding: the thread that could start
\* it again is joined before Buzzer_cleanup (Controller_stop).
SilentAfterCleanup == cleaned => ~alarm

\* The controller's join of the thread returns, and the buzzer is cleaned up, if
\* the thread's posts return.
StopEnds == []<>(pc # "posting") => (stopping ~> cleaned)
=============================================================================

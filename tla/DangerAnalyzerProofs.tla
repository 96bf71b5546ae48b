------------------------ MODULE DangerAnalyzerProofs ------------------------
(***************************************************************************)
(* Proofs about DangerAnalyzer, for every buffer size, window, scale of    *)
(* the level and number of detections.                                     *)
(***************************************************************************)
EXTENDS DangerAnalyzer, TLAPS

\* The clamp returns a level whatever it is given (computeBounded).
LEMMA BoundedIsLevel ==
    ASSUME NEW x \in Int
    PROVE  Bounded(x) \in Levels
  BY AnalyzerAssumption DEF Bounded, Levels

\* Whatever a read of the buffer returns is a count, in bounds or not.
LEMMA ReadsAreCounts ==
    ASSUME TypeOK, NEW i \in Int, NEW c \in At(i)
    PROVE  c \in Nat
  BY AnalyzerAssumption DEF TypeOK, At, WildCounts

\* Adding a record writes one slot and moves on, in bounds.
LEMMA AddTyped ==
    ASSUME TypeOK, NEW n \in {0, 1}, Add(n)
    PROVE  /\ buf' \in [0 .. Size - 1 -> Nat]
           /\ next' \in 0 .. Size - 1
           /\ wrapped' \in BOOLEAN
<1>1. PICK latest \in At(LatestIndex) : buf' = [buf EXCEPT ![next] = latest + n]
  BY DEF Add
<1>2. LatestIndex \in Int
  BY DEF TypeOK, LatestIndex
<1>3. latest \in Nat
  BY <1>2, ReadsAreCounts
<1>4. next + 1 \in Nat /\ Size \in Nat \ {0}
  BY AnalyzerAssumption DEF TypeOK
<1>5. (next + 1) % Size \in 0 .. Size - 1
  BY <1>4
<1> QED
  BY <1>1, <1>3, <1>5 DEF Add, TypeOK

\* The contributions are integers.
LEMMA ContributionsAreInts ==
    ASSUME NEW gain \in Gains, NEW drop \in Drops
    PROVE  gain \in Int /\ drop \in Int
  BY AnalyzerAssumption DEF Gains, Drops, Levels

\* Every variable keeps its type; for the danger level this is the range the
\* clamp of computeNewDangerLevel is there for, also for records never written.
THEOREM TypeCorrect == Spec => []TypeOK
<1>1. Init => TypeOK
  <2> SUFFICES ASSUME Init
               PROVE  TypeOK
    OBVIOUS
  <2>1. buf \in [0 .. Size - 1 -> Nat] /\ next \in 0 .. Size - 1
    BY AnalyzerAssumption DEF Init
  <2>2. dangerLevel \in Levels /\ level \in Levels
    BY AnalyzerAssumption DEF Init, Levels
  <2> QED
    BY <2>1, <2>2 DEF Init, TypeOK
<1>2. TypeOK /\ [Next]_vars => TypeOK'
  <2> SUFFICES ASSUME TypeOK, [Next]_vars
               PROVE  TypeOK'
    OBVIOUS
  <2> USE DEF TypeOK
  <2>1. CASE Detect
    BY <2>1, AddTyped DEF Detect, Flip, sharedVars
  <2>2. CASE DetectNothing
    BY <2>2, AddTyped DEF DetectNothing, sharedVars
  <2>3. CASE End
    BY <2>3 DEF End, historyVars, sharedVars
  <2>4. CASE Compute
    <3>1. PICK gain \in Gains, drop \in Drops :
             level' = Bounded(dangerLevel + gain - drop)
      BY <2>4 DEF Compute
    <3>2. dangerLevel + gain - drop \in Int
      BY <3>1, ContributionsAreInts, AnalyzerAssumption DEF Levels
    <3>3. level' \in Levels
      BY <3>1, <3>2, BoundedIsLevel
    <3> QED
      BY <2>4, <3>3 DEF Compute, historyVars, sharedVars
  <2>5. CASE Store
    BY <2>5 DEF Store, historyVars
  <2>6. CASE ReadThreshold
    BY <2>6 DEF ReadThreshold, historyVars, sharedVars
  <2>7. CASE Judge
    BY <2>7 DEF Judge, historyVars, sharedVars
  <2>8. CASE Reset
    BY <2>8, AnalyzerAssumption DEF Reset, Levels, historyVars
  <2>9. CASE SetThreshold
    BY <2>9 DEF SetThreshold, historyVars
  <2>10. CASE Stop
    BY <2>10 DEF Stop, historyVars
  <2>11. CASE Cleanup
    BY <2>11 DEF Cleanup, historyVars, sharedVars
  <2>12. CASE Posted
    BY <2>12 DEF Posted, historyVars, sharedVars
  <2>13. CASE UNCHANGED vars
    BY <2>13 DEF vars, historyVars, sharedVars
  <2> QED
    BY <2>1, <2>2, <2>3, <2>4, <2>5, <2>6, <2>7, <2>8, <2>9, <2>10, <2>11, <2>12, <2>13
       DEF Next, Loop
<1> QED
  BY <1>1, <1>2, PTL DEF Spec

-----------------------------------------------------------------------------
(* The history *)

\* Until next comes round to 0 it is at least 1, which keeps the latest record
\* inside the array.
HistoryInv ==
    ~wrapped => /\ next \in 1 .. Size - 1
                /\ buf[next - 1] = triggerCount

\* Adding a record keeps the invariant if it counts what triggerCount counts.
LEMMA AddKeepsHistory ==
    ASSUME TypeOK, HistoryInv, NEW n \in {0, 1}, Add(n),
           triggerCount' = triggerCount + n
    PROVE  HistoryInv'
<1> SUFFICES ASSUME ~wrapped'
             PROVE  /\ next' \in 1 .. Size - 1
                    /\ buf'[next' - 1] = triggerCount'
  BY DEF HistoryInv
<1>1. ~wrapped /\ next' # 0
  BY DEF Add
<1>2. /\ next \in 1 .. Size - 1
      /\ buf[next - 1] = triggerCount
  BY <1>1 DEF HistoryInv
<1>3. next + 1 < Size
  <2>1. next + 1 # Size
    <3>1. Size % Size = 0
      BY AnalyzerAssumption
    <3> QED
      BY <1>1, <3>1 DEF Add
  <2> QED
    BY <1>2, <2>1, AnalyzerAssumption
<1>4. next' = next + 1
  <2>1. \A k \in 0 .. Size - 1 : k % Size = k
    BY AnalyzerAssumption
  <2> QED
    BY <1>2, <1>3, <2>1, AnalyzerAssumption DEF Add
<1>5. LatestIndex \in 0 .. Size - 1 /\ LatestIndex = next - 1
  BY <1>2, AnalyzerAssumption DEF LatestIndex
<1>6. buf' = [buf EXCEPT ![next] = triggerCount + n]
  BY <1>2, <1>5 DEF Add, At
<1>7. buf'[next] = triggerCount + n
  BY <1>6 DEF TypeOK
<1> QED
  BY <1>2, <1>3, <1>4, <1>7, AnalyzerAssumption

\* Until the buffer first comes round its latest record is the number of
\* detections (circularBuffer.c Buffer_add, dangerAnalyzer.c addTriggerCount).
THEOREM HistoryIsRight == Spec => []HistoryCountsTriggers
<1>1. Init => HistoryInv
  BY AnalyzerAssumption DEF Init, HistoryInv
<1>2. TypeOK /\ HistoryInv /\ [Next]_vars => HistoryInv'
  <2> SUFFICES ASSUME TypeOK, HistoryInv, [Next]_vars
               PROVE  HistoryInv'
    OBVIOUS
  <2>1. CASE Detect
    BY <2>1, AddKeepsHistory DEF Detect
  <2>2. CASE DetectNothing
    BY <2>2, AddKeepsHistory DEF DetectNothing, TypeOK
  <2>3. CASE ~Detect /\ ~DetectNothing
    <3>1. UNCHANGED <<buf, next, wrapped, triggerCount>>
      BY <2>3 DEF Next, Loop, vars, End, Compute, Store, ReadThreshold, Judge, Posted, Reset,
                  SetThreshold, Stop, Cleanup, historyVars
    <3> QED
      BY <3>1 DEF HistoryInv
  <2> QED
    BY <2>1, <2>2, <2>3
<1>3. TypeOK /\ HistoryInv => HistoryCountsTriggers
  BY DEF HistoryInv, HistoryCountsTriggers, LatestIndex, TypeOK
<1> QED
  BY <1>1, <1>2, <1>3, TypeCorrect, PTL DEF Spec

-----------------------------------------------------------------------------
(* The end *)

\* Buzzer_cleanup runs when the only thread that sounds the alarm has ended.
SilenceInv == cleaned => pc = "ended" /\ ~alarm

\* The program never ends with the buzzer sounding (Controller_stop).
THEOREM SilentAtEnd == Spec => []SilentAfterCleanup
<1>1. Init => SilenceInv
  BY DEF Init, SilenceInv
<1>2. SilenceInv /\ [Next]_vars => SilenceInv'
  <2> SUFFICES ASSUME SilenceInv, [Next]_vars, cleaned'
               PROVE  pc' = "ended" /\ ~alarm'
    BY DEF SilenceInv
  <2>1. CASE Loop
    BY <2>1 DEF SilenceInv, Loop, Detect, DetectNothing, End, Compute, Store,
                ReadThreshold, Judge
  <2>2. CASE Reset \/ SetThreshold \/ Stop \/ UNCHANGED vars
    <3>1. UNCHANGED <<pc, alarm, cleaned>>
      BY <2>2 DEF Reset, SetThreshold, Stop, vars
    <3> QED
      BY <3>1 DEF SilenceInv
  <2>3. CASE Cleanup
    BY <2>3 DEF Cleanup
  <2>4. CASE Posted
    BY <2>4 DEF SilenceInv, Posted
  <2> QED
    BY <2>1, <2>2, <2>3, <2>4 DEF Next
<1>3. SilenceInv => SilentAfterCleanup
  BY DEF SilenceInv, SilentAfterCleanup
<1> QED
  BY <1>1, <1>2, <1>3, PTL DEF Spec
=============================================================================

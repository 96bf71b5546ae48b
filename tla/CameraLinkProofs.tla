-------------------------- MODULE CameraLinkProofs --------------------------
(***************************************************************************)
(* Proofs about CameraLink, for every set of threads, whatever they call,  *)
(* every set of faults and every supply of processes.                      *)
(***************************************************************************)
EXTENDS CameraLink, SequenceTheorems, FiniteSetTheorems, TLAPS

-----------------------------------------------------------------------------
(* Queues *)

\* Removing the head of a queue leaves a queue of the same kind of messages.
LEMMA TailInSeq ==
    ASSUME NEW S, NEW q \in Seq(S), q # <<>>
    PROVE  Tail(q) \in Seq(S) /\ Head(q) \in S
  OBVIOUS

\* Adding at the end of a queue leaves a queue of the same kind of messages.
LEMMA AppendInSeq ==
    ASSUME NEW S, NEW q \in Seq(S), NEW m \in S
    PROVE  Append(q, m) \in Seq(S)
  OBVIOUS

\* An answer that is one leaves the client's queue well typed.
LEMMA AnswerTyped ==
    ASSUME NEW verdict \in Responses, toClient \in Seq(Responses), Answer(verdict)
    PROVE  toClient' \in Seq(Responses)
  BY AppendInSeq DEF Answer

-----------------------------------------------------------------------------
(* Pipelines *)

\* A pipeline's steps touch the pipelines and their device only.
LEMMA PipelineSteps ==
    ASSUME NEW p \in Pids, OpensDevice(p) \/ FindsBusy(p) \/ Dies(p)
    PROVE  /\ UNCHANGED <<clientVars, toServer, toClient, serverVars,
                         streamActive, starting, streamingPid, forked>>
           /\ pipelines' \subseteq pipelines
           /\ holder' \in {p, holder}
  BY DEF OpensDevice, FindsBusy, Dies, Ends

-----------------------------------------------------------------------------
(* Type correctness *)

\* Every variable keeps its type (the declarations of the static variables of
\* ethernetClient.c, ethernetServer.c and Stream.c).
THEOREM TypeCorrect == Spec => []TypeOK
<1>1. Init => TypeOK
  <2>1. <<>> \in Seq(Requests) /\ <<>> \in Seq(Responses)
    OBVIOUS
  <2>2. {} \subseteq Pids /\ "garbage" \in Responses
    BY DEF Responses
  <2> QED
    BY <2>1, <2>2 DEF Init, TypeOK
<1>2. TypeOK /\ [Next]_vars => TypeOK'
  <2> SUFFICES ASSUME TypeOK, [Next]_vars
               PROVE  TypeOK'
    OBVIOUS
  <2> USE DEF TypeOK
  <2>1. ASSUME NEW t \in Threads, Toggle(t) \/ TurnOn(t) \/ TurnOff(t)
        PROVE  TypeOK'
    BY <2>1 DEF Toggle, TurnOn, TurnOff, Begin, serverVars, streamVars
  <2>2. ASSUME NEW t \in Threads, Send(t)
        PROVE  TypeOK'
    <3>1. toServer' \in Seq(Requests)
      BY <2>2, AppendInSeq, want[t] \in Requests DEF Send, Requests
    <3> QED
      BY <2>2, <3>1 DEF Send, serverVars, streamVars
  <2>3. ASSUME NEW t \in Threads, StartReceive(t)
        PROVE  TypeOK'
    BY <2>3 DEF StartReceive, serverVars, streamVars
  <2>4. ASSUME NEW t \in Threads, Receive(t)
        PROVE  TypeOK'
    <3>1. toClient' \in Seq(Responses)
      BY <2>4, TailInSeq DEF Receive
    <3> QED
      BY <2>4, <3>1 DEF Receive, serverVars, streamVars
  <2>5. ASSUME NEW t \in Threads, Timeout(t)
        PROVE  TypeOK'
    BY <2>5 DEF Timeout, serverVars, streamVars
  <2>6. ASSUME NEW t \in Threads, Accept(t)
        PROVE  TypeOK'
    BY <2>6 DEF Accept, serverVars, streamVars
  <2>7. CASE Cleanup
    <3>1. toServer' \in Seq(Requests)
      BY <2>7, AppendInSeq, "stop" \in Requests DEF Cleanup, Requests
    <3> QED
      BY <2>7, <3>1 DEF Cleanup, serverVars, streamVars
  <2>8. CASE HandleOn
    <3>1. toServer' \in Seq(Requests)
      BY <2>8, TailInSeq DEF HandleOn, Handling
    <3>2. toClient' \in Seq(Responses)
      BY <2>8, AnswerTyped, "ok" \in Responses DEF HandleOn, Responses
    <3>3. /\ streamingPid' \in Pids \cup {NoPid}
          /\ pipelines' \subseteq forked'
          /\ forked' \subseteq Pids
      BY <2>8 DEF HandleOn
    <3> QED
      BY <2>8, <3>1, <3>2, <3>3 DEF HandleOn, clientVars, Responses
  <2>9. CASE HandleOff
    <3>1. toServer' \in Seq(Requests)
      BY <2>9, TailInSeq DEF HandleOff, Handling
    <3>2. response' \in Responses
      BY <2>9 DEF HandleOff, Responses
    <3>3. toClient' \in Seq(Responses)
      BY <2>9, <3>2, AnswerTyped DEF HandleOff
    <3>4. streamActive' \in BOOLEAN /\ pipelines' \subseteq forked'
      BY <2>9 DEF HandleOff
    <3> QED
      BY <2>9, <3>1, <3>2, <3>3, <3>4 DEF HandleOff, clientVars
  <2>10. CASE HandleStop
    <3>1. toClient' \in Seq(Responses)
      BY <2>10, AnswerTyped DEF HandleStop
    <3>2. <<>> \in Seq(Requests)
      OBVIOUS
    <3> QED
      BY <2>10, <3>1, <3>2 DEF HandleStop, clientVars, streamVars
  <2>11. CASE StartupOver
    BY <2>11 DEF StartupOver, clientVars, serverVars
  <2>16. CASE HandleOffDies
    <3>1. <<>> \in Seq(Requests)
      OBVIOUS
    <3> QED
      BY <2>16, <3>1 DEF HandleOffDies, clientVars
  <2>17. ASSUME NEW p \in Pids, OpensDevice(p) \/ FindsBusy(p) \/ Dies(p)
         PROVE  TypeOK'
    BY <2>17, PipelineSteps DEF clientVars, serverVars
  <2>12. CASE LoseRequest
    BY <2>12, TailInSeq DEF LoseRequest, clientVars, serverVars, streamVars
  <2>13. CASE LoseAnswer
    BY <2>13, TailInSeq DEF LoseAnswer, clientVars, serverVars, streamVars
  <2>14. CASE Restart
    <3>1. <<>> \in Seq(Responses)
      OBVIOUS
    <3> QED
      BY <2>14, <3>1 DEF Restart, serverVars, streamVars
  <2>15. CASE UNCHANGED vars
    BY <2>15 DEF vars, clientVars, serverVars, streamVars
  <2> QED
    BY <2>1, <2>2, <2>3, <2>4, <2>5, <2>6, <2>7, <2>8, <2>9, <2>10, <2>11,
       <2>12, <2>13, <2>14, <2>15, <2>16, <2>17 DEF Next
<1> QED
  BY <1>1, <1>2, PTL DEF Spec

-----------------------------------------------------------------------------
(* The server keeps track of its stream *)

\* The steps that touch neither the stream nor its pipelines.
LEMMA StreamSteps ==
    ASSUME [Next]_vars, ~HandleOn, ~HandleOff, ~HandleOffDies,
           \A p \in Pids : ~(OpensDevice(p) \/ FindsBusy(p) \/ Dies(p))
    PROVE  UNCHANGED <<streamActive, streamingPid, pipelines>> /\ (serverUp' => serverUp)
  BY DEF Next, vars, Toggle, TurnOn, TurnOff, Begin, Send, StartReceive, Receive,
         Timeout, Accept, Cleanup, HandleStop, StartupOver,
         LoseRequest, LoseAnswer, Restart, clientVars, serverVars, streamVars

\* The precondition of Stream_turnOn, read before each step, is what keeps the
\* server's track: the one fork that replaces streamingPid replaces the name of
\* a pipeline that is no more.
LEMMA TrackKept ==
    ASSUME TypeOK, TurnOnPrecondition, KeepsTrack, [Next]_vars
    PROVE  KeepsTrack'
<1>1. CASE HandleOn
  <2>1. pipelines = {}
    BY <1>1 DEF HandleOn, Handling, TurnOnPrecondition, KeepsTrack
  <2> QED
    BY <1>1, <2>1 DEF HandleOn, KeepsTrack
<1>2. CASE HandleOff
  BY <1>2 DEF HandleOff, KeepsTrack
<1>3. CASE HandleOffDies
  BY <1>3 DEF HandleOffDies, KeepsTrack
<1>4. ASSUME NEW p \in Pids, OpensDevice(p) \/ FindsBusy(p) \/ Dies(p)
      PROVE  KeepsTrack'
  BY <1>4, PipelineSteps DEF KeepsTrack, serverVars
<1>5. CASE /\ ~HandleOn /\ ~HandleOff /\ ~HandleOffDies
           /\ \A p \in Pids : ~(OpensDevice(p) \/ FindsBusy(p) \/ Dies(p))
  BY <1>5, StreamSteps DEF KeepsTrack
<1> QED
  BY <1>1, <1>2, <1>3, <1>4, <1>5

\* While the callers of Stream_turnOn keep to its precondition the server can
\* kill whatever pipeline runs and none outlives its turning off, for any
\* threads, faults and ends of pipelines (Stream.c Stream_turnOn, Stream_turnOff).
THEOREM AlwaysTracked == Spec => Tracked
<1>1. Init => KeepsTrack
  BY DEF Init, KeepsTrack
<1>2. TypeOK /\ TurnOnPrecondition /\ KeepsTrack /\ [Next]_vars => KeepsTrack'
  BY TrackKept
<1> QED
  BY <1>1, <1>2, TypeCorrect, PTL DEF Spec, Tracked

-----------------------------------------------------------------------------
(* Any number of threads on one socket *)

\* The threads that an answer is owed to.
Owed == {t \in Threads : pc[t] \in {"sent", "waiting"}}

\* Their number changes by one as a thread comes or goes.
LEMMA OwedOneMore ==
    ASSUME IsFiniteSet(Threads), NEW t \in Threads, t \notin Owed, Owed' = Owed \cup {t}
    PROVE  Cardinality(Owed') = Cardinality(Owed) + 1
<1>1. IsFiniteSet(Owed)
  BY FS_Subset DEF Owed
<1> QED
  BY <1>1, FS_AddElement

LEMMA OwedOneLess ==
    ASSUME IsFiniteSet(Threads), NEW t \in Owed, Owed' = Owed \ {t}
    PROVE  Cardinality(Owed') = Cardinality(Owed) - 1
<1>1. IsFiniteSet(Owed)
  BY FS_Subset DEF Owed
<1> QED
  BY <1>1, FS_RemoveElement

\* As many datagrams under way as answers owed.
LEMMA OwedKept ==
    ASSUME IsFiniteSet(Threads), TypeOK, NoAnswerLeftBehind, [Next]_vars, ~Restart
    PROVE  NoAnswerLeftBehind'
<1> DEFINE UnderWay == Len(toServer) + Len(toClient)
<1> SUFFICES ASSUME intact', socketOpen', serverUp'
             PROVE  UnderWay' = Cardinality(Owed')
  BY DEF NoAnswerLeftBehind, Owed
<1>a. intact /\ socketOpen /\ serverUp
  BY DEF Next, vars, Toggle, TurnOn, TurnOff, Begin, Send, StartReceive, Receive,
         Timeout, Accept, Cleanup, HandleOn, HandleOff, HandleOffDies, HandleStop,
         StartupOver, OpensDevice, FindsBusy, Dies, Ends, LoseRequest, LoseAnswer,
         clientVars, serverVars, streamVars
<1>b. UnderWay = Cardinality(Owed) /\ UnderWay \in Nat
  BY <1>a DEF NoAnswerLeftBehind, Owed, TypeOK
<1>c. IsFiniteSet(Owed) /\ Cardinality(Owed) \in Nat
  BY FS_Subset, FS_CardinalityType DEF Owed
<1>1. ASSUME NEW t \in Threads, Toggle(t) \/ TurnOn(t) \/ TurnOff(t) \/ StartReceive(t) \/ Accept(t)
      PROVE  UnderWay' = Cardinality(Owed')
  <2>1. UNCHANGED <<toServer, toClient>>
    BY <1>1 DEF Toggle, TurnOn, TurnOff, Begin, StartReceive, Accept
  <2>2. pc'[t] \in {"sent", "waiting"} <=> pc[t] \in {"sent", "waiting"}
    BY <1>1, <1>a DEF Toggle, TurnOn, TurnOff, Begin, StartReceive, Accept, TypeOK
  <2>3. \A u \in Threads \ {t} : pc'[u] = pc[u]
    BY <1>1 DEF Toggle, TurnOn, TurnOff, Begin, StartReceive, Accept, TypeOK
  <2>4. Owed' = Owed
    BY <2>2, <2>3 DEF Owed
  <2> QED
    BY <1>b, <2>1, <2>4
<1>2. ASSUME NEW t \in Threads, Send(t)
      PROVE  UnderWay' = Cardinality(Owed')
  <2>1. t \notin Owed /\ Owed' = Owed \cup {t}
    BY <1>2 DEF Send, Owed, TypeOK
  <2>2. want[t] \in Requests
    BY DEF TypeOK, Requests
  <2>3. Len(toServer') = Len(toServer) + 1 /\ toClient' = toClient
    BY <1>2, <1>a, <2>2, AppendProperties DEF Send, TypeOK
  <2>4. Cardinality(Owed') = Cardinality(Owed) + 1
    BY <2>1, OwedOneMore
  <2>5. Len(toServer) \in Nat /\ Len(toClient) \in Nat
    BY DEF TypeOK
  <2> QED
    BY <1>b, <1>c, <2>3, <2>4, <2>5
<1>3. ASSUME NEW t \in Threads, Receive(t)
      PROVE  UnderWay' = Cardinality(Owed')
  <2>1. t \in Owed /\ Owed' = Owed \ {t}
    BY <1>3 DEF Receive, Owed, TypeOK
  <2>2. Len(toClient') = Len(toClient) - 1 /\ toServer' = toServer
    BY <1>3, HeadTailProperties DEF Receive, TypeOK
  <2>4. Cardinality(Owed') = Cardinality(Owed) - 1
    BY <2>1, OwedOneLess
  <2>5. Len(toServer) \in Nat /\ Len(toClient) \in Nat
    BY DEF TypeOK
  <2> QED
    BY <1>b, <1>c, <2>2, <2>4, <2>5
<1>4. ASSUME NEW t \in Threads, Timeout(t)
      PROVE  FALSE
  <2>3. toServer = <<>> /\ toClient = <<>>
    BY <1>4 DEF Timeout
  <2>1. t \in Owed /\ UnderWay = 0
    BY <1>4, <2>3 DEF Timeout, Owed
  <2>2. Cardinality(Owed) # 0
    BY <1>c, <2>1, FS_EmptySet
  <2> QED
    BY <1>b, <2>1, <2>2
<1>5. CASE HandleOn \/ HandleOff
  <2>1. PICK verdict \in Responses : Answer(verdict)
    BY <1>5 DEF HandleOn, HandleOff, Responses
  <2>2. Len(toClient') = Len(toClient) + 1
    BY <1>a, <2>1, AppendProperties DEF Answer, CanDeliver, TypeOK
  <2>3. Len(toServer') = Len(toServer) - 1 /\ pc' = pc
    BY <1>5, HeadTailProperties DEF HandleOn, HandleOff, Handling, TypeOK, clientVars
  <2> QED
    BY <1>b, <2>2, <2>3 DEF Owed, TypeOK
<1>6. CASE \/ StartupOver \/ UNCHANGED vars
           \/ \E p \in Pids : OpensDevice(p) \/ FindsBusy(p) \/ Dies(p)
  <2>1. UNCHANGED <<toServer, toClient, pc>>
    BY <1>6, PipelineSteps DEF StartupOver, vars, clientVars
  <2> QED
    BY <1>b, <2>1 DEF Owed
<1>7. ~Cleanup /\ ~HandleStop /\ ~HandleOffDies
  BY DEF Cleanup, HandleStop, HandleOffDies
<1>8. ~LoseRequest /\ ~LoseAnswer
  BY DEF LoseRequest, LoseAnswer
<1> QED
  BY <1>1, <1>2, <1>3, <1>4, <1>5, <1>6, <1>7, <1>8 DEF Next

\* A program that starts again owes nothing and is owed nothing.
LEMMA OwedAtStart ==
    ASSUME toServer' = <<>>, toClient' = <<>>, pc' = [t \in Threads |-> "idle"]
    PROVE  NoAnswerLeftBehind'
<1>1. {t \in Threads : pc'[t] \in {"sent", "waiting"}} = {}
  OBVIOUS
<1>2. Len(toServer') + Len(toClient') = 0
  OBVIOUS
<1> QED
  BY <1>1, <1>2, FS_EmptySet DEF NoAnswerLeftBehind

\* From the start of the program to the first loss or delay no answer is ever left
\* in the socket for a later call to take for its own, however many threads share
\* it and whatever they call (clientNet.c ClientNet_receive, which takes the first
\* datagram there is); a restart of the program on a drained link starts anew.
THEOREM EveryAnswerIsOwed ==
    ASSUME IsFiniteSet(Threads)
    PROVE  Spec => []NoAnswerLeftBehind
<1>1. Init => NoAnswerLeftBehind
  <2> SUFFICES ASSUME Init
               PROVE  NoAnswerLeftBehind
    OBVIOUS
  <2>1. {t \in Threads : pc[t] \in {"sent", "waiting"}} = {}
    BY DEF Init
  <2>2. Len(toServer) + Len(toClient) = 0
    BY DEF Init
  <2> QED
    BY <2>1, <2>2, FS_EmptySet DEF NoAnswerLeftBehind
<1>2. TypeOK /\ NoAnswerLeftBehind /\ [Next]_vars => NoAnswerLeftBehind'
  BY OwedKept, OwedAtStart DEF Restart
<1> QED
  BY <1>1, <1>2, TypeCorrect, PTL DEF Spec

-----------------------------------------------------------------------------
(* One thread on a reliable link *)

\* Nothing goes wrong but pipelines.
Reliable == Faults \subseteq {"death"}

\* The setting in which the header of ethernetClient.c is true.
Alone == Threads = {Main} /\ Reliable

\* No datagram is under way.
Quiet == toServer = <<>> /\ toClient = <<>>

\* The request of the call in progress is about to be served: nothing has
\* changed since it was decided on.
RequestUnderWay ==
    /\ serverUp
    /\ toServer = <<want[Main]>>
    /\ toClient = <<>>
    /\ isCameraOn = streamActive

\* The request has been served and its answer is on the way.
AnswerUnderWay ==
    /\ serverUp
    /\ toServer = <<>>
    /\ \/ toClient = <<"ok">> /\ streamActive = (want[Main] = "on")
       \/ toClient = <<"bad">> /\ isCameraOn = streamActive

\* The server has died and took the request with it.
NobodyThere == ~serverUp /\ Quiet

\* What holds at each point of the one thread's call.  Agreement alone is not
\* inductive: it says nothing while a call is under way, and the step that
\* ends the call would have nothing to go on.
CallInv ==
    /\ pc[Main] = "idle" =>
          /\ toClient = <<>>
          /\ toServer = <<>> \/ ~socketOpen
          /\ toServer \in {<<>>, <<"stop">>}
          /\ serverUp => isCameraOn = streamActive
    /\ pc[Main] # "idle" =>
          /\ socketOpen
          /\ want[Main] = IF isCameraOn THEN "off" ELSE "on"
    /\ pc[Main] = "checked" => Quiet /\ (serverUp => isCameraOn = streamActive)
    /\ pc[Main] \in {"sent", "waiting"} =>
          RequestUnderWay \/ AnswerUnderWay \/ NobodyThere
    /\ pc[Main] = "accepted" => Quiet /\ serverUp /\ streamActive = (want[Main] = "on")

\* A request to turn the camera on only ever reaches a server whose stream is
\* off: the precondition of Stream_turnOn.
LEMMA OnOnlyWhenOff ==
    ASSUME Alone, TypeOK, CallInv, Handling("on")
    PROVE  ~streamActive /\ RequestUnderWay
  BY DEF Alone, TypeOK, CallInv, Handling, RequestUnderWay, AnswerUnderWay,
         NobodyThere, Quiet

\* The invariant holds at the start and every step preserves it.
LEMMA CallInvInit ==
    ASSUME Alone, Init
    PROVE  CallInv
  BY CameraAssumption DEF Init, CallInv

LEMMA CallInvNext ==
    ASSUME Alone, TypeOK, CallInv, [Next]_vars
    PROVE  CallInv'
<1> USE DEF Alone, TypeOK
<1>1. ASSUME NEW t \in Threads, Toggle(t) \/ TurnOn(t) \/ TurnOff(t)
      PROVE  CallInv'
  BY <1>1 DEF Toggle, TurnOn, TurnOff, Begin, CallInv, Quiet, serverVars, streamVars
<1>2. ASSUME NEW t \in Threads, Send(t)
      PROVE  CallInv'
  <2>1. Append(<<>>, want[Main]) = <<want[Main]>>
    OBVIOUS
  <2> QED
    BY <1>2, <2>1 DEF Send, CallInv, Quiet, RequestUnderWay, NobodyThere, serverVars, streamVars
<1>3. ASSUME NEW t \in Threads, StartReceive(t)
      PROVE  CallInv'
  BY <1>3 DEF StartReceive, CallInv, Quiet, RequestUnderWay, AnswerUnderWay, NobodyThere,
              serverVars, streamVars
<1>4. ASSUME NEW t \in Threads, Receive(t)
      PROVE  CallInv'
  BY <1>4 DEF Receive, CallInv, Quiet, RequestUnderWay, AnswerUnderWay, NobodyThere,
              serverVars, streamVars
<1>5. ASSUME NEW t \in Threads, Timeout(t)
      PROVE  CallInv'
  BY <1>5 DEF Timeout, Reliable, CallInv, Quiet, RequestUnderWay, AnswerUnderWay, NobodyThere,
              serverVars, streamVars
<1>6. ASSUME NEW t \in Threads, Accept(t)
      PROVE  CallInv'
  BY <1>6 DEF Accept, CallInv, Quiet, RequestUnderWay, AnswerUnderWay, NobodyThere,
              serverVars, streamVars
<1>7. CASE Cleanup
  <2>1. Append(<<>>, "stop") = <<"stop">>
    OBVIOUS
  <2> QED
    BY <1>7, <2>1 DEF Cleanup, CallInv, serverVars, streamVars
<1>8. CASE HandleOn
  <2>1. RequestUnderWay /\ ~streamActive /\ want[Main] = "on"
    BY <1>8, OnOnlyWhenOff DEF HandleOn, Handling, RequestUnderWay
  <2>2. pc[Main] \in {"sent", "waiting"} /\ socketOpen
    BY <1>8, <2>1 DEF CallInv, RequestUnderWay, Quiet
  <2>3. toServer' = <<>> /\ toClient' = <<"ok">> /\ streamActive' = TRUE
    BY <1>8, <2>1, <2>2 DEF HandleOn, Answer, CanDeliver, RequestUnderWay
  <2>4. AnswerUnderWay'
    BY <1>8, <2>1, <2>3 DEF HandleOn, AnswerUnderWay, RequestUnderWay, clientVars
  <2> QED
    BY <1>8, <2>2, <2>4 DEF HandleOn, CallInv, clientVars
<1>9. CASE HandleOff
  <2>1. RequestUnderWay /\ want[Main] = "off"
    BY <1>9 DEF HandleOff, Handling, CallInv, RequestUnderWay, AnswerUnderWay, NobodyThere, Quiet
  <2>2. pc[Main] \in {"sent", "waiting"} /\ socketOpen
    BY <1>9, <2>1 DEF CallInv, RequestUnderWay, Quiet
  <2>3. /\ toServer' = <<>>
        /\ \/ toClient' = <<"ok">> /\ streamActive' = FALSE
           \/ toClient' = <<"bad">> /\ streamActive' = streamActive
    BY <1>9, <2>1, <2>2 DEF HandleOff, Answer, CanDeliver, RequestUnderWay
  <2>4. AnswerUnderWay'
    BY <1>9, <2>1, <2>3 DEF HandleOff, AnswerUnderWay, RequestUnderWay, clientVars
  <2> QED
    BY <1>9, <2>2, <2>4 DEF HandleOff, CallInv, clientVars
<1>10. CASE HandleStop
  <2>1. pc[Main] = "idle" /\ ~socketOpen
    BY <1>10 DEF HandleStop, Handling, CallInv, RequestUnderWay, AnswerUnderWay, NobodyThere, Quiet
  <2>2. ~CanDeliver
    BY <2>1 DEF CanDeliver
  <2>3. /\ toServer' = <<>> /\ toClient' = <<>> /\ serverUp' = FALSE
        /\ pc' = pc /\ socketOpen' = FALSE
    BY <1>10, <2>1, <2>2 DEF HandleStop, Answer, CallInv, clientVars
  <2> QED
    BY <2>1, <2>3 DEF CallInv
<1>14. CASE HandleOffDies
  <2>1. RequestUnderWay
    <3>1. Head(<<"stop">>) # "off"
      OBVIOUS
    <3>2. serverUp /\ toServer # <<>> /\ Head(toServer) = "off"
      BY <1>14 DEF HandleOffDies, Handling
    <3>3. pc[Main] \in {"sent", "waiting"}
      BY <3>1, <3>2 DEF CallInv, Quiet
    <3> QED
      BY <3>2, <3>3 DEF CallInv, AnswerUnderWay, NobodyThere
  <2>2. pc[Main] \in {"sent", "waiting"} /\ socketOpen
    BY <1>14, <2>1 DEF CallInv, RequestUnderWay, Quiet
  <2>3. NobodyThere'
    BY <1>14, <2>1 DEF HandleOffDies, NobodyThere, RequestUnderWay, Quiet
  <2> QED
    BY <1>14, <2>2, <2>3 DEF HandleOffDies, CallInv, clientVars
<1>11. CASE StartupOver
  BY <1>11 DEF StartupOver, CallInv, Quiet, RequestUnderWay, AnswerUnderWay, NobodyThere,
               clientVars, serverVars
<1>12. ~LoseRequest /\ ~LoseAnswer /\ ~Restart
  BY DEF LoseRequest, LoseAnswer, Restart, Reliable
<1>15. ASSUME NEW p \in Pids, OpensDevice(p) \/ FindsBusy(p) \/ Dies(p)
       PROVE  CallInv'
  BY <1>15, PipelineSteps DEF CallInv, Quiet, RequestUnderWay, AnswerUnderWay, NobodyThere,
               clientVars, serverVars
<1>13. CASE UNCHANGED vars
  BY <1>13 DEF vars, CallInv, Quiet, RequestUnderWay, AnswerUnderWay, NobodyThere,
               clientVars, serverVars, streamVars
<1> QED
  BY <1>1, <1>2, <1>3, <1>4, <1>5, <1>6, <1>7, <1>8, <1>9, <1>10, <1>11,
     <1>12, <1>13, <1>14, <1>15 DEF Next

\* One thread on a reliable link: the flag of ethernetClient.c and the flag of
\* Stream.c agree between calls, whatever the thread calls and however often.
THEOREM AloneIsRight == Alone => (Spec => []Agreement)
<1> SUFFICES ASSUME Alone
             PROVE  Spec => []Agreement
  OBVIOUS
<1>1. Init => CallInv
  BY CallInvInit
<1>2. TypeOK /\ CallInv /\ [Next]_vars => CallInv'
  BY CallInvNext
<1>3. CallInv => Agreement
  BY DEF CallInv, Agreement
<1> QED
  BY <1>1, <1>2, <1>3, TypeCorrect, PTL DEF Spec

\* Nor does a pipeline ever run that the server does not track, although
\* Stream_turnOn forks one without a look at whether one runs: a single caller
\* keeps to its precondition.
THEOREM AloneLeavesNoOrphan == Alone => (Spec => []NoOrphan)
<1> SUFFICES ASSUME Alone
             PROVE  Spec => []NoOrphan
  OBVIOUS
<1>1. Init => CallInv
  BY CallInvInit
<1>2. TypeOK /\ CallInv /\ [Next]_vars => CallInv'
  BY CallInvNext
<1>3. TypeOK /\ CallInv => TurnOnPrecondition
  BY OnOnlyWhenOff DEF TurnOnPrecondition
<1>4. KeepsTrack => NoOrphan
  BY DEF KeepsTrack, NoOrphan
<1> QED
  BY <1>1, <1>2, <1>3, <1>4, TypeCorrect, AlwaysTracked, PTL DEF Spec, Tracked

-----------------------------------------------------------------------------
(* Refinement *)

\* The refinement mapping at a state of the link: what each variable of
\* CameraSwitch is.
MappedCall == IF pc[Main] = "idle" THEN "none" ELSE want[Main]

MappedAnswer == CASE toClient # <<>> -> Head(toClient)
                  [] pc[Main] = "accepted" -> "ok"
                  [] OTHER -> "none"

\* A step that changes none of the mapped variables is a stutter of the switch.
LEMMA Stutter ==
    ASSUME UNCHANGED <<streamActive, isCameraOn, MappedCall, MappedAnswer, serverUp>>
    PROVE  UNCHANGED Switch!vars
  BY DEF Switch!vars, MappedCall, MappedAnswer

\* Every step of a link that one thread uses is a step of the switch or leaves
\* the switch alone.
LEMMA SwitchStep ==
    ASSUME Alone, TypeOK, CallInv, [Next]_vars
    PROVE  [Switch!Next]_(Switch!vars)
<1> USE DEF Alone, TypeOK
<1>a. Head(<<"ok">>) = "ok" /\ Head(<<"bad">>) = "bad"
  OBVIOUS
<1>1. ASSUME NEW t \in Threads, Toggle(t) \/ TurnOn(t) \/ TurnOff(t)
      PROVE  Switch!Invoke
  BY <1>1 DEF Toggle, TurnOn, TurnOff, Begin, CallInv, Switch!Invoke, serverVars, streamVars
<1>2. ASSUME NEW t \in Threads, Send(t)
      PROVE  UNCHANGED Switch!vars
  BY <1>2, Stutter DEF Send, MappedCall, MappedAnswer, serverVars, streamVars
<1>3. ASSUME NEW t \in Threads, StartReceive(t)
      PROVE  UNCHANGED Switch!vars
  <2>1. pc'[Main] = "waiting"
    BY <1>3 DEF StartReceive, CallInv
  <2> QED
    BY <1>3, <2>1, Stutter DEF StartReceive, MappedCall, MappedAnswer, serverVars, streamVars
<1>4. ASSUME NEW t \in Threads, Receive(t)
      PROVE  [Switch!Next]_(Switch!vars)
  <2>1. AnswerUnderWay /\ pc[Main] = "waiting" /\ toClient' = <<>>
    BY <1>4 DEF Receive, CallInv, RequestUnderWay, AnswerUnderWay, NobodyThere, Quiet
  <2>2. CASE toClient = <<"ok">>
    <3>1. pc'[Main] = "accepted" /\ UNCHANGED <<streamActive, isCameraOn, want, serverUp>>
      BY <1>4, <2>2, <1>a DEF Receive, streamVars, serverVars
    <3>2. MappedAnswer = "ok" /\ MappedAnswer' = "ok" /\ MappedCall' = MappedCall
      BY <2>1, <2>2, <3>1, <1>a DEF MappedAnswer, MappedCall
    <3> QED
      BY <3>1, <3>2, Stutter
  <2>3. CASE toClient = <<"bad">>
    <3>1. pc'[Main] = "idle" /\ UNCHANGED <<streamActive, isCameraOn, serverUp>>
      BY <1>4, <2>3, <1>a DEF Receive, streamVars, serverVars
    <3>2. Switch!Return
      BY <2>1, <2>3, <3>1, <1>a DEF Switch!Return
    <3> QED
      BY <3>2 DEF Switch!Next
  <2> QED
    BY <2>1, <2>2, <2>3 DEF AnswerUnderWay
<1>5. ASSUME NEW t \in Threads
      PROVE  Timeout(t) => Switch!GiveUp
  <2> SUFFICES ASSUME Timeout(t)
               PROVE  Switch!GiveUp
    OBVIOUS
  <2>1. Quiet /\ pc[Main] = "waiting"
    BY DEF Timeout, Quiet, Reliable
  <2>2. <<want[Main]>> # <<>> /\ <<"ok">> # <<>> /\ <<"bad">> # <<>>
    OBVIOUS
  <2>3. NobodyThere
    BY <2>1, <2>2 DEF CallInv, Quiet, RequestUnderWay, AnswerUnderWay
  <2> QED
    BY <2>1, <2>3 DEF Timeout, Switch!GiveUp, Switch!Pending, NobodyThere, Quiet,
                      serverVars, streamVars
<1>6. ASSUME NEW t \in Threads, Accept(t)
      PROVE  Switch!Return
  BY <1>6 DEF Accept, CallInv, Quiet, Switch!Return, serverVars, streamVars
<1>7. CASE Cleanup
  BY <1>7, Stutter DEF Cleanup, MappedCall, MappedAnswer, serverVars, streamVars
<1>8. CASE HandleOn
  <2>1. RequestUnderWay /\ want[Main] = "on"
    BY <1>8, OnOnlyWhenOff DEF HandleOn, Handling, RequestUnderWay
  <2>2. pc[Main] \in {"sent", "waiting"} /\ socketOpen
    BY <1>8, <2>1 DEF CallInv, RequestUnderWay, Quiet
  <2>3. toClient = <<>> /\ toClient' = <<"ok">> /\ streamActive' = TRUE /\ serverUp
    BY <1>8, <2>1, <2>2 DEF HandleOn, Answer, CanDeliver, RequestUnderWay
  <2>4. Switch!Succeed
    BY <1>8, <2>1, <2>2, <2>3, <1>a DEF HandleOn, Switch!Succeed, Switch!Pending, clientVars
  <2> QED
    BY <2>4 DEF Switch!Next
<1>9. CASE HandleOff
  <2>1. RequestUnderWay /\ want[Main] = "off"
    BY <1>9 DEF HandleOff, Handling, CallInv, RequestUnderWay, AnswerUnderWay, NobodyThere, Quiet
  <2>2. pc[Main] \in {"sent", "waiting"} /\ socketOpen
    BY <1>9, <2>1 DEF CallInv, RequestUnderWay, Quiet
  <2>3. /\ toClient = <<>>
        /\ \/ toClient' = <<"ok">> /\ streamActive' = FALSE
           \/ toClient' = <<"bad">> /\ streamActive' = streamActive
    BY <1>9, <2>1, <2>2 DEF HandleOff, Answer, CanDeliver, RequestUnderWay
  <2>4. /\ pc' = pc /\ want' = want /\ isCameraOn' = isCameraOn
        /\ serverUp /\ serverUp' = serverUp
    BY <1>9 DEF HandleOff, Handling, clientVars
  <2>5. CASE toClient' = <<"ok">> /\ streamActive' = FALSE
    <3>1. Switch!Succeed
      BY <2>1, <2>2, <2>3, <2>4, <2>5, <1>a DEF Switch!Succeed, Switch!Pending
    <3> QED
      BY <3>1 DEF Switch!Next
  <2>6. CASE toClient' = <<"bad">> /\ streamActive' = streamActive
    <3>1. Switch!Refuse
      BY <2>1, <2>2, <2>3, <2>4, <2>6, <1>a DEF Switch!Refuse, Switch!Pending
    <3> QED
      BY <3>1 DEF Switch!Next
  <2> QED
    BY <2>3, <2>5, <2>6
<1>10. CASE HandleStop
  <2>1. pc[Main] = "idle" /\ ~socketOpen
    BY <1>10 DEF HandleStop, Handling, CallInv, RequestUnderWay, AnswerUnderWay, NobodyThere, Quiet
  <2>2. ~CanDeliver
    BY <2>1 DEF CanDeliver
  <2>3. toClient = <<>>
    BY <2>1 DEF CallInv
  <2>4. /\ serverUp /\ serverUp' = FALSE
        /\ UNCHANGED <<toClient, pc, want, isCameraOn, streamActive>>
    BY <1>10, <2>2 DEF HandleStop, Handling, Answer, clientVars, streamVars
  <2>5. Switch!Break
    BY <2>1, <2>3, <2>4 DEF Switch!Break
  <2> QED
    BY <2>5 DEF Switch!Next
<1>14. CASE HandleOffDies
  <2>1. RequestUnderWay
    <3>1. Head(<<"stop">>) # "off"
      OBVIOUS
    <3>2. serverUp /\ toServer # <<>> /\ Head(toServer) = "off"
      BY <1>14 DEF HandleOffDies, Handling
    <3>3. pc[Main] \in {"sent", "waiting"}
      BY <3>1, <3>2 DEF CallInv, Quiet
    <3> QED
      BY <3>2, <3>3 DEF CallInv, AnswerUnderWay, NobodyThere
  <2>2. pc[Main] \in {"sent", "waiting"}
    BY <1>14, <2>1 DEF CallInv, RequestUnderWay, Quiet
  <2>3. want[Main] = "off" /\ toClient = <<>> /\ serverUp
    BY <1>14, <2>1 DEF HandleOffDies, Handling, RequestUnderWay
  <2>4. Switch!BreakTurningOff
    BY <1>14, <2>2, <2>3 DEF HandleOffDies, Switch!BreakTurningOff, Switch!Pending, clientVars
  <2> QED
    BY <2>4 DEF Switch!Next
<1>11. CASE StartupOver
  BY <1>11, Stutter DEF StartupOver, MappedCall, MappedAnswer, clientVars, serverVars
<1>12. ~LoseRequest /\ ~LoseAnswer /\ ~Restart
  BY DEF LoseRequest, LoseAnswer, Restart, Reliable
<1>15. ASSUME NEW p \in Pids, OpensDevice(p) \/ FindsBusy(p) \/ Dies(p)
       PROVE  UNCHANGED Switch!vars
  BY <1>15, PipelineSteps, Stutter DEF MappedCall, MappedAnswer, clientVars, serverVars
<1>13. CASE UNCHANGED vars
  BY <1>13, Stutter DEF vars, MappedCall, MappedAnswer, clientVars, serverVars, streamVars
<1> QED
  BY <1>1, <1>2, <1>3, <1>4, <1>5, <1>6, <1>7, <1>8, <1>9, <1>10, <1>11,
     <1>12, <1>13, <1>14, <1>15 DEF Next, Switch!Next

\* The initial states map to the switch's.
LEMMA SwitchInit ==
    ASSUME Init
    PROVE  Switch!Init
  BY CameraAssumption DEF Init, Switch!Init

\* For one thread on a reliable link, ethernetClient.c over clientNet.c,
\* ethernetServer.c and Stream.c implements the switch its header describes
\* (safety; that calls finish is checked by TLC).
THEOREM AloneIsASwitch == Alone => (Spec => ImplementsSwitchSteps)
<1> SUFFICES ASSUME Alone
             PROVE  Spec => ImplementsSwitchSteps
  OBVIOUS
<1>1. Init => CallInv
  BY CallInvInit
<1>2. TypeOK /\ CallInv /\ [Next]_vars => CallInv'
  BY CallInvNext
<1>3. Init => Switch!Init
  BY SwitchInit
<1>4. TypeOK /\ CallInv /\ [Next]_vars => [Switch!Next]_(Switch!vars)
  BY SwitchStep
<1> QED
  BY <1>1, <1>2, <1>3, <1>4, TypeCorrect, PTL DEF Spec, ImplementsSwitchSteps
=============================================================================

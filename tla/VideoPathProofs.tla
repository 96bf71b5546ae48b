--------------------------- MODULE VideoPathProofs ---------------------------
(***************************************************************************)
(* Proofs about VideoPath, for every number of buffers the driver may      *)
(* grant, every count of pictures, size of the pipe and set of faults: no  *)
(* buffer is lost or shared between the driver and capture, ffmpeg reads   *)
(* whole pictures in their order, and the recording is what was relayed.   *)
(***************************************************************************)
EXTENDS VideoPath, SequenceTheorems, FiniteSetTheorems, TLAPS

----------------------------------------------------------------------------
(* Queues *)

\* What is in a queue when one is put at its end, and when its first is taken.
LEMMA RangeOfAppend ==
    ASSUME NEW S, NEW q \in Seq(S), NEW e \in S
    PROVE  /\ Append(q, e) \in Seq(S)
           /\ Len(Append(q, e)) = Len(q) + 1
           /\ Range(Append(q, e)) = Range(q) \cup {e}
<1>1. /\ Append(q, e) \in Seq(S)
      /\ Len(Append(q, e)) = Len(q) + 1
      /\ \A i \in 1 .. Len(q) : Append(q, e)[i] = q[i]
      /\ Append(q, e)[Len(q) + 1] = e
  BY AppendProperties
<1>2. /\ Range(q) = {q[i] : i \in 1 .. Len(q)}
      /\ Range(Append(q, e)) = {Append(q, e)[i] : i \in 1 .. Len(q) + 1}
  BY <1>1, RangeEquality
<1>3. Len(q) \in Nat
  BY LenProperties
<1>4. \A i \in 1 .. Len(q) + 1 : i \in 1 .. Len(q) \/ i = Len(q) + 1
  BY <1>3
<1>5. \A i \in 1 .. Len(q) : i \in 1 .. Len(q) + 1
  BY <1>3
<1>6. Len(q) + 1 \in 1 .. Len(q) + 1
  BY <1>3
<1> QED
  BY <1>1, <1>2, <1>4, <1>5, <1>6

LEMMA RangeOfTail ==
    ASSUME NEW S, NEW q \in Seq(S), q # <<>>
    PROVE  /\ Head(q) \in S /\ Tail(q) \in Seq(S)
           /\ Len(Tail(q)) = Len(q) - 1 /\ Len(q) \in Nat \ {0}
           /\ Head(q) = q[1]
           /\ Range(q) = {Head(q)} \cup Range(Tail(q))
<1>1. /\ Head(q) \in S /\ Tail(q) \in Seq(S) /\ Len(Tail(q)) = Len(q) - 1
      /\ \A i \in 1 .. Len(Tail(q)) : Tail(q)[i] = q[i + 1]
  BY HeadTailProperties
<1>2. Head(q) = q[1] /\ Len(q) \in Nat \ {0}
  BY EmptySeq
<1>3. /\ Range(q) = {q[i] : i \in 1 .. Len(q)}
      /\ Range(Tail(q)) = {Tail(q)[i] : i \in 1 .. Len(q) - 1}
  BY <1>1, RangeEquality
<1>4. ASSUME NEW i \in 1 .. Len(q)
      PROVE  q[i] \in {Head(q)} \cup Range(Tail(q))
  <2>1. CASE i = 1
    BY <1>2, <2>1
  <2>2. CASE i # 1
    <3>1. i - 1 \in 1 .. Len(q) - 1 /\ (i - 1) + 1 = i
      BY <1>2, <2>2
    <3>2. Tail(q)[i - 1] = q[i]
      BY <1>1, <3>1
    <3> QED
      BY <1>3, <3>1, <3>2
  <2> QED
    BY <2>1, <2>2
<1>5. ASSUME NEW i \in 1 .. Len(q) - 1
      PROVE  Tail(q)[i] \in Range(q)
  <2>1. i + 1 \in 1 .. Len(q) /\ Tail(q)[i] = q[i + 1]
    BY <1>1, <1>2
  <2> QED
    BY <1>3, <2>1
<1>6. Head(q) \in Range(q)
  <2>1. 1 \in 1 .. Len(q)
    BY <1>2
  <2> QED
    BY <1>2, <1>3, <2>1
<1>7. Range(q) = {Head(q)} \cup Range(Tail(q))
  BY <1>3, <1>4, <1>5, <1>6
<1> QED
  BY <1>1, <1>2, <1>7

\* Two queues, one behind the other.
LEMMA RangeOfConcat ==
    ASSUME NEW S, NEW p \in Seq(S), NEW q \in Seq(S)
    PROVE  /\ p \o q \in Seq(S)
           /\ Len(p \o q) = Len(p) + Len(q)
           /\ Range(p \o q) = Range(p) \cup Range(q)
<1>1. p \o q \in Seq(S) /\ Len(p \o q) = Len(p) + Len(q)
  BY ConcatProperties
<1>2. Range(p \o q) = Range(p) \cup Range(q)
  BY RangeConcatenation
<1> QED
  BY <1>1, <1>2

LEMMA RangeOfThree ==
    ASSUME NEW S, NEW p \in Seq(S), NEW q \in Seq(S), NEW r \in Seq(S)
    PROVE  /\ Len(p \o q \o r) = Len(p) + Len(q) + Len(r)
           /\ Range(p \o q \o r) = Range(p) \cup Range(q) \cup Range(r)
<1>1. /\ p \o q \in Seq(S) /\ Len(p \o q) = Len(p) + Len(q)
      /\ Range(p \o q) = Range(p) \cup Range(q)
  BY RangeOfConcat
<1>2. \A both \in Seq(S) : /\ Len(both \o r) = Len(both) + Len(r)
                          /\ Range(both \o r) = Range(both) \cup Range(r)
  BY RangeOfConcat
<1> QED
  BY <1>1, <1>2, Zenon

\* A queue holds at most as many different things as it is long.
LEMMA RangeSize ==
    ASSUME NEW S, NEW q \in Seq(S)
    PROVE  /\ IsFiniteSet(Range(q)) /\ Cardinality(Range(q)) \in Nat
           /\ Cardinality(Range(q)) <= Len(q)
<1>1. Len(q) \in Nat /\ q \in [1 .. Len(q) -> S]
  BY LenProperties
<1>2. Range(q) = {q[i] : i \in 1 .. Len(q)}
  BY RangeEquality
<1>3. q \in Surjection(1 .. Len(q), Range(q))
  BY <1>1, <1>2 DEF Surjection
<1>4. IsFiniteSet(1 .. Len(q)) /\ Cardinality(1 .. Len(q)) = Len(q)
  BY <1>1, FS_Interval
<1> QED
  BY <1>3, <1>4, FS_Surjection, FS_CardinalityType

\* So do two queues, or two queues and one thing more.
LEMMA UnionSize ==
    ASSUME NEW S, NEW p \in Seq(S), NEW q \in Seq(S)
    PROVE  /\ IsFiniteSet(Range(p) \cup Range(q))
           /\ Cardinality(Range(p) \cup Range(q)) \in Nat
           /\ Cardinality(Range(p) \cup Range(q)) <= Len(p) + Len(q)
           /\ \A e : Cardinality(Range(p) \cup Range(q) \cup {e}) <= Len(p) + Len(q) + 1
<1>1. Len(p) \in Nat /\ Len(q) \in Nat
  BY LenProperties
<1>2. /\ IsFiniteSet(Range(p)) /\ Cardinality(Range(p)) \in Nat /\ Cardinality(Range(p)) <= Len(p)
      /\ IsFiniteSet(Range(q)) /\ Cardinality(Range(q)) \in Nat /\ Cardinality(Range(q)) <= Len(q)
  BY RangeSize
<1>3. /\ IsFiniteSet(Range(p) \cup Range(q))
      /\ Cardinality(Range(p) \cup Range(q)) =
            Cardinality(Range(p)) + Cardinality(Range(q)) - Cardinality(Range(p) \cap Range(q))
  BY <1>2, FS_Union
<1>4. Cardinality(Range(p) \cap Range(q)) \in Nat
  BY <1>2, FS_Intersection, FS_CardinalityType
<1>5. Cardinality(Range(p) \cup Range(q)) \in Nat
  BY <1>3, FS_CardinalityType
<1>6. ASSUME NEW e
      PROVE  Cardinality(Range(p) \cup Range(q) \cup {e}) <= Cardinality(Range(p) \cup Range(q)) + 1
  <2>1. Cardinality(Range(p) \cup Range(q) \cup {e}) =
            IF e \in Range(p) \cup Range(q) THEN Cardinality(Range(p) \cup Range(q))
            ELSE Cardinality(Range(p) \cup Range(q)) + 1
    BY <1>3, FS_AddElement
  <2> QED
    BY <1>5, <2>1
<1>7. Cardinality(Range(p) \cup Range(q)) <= Len(p) + Len(q)
  BY <1>1, <1>2, <1>3, <1>4
<1>8. ASSUME NEW e
      PROVE  Cardinality(Range(p) \cup Range(q) \cup {e}) <= Len(p) + Len(q) + 1
  <2>1. Cardinality(Range(p) \cup Range(q) \cup {e}) \in Nat
    BY <1>3, FS_AddElement, FS_CardinalityType
  <2>2. Cardinality(Range(p) \cup Range(q) \cup {e}) <= Cardinality(Range(p) \cup Range(q)) + 1
    BY <1>6
  <2> QED
    BY <1>1, <1>5, <1>7, <2>1, <2>2
<1> QED
  BY <1>3, <1>5, <1>7, <1>8

----------------------------------------------------------------------------
(* Types *)

\* The steps at which capture may be given up, or is over, give everything back.
\* While the camera runs there are buffers, and pictures still to be taken.
PlaceInv ==
    /\ step \in {"off", "open", "init"} => buffers = {}
    /\ step \in Steps \ {"off", "open", "init"} => \E n \in Granted : buffers = 0..n - 1
    /\ step \in {"off", "open", "init", "start", "close"} => incoming = <<>> /\ filled = <<>>
    /\ step \in {"open", "init", "start", "select", "write", "requeue"} =>
        isInfinite \/ count > 0
    /\ step \in {"write", "requeue"} => held \in buffers

\* What is granted are buffers.
LEMMA IndicesGranted == \A n \in Granted : n \in Nat /\ 0..n - 1 \subseteq Indices
  BY VideoAssumption DEF Indices

\* Pictures to be taken, one less each time.
Counts == {0} \cup UNION {0..c : c \in FrameCounts}

LEMMA CountsTyped ==
    /\ FrameCounts \subseteq Counts /\ Counts \subseteq Nat
    /\ \A k \in Counts : k > 0 => k - 1 \in Counts
<1>1. \A c \in FrameCounts : c \in Nat /\ c \in 0..c
  BY VideoAssumption
<1>2. ASSUME NEW k \in Counts
      PROVE  k \in Nat /\ (k > 0 => k - 1 \in Counts)
  <2>1. CASE k = 0
    BY <2>1
  <2>2. ASSUME NEW c \in FrameCounts, k \in 0..c
        PROVE  k \in Nat /\ (k > 0 => k - 1 \in Counts)
    <3>1. k > 0 => k - 1 \in 0..c
      BY <1>1, <2>2
    <3> QED
      BY <1>1, <2>2, <3>1 DEF Counts
  <2> QED
    BY <2>1, <2>2 DEF Counts
<1> QED
  BY <1>1, <1>2 DEF Counts

LEMMA GoneTyped ==
    ASSUME Gone
    PROVE  /\ step' = "off" /\ count' \in Counts /\ isInfinite' \in BOOLEAN
           /\ buffers' \subseteq Indices /\ held' \in Indices \cup {0} /\ half' \in {1, 2}
           /\ incoming' \in Seq(buffers') /\ filled' \in Seq(buffers')
           /\ image' \in [Indices -> Shots]
           /\ PlaceInv'
<1>1. 0 \in Shots
  BY VideoAssumption DEF Shots
<1>2. <<>> \in Seq(buffers')
  OBVIOUS
<1> QED
  BY <1>1, <1>2, IndicesGranted DEF Gone, PlaceInv, Steps, Counts

\* A picture in the pipe is a half of one that was taken.
LEMMA HalfTyped ==
    /\ Nothing \in Halves
    /\ \A n \in Shots, h \in {1, 2} : <<n, h>> \in Halves
    /\ \A g \in Halves : g[1] \in Shots /\ g[2] \in {1, 2} /\ g = <<g[1], g[2]>>
  BY VideoAssumption DEF Nothing, Halves, Shots

\* What another run of the program leaves of a recording is a recording.
LEMMA RelayGoneTyped ==
    ASSUME TypeOK, RelayGone
    PROVE  /\ relay' \in BOOLEAN /\ fileStream' \in {"none", "open", "ended"}
           /\ recording' \in Seq(Shots) /\ relayed' \in Seq(Shots)
<1>1. PICK n \in 0..Len(recording) : recording' = SubSeq(recording, 1, n)
  BY DEF RelayGone
<1>2. \A i \in 1..n : recording[i] \in Shots
  BY ElementOfSeq DEF TypeOK
<1>3. recording' \in Seq(Shots)
  BY <1>1, <1>2, SubSeqProperties
<1>4. relay' = FALSE /\ fileStream' = "none" /\ relayed' = <<>>
  BY DEF RelayGone
<1>5. <<>> \in Seq(Shots)
  OBVIOUS
<1> QED
  BY <1>3, <1>4, <1>5

\* The steps of capture, and of those who end it.
LEMMA CaptureTyped ==
    ASSUME TypeOK, PlaceInv, Launch \/ Capture \/ DeviceFails \/ Kill
    PROVE  TypeOK' /\ PlaceInv'
<1> USE DEF TypeOK
<1>a. ASSUME Exit
      PROVE  TypeOK' /\ PlaceInv'
  <2>1. UNCHANGED <<shot, pipe, encoder, got, inFlight, relay, fileStream, recording, relayed>>
    BY <1>a DEF Exit, Outside, encoderVars, relayVars
  <2>2. Gone
    BY <1>a DEF Exit
  <2> QED
    BY <2>1, <2>2, GoneTyped DEF Steps, Counts
<1>1. CASE Launch
  <2>1. count' \in Counts /\ (isInfinite' \/ count' > 0) /\ isInfinite' \in BOOLEAN
    <3>1. count' \in FrameCounts /\ isInfinite' = (count' = 0)
      BY <1>1 DEF Launch
    <3>2. count' \in Counts /\ count' \in Nat
      BY <3>1, CountsTyped
    <3>3. isInfinite' \in BOOLEAN /\ (isInfinite' \/ count' # 0)
      BY <3>1, Zenon
    <3> QED
      BY <3>2, <3>3
  <2>2. step' = "open" /\ step = "off" /\ pipe' = <<>> /\ Len(pipe') <= PipeSize
    BY <1>1, VideoAssumption DEF Launch
  <2>3. UNCHANGED <<buffers, held, half, incoming, filled, image, shot, inFlight, relay,
                    fileStream, recording, relayed>>
    BY <1>1 DEF Launch, driverVars, relayVars
  <2>4. encoder' = TRUE /\ got' \in Halves /\ <<>> \in Seq(Halves)
    BY <1>1, HalfTyped DEF Launch
  <2>5. TypeOK'
    BY <2>1, <2>2, <2>3, <2>4 DEF Steps, Counts
  <2>6. PlaceInv'
    BY <2>1, <2>2, <2>3 DEF PlaceInv, Steps
  <2> QED
    BY <2>5, <2>6
<1>2. CASE OpenDevice
  BY <1>2 DEF OpenDevice, Goto, driverVars, Outside, encoderVars, relayVars, Steps, PlaceInv
<1>3. CASE InitDevice
  <2>1. PICK n \in Granted :
            IF n < 2 THEN Exit
            ELSE /\ Goto("start")
                 /\ buffers' = 0..n - 1
                 /\ UNCHANGED <<count, isInfinite, held, half, driverVars, Outside>>
    BY <1>3 DEF InitDevice
  <2>2. CASE n < 2
    BY <1>a, <2>1, <2>2
  <2>3. CASE ~(n < 2)
    <3>1. step = "init" /\ step' = "start" /\ incoming' = <<>> /\ filled' = <<>>
      BY <1>3, <2>1, <2>3 DEF InitDevice, Goto, driverVars, PlaceInv
    <3>2. buffers' = 0..n - 1 /\ buffers' \subseteq Indices
      BY <2>1, <2>3, IndicesGranted
    <3>3. UNCHANGED <<count, isInfinite, held, half, image, shot, pipe, encoder, got, inFlight,
                      relay, fileStream, recording, relayed>>
      BY <2>1, <2>3 DEF driverVars, Outside, encoderVars, relayVars
    <3>4. <<>> \in Seq(buffers')
      OBVIOUS
    <3>5. TypeOK'
      BY <3>1, <3>2, <3>3, <3>4 DEF Steps
    <3>6. PlaceInv'
      BY <3>1, <3>2, <3>3 DEF PlaceInv
    <3> QED
      BY <3>5, <3>6
  <2> QED
    BY <2>2, <2>3
<1>4. CASE StartCapturing
  <2>1. step = "start" /\ step' = "select"
        /\ UNCHANGED <<count, isInfinite, buffers, held, half, filled, image, Outside>>
    BY <1>4 DEF StartCapturing, Goto
  <2>2. incoming' \in Seq(buffers)
    <3>1. PICK n \in Granted : buffers = 0..n - 1
      BY <2>1 DEF PlaceInv, Steps
    <3>2. n \in Nat /\ Cardinality(buffers) = n
      <4>1. n \in Nat
        BY VideoAssumption
      <4> QED
        BY <3>1, <4>1, FS_Interval
    <3>3. incoming' = [i \in 1..n |-> i - 1] /\ \A i \in 1..n : i - 1 \in buffers
      BY <1>4, <3>1, <3>2 DEF StartCapturing
    <3> QED
      BY <3>2, <3>3
  <2> QED
    BY <2>1, <2>2 DEF PlaceInv, Steps, Outside, encoderVars, relayVars
<1>5. CASE Dequeue
  <2>1. held' \in buffers /\ filled' \in Seq(buffers)
    BY <1>5, RangeOfTail DEF Dequeue
  <2> QED
    BY <1>5, <2>1 DEF Dequeue, Goto, Outside, encoderVars, relayVars, Steps, PlaceInv
<1>6. CASE SelectTimeout
  BY <1>6, <1>a DEF SelectTimeout
<1>7. CASE ProcessImage
  <2>1. CASE ~encoder
    BY <1>7, <1>a, <2>1 DEF ProcessImage
  <2>2. CASE encoder
    <3>1. image[held] \in Shots
      BY <1>7 DEF ProcessImage, PlaceInv
    <3>2. <<image[held], half>> \in Halves
      BY <3>1, HalfTyped
    <3>3. pipe' = Append(pipe, <<image[held], half>>) /\ Len(pipe) < PipeSize
      BY <1>7, <2>2 DEF ProcessImage
    <3>4. pipe' \in Seq(Halves) /\ Len(pipe') <= PipeSize
      <4>1. Len(pipe') = Len(pipe) + 1 /\ pipe' \in Seq(Halves) /\ Len(pipe) \in Nat
        BY <3>2, <3>3, AppendProperties, LenProperties
      <4> QED
        BY <3>3, <4>1, VideoAssumption
    <3>5. half' \in {1, 2} /\ step' \in {"write", "requeue"} /\ step = "write"
      BY <1>7, <2>2 DEF ProcessImage, Goto
    <3>6. UNCHANGED <<count, isInfinite, buffers, held, incoming, filled, image, shot,
                      encoder, got, inFlight, relay, fileStream, recording, relayed>>
      BY <1>7, <2>2 DEF ProcessImage, driverVars, relayVars
    <3> QED
      BY <3>4, <3>5, <3>6 DEF PlaceInv, Steps
  <2> QED
    BY <2>1, <2>2
<1>8. CASE Requeue
  <2>1. step = "requeue" /\ step' \in {"select", "stop"}
        /\ UNCHANGED <<isInfinite, buffers, held, half, filled, image, Outside>>
    BY <1>8 DEF Requeue, Goto
  <2>2. incoming' \in Seq(buffers)
    BY <1>8, <2>1, RangeOfAppend DEF Requeue, PlaceInv
  <2>3. count' \in Counts /\ (step' = "select" => isInfinite \/ count' > 0)
    BY <1>8, <2>1, CountsTyped DEF Requeue, Goto, PlaceInv, Counts
  <2> QED
    BY <2>1, <2>2, <2>3 DEF PlaceInv, Steps, Outside, encoderVars, relayVars, Counts
<1>9. CASE StopCapturing
  <2>1. <<>> \in Seq(buffers)
    OBVIOUS
  <2> QED
    BY <1>9, <2>1 DEF StopCapturing, Goto, Outside, encoderVars, relayVars, Steps, PlaceInv
<1>10. CASE CloseDevice
  BY <1>10, <1>a DEF CloseDevice
<1>11. CASE DeviceFails
  BY <1>11, <1>a DEF DeviceFails
<1>12. CASE Kill
  <2>1. Gone /\ UNCHANGED <<shot, inFlight, relay, fileStream, recording, relayed>>
    BY <1>12 DEF Kill, relayVars
  <2>2. encoder' = FALSE /\ pipe' = <<>> /\ got' \in Halves
    BY <1>12, HalfTyped DEF Kill
  <2>3. <<>> \in Seq(Halves) /\ Len(<<>>) <= PipeSize
    BY VideoAssumption
  <2> QED
    BY <2>1, <2>2, <2>3, GoneTyped DEF Steps, Counts
<1> QED
  BY <1>1, <1>2, <1>3, <1>4, <1>5, <1>6, <1>7, <1>8, <1>9, <1>10, <1>11, <1>12 DEF Capture

\* The others leave capture alone.
LEMMA OthersTyped ==
    ASSUME TypeOK, PlaceInv,
           \/ Shoot \/ Encode \/ EncoderEnds \/ Lose
           \/ \E d \in Shots : Open(d) \/ Relay(d) \/ WriteAfterEnd(d)
           \/ SocketError \/ RelayDies \/ RelayStarts \/ UNCHANGED vars
    PROVE  TypeOK' /\ PlaceInv'
<1> USE DEF TypeOK
<1>1. CASE Shoot
  <2>1. shot' \in Shots /\ UNCHANGED <<captureVars, encoderVars, inFlight, relayVars>>
    <3>1. shot' = shot + 1 /\ shot < MaxShots /\ shot \in 0..MaxShots /\ MaxShots \in Nat
      BY <1>1, VideoAssumption DEF Shoot, Shots
    <3>2. shot' \in 0..MaxShots
      BY <3>1
    <3> QED
      BY <1>1, <3>2 DEF Shoot, Shots
  <2>2. /\ incoming' \in Seq(buffers) /\ filled' \in Seq(buffers)
        /\ image' \in [Indices -> Shots]
    <3>1. CASE incoming = <<>>
      BY <1>1, <3>1 DEF Shoot, driverVars
    <3>2. CASE incoming # <<>>
      <4>1. Head(incoming) \in buffers /\ Tail(incoming) \in Seq(buffers)
        BY <3>2, RangeOfTail
      <4>2. Append(filled, Head(incoming)) \in Seq(buffers)
        BY <4>1, RangeOfAppend
      <4>3. /\ image' = [image EXCEPT ![Head(incoming)] = shot']
            /\ filled' = Append(filled, Head(incoming))
            /\ incoming' = Tail(incoming) /\ buffers' = buffers
        BY <1>1, <3>2 DEF Shoot, captureVars
      <4>4. image' \in [Indices -> Shots]
        BY <2>1, <4>3
      <4> QED
        BY <4>1, <4>2, <4>3, <4>4
    <3> QED
      BY <3>1, <3>2
  <2>3. step \in {"select", "write", "requeue"}
    BY <1>1 DEF Shoot
  <2> QED
    BY <2>1, <2>2, <2>3 DEF captureVars, encoderVars, relayVars, PlaceInv, Steps
<1>2. CASE Encode
  <2>1. got' \in Halves /\ pipe' \in Seq(Halves) /\ Len(pipe') <= PipeSize
    <3>1. /\ Head(pipe) \in Halves /\ Tail(pipe) \in Seq(Halves)
          /\ Len(Tail(pipe)) = Len(pipe) - 1 /\ Len(pipe) \in Nat
      BY <1>2, HeadTailProperties, LenProperties DEF Encode
    <3> QED
      BY <1>2, <3>1, VideoAssumption DEF Encode
  <2>2. inFlight' \subseteq Shots
    BY <1>2, <2>1, HalfTyped DEF Encode
  <2> QED
    BY <1>2, <2>1, <2>2 DEF Encode, captureVars, driverVars, relayVars, PlaceInv
<1>3. CASE EncoderEnds
  <2>1. <<>> \in Seq(Halves) /\ Len(<<>>) <= PipeSize
    BY VideoAssumption
  <2> QED
    BY <1>3, <2>1, HalfTyped DEF EncoderEnds, captureVars, driverVars, relayVars, PlaceInv
<1>4. CASE Lose
  BY <1>4 DEF Lose, captureVars, driverVars, encoderVars, relayVars, PlaceInv
<1>5. ASSUME NEW d \in Shots, Open(d) \/ Relay(d) \/ WriteAfterEnd(d)
      PROVE  TypeOK' /\ PlaceInv'
  <2>1. UNCHANGED <<captureVars, driverVars, shot, encoderVars>> /\ inFlight' \subseteq Shots
    BY <1>5 DEF Open, Relay, WriteAfterEnd, Arrives
  <2>2. /\ relay' \in BOOLEAN /\ fileStream' \in {"none", "open", "ended"}
        /\ recording' \in Seq(Shots) /\ relayed' \in Seq(Shots)
    <3>1. Append(relayed, d) \in Seq(Shots) /\ Append(recording, d) \in Seq(Shots)
          /\ <<>> \in Seq(Shots)
      BY AppendProperties
    <3> QED
      BY <1>5, <3>1, RelayGoneTyped DEF Open, Relay, WriteAfterEnd
  <2> QED
    BY <2>1, <2>2 DEF captureVars, driverVars, encoderVars, PlaceInv
<1>6. CASE SocketError \/ RelayStarts \/ UNCHANGED vars
  BY <1>6 DEF SocketError, RelayStarts, vars, captureVars, driverVars, encoderVars, relayVars,
     PlaceInv
<1>7. CASE RelayDies
  BY <1>7, RelayGoneTyped DEF RelayDies, captureVars, driverVars, encoderVars, PlaceInv
<1> QED
  BY <1>1, <1>2, <1>3, <1>4, <1>5, <1>6, <1>7

LEMMA StartsTyped ==
    ASSUME Init
    PROVE  TypeOK /\ PlaceInv
<1>1. 0 \in Shots /\ Nothing \in Halves
  BY HalfTyped, VideoAssumption DEF Shots
<1>2. /\ <<>> \in Seq(buffers) /\ <<>> \in Seq(Halves) /\ <<>> \in Seq(Shots)
      /\ Len(<<>>) <= PipeSize
  BY VideoAssumption
<1>3. TypeOK
  BY <1>1, <1>2 DEF Init, TypeOK, Steps
<1>4. PlaceInv
  BY DEF Init, PlaceInv, Steps
<1> QED
  BY <1>3, <1>4

LEMMA TypesKept ==
    ASSUME TypeOK, PlaceInv, [Next]_vars
    PROVE  TypeOK' /\ PlaceInv'
  BY CaptureTyped, OthersTyped DEF Next

\* Every variable keeps its type: capture's index of a buffer is one of those it was
\* granted, and its count of pictures never passes 0 (capture.c, mainloop).
THEOREM TypeCorrect == Spec => []TypeOK
<1>1. Init => TypeOK /\ PlaceInv
  BY StartsTyped
<1>2. TypeOK /\ PlaceInv /\ [Next]_vars => TypeOK' /\ PlaceInv'
  BY TypesKept
<1> QED
  BY <1>1, <1>2, PTL DEF Spec

----------------------------------------------------------------------------
(* Buffers *)

\* BuffersKept, with what is in the queues and how much of it apart.
KeptInv ==
    /\ step = "select" =>
        /\ Range(incoming) \cup Range(filled) = buffers
        /\ Len(incoming) + Len(filled) = Cardinality(buffers)
    /\ step \in {"write", "requeue"} =>
        /\ Range(incoming) \cup Range(filled) \cup {held} = buffers
        /\ Len(incoming) + Len(filled) + 1 = Cardinality(buffers)

\* A step of another process, or of capture elsewhere.
LEMMA CaptureElsewhere ==
    ASSUME TypeOK, [Next]_vars
    PROVE  \/ step' \notin {"select", "write", "requeue"}
           \/ UNCHANGED <<step, buffers, held, half, incoming, filled, image>>
           \/ StartCapturing \/ Dequeue \/ (ProcessImage /\ encoder) \/ Requeue \/ Shoot
<1>1. CASE Capture
  BY <1>1 DEF Capture, OpenDevice, InitDevice, SelectTimeout, ProcessImage, StopCapturing,
     CloseDevice, Exit, Gone, Goto
<1>2. CASE Launch \/ DeviceFails \/ Kill
  BY <1>2 DEF Launch, DeviceFails, Kill, Exit, Gone
<1>3. CASE \E d \in Shots : Open(d) \/ Relay(d) \/ WriteAfterEnd(d)
  BY <1>3 DEF Open, Relay, WriteAfterEnd, Arrives, captureVars, driverVars
<1>4. CASE \/ Encode \/ EncoderEnds \/ Lose \/ SocketError \/ RelayDies \/ RelayStarts
           \/ UNCHANGED vars
  BY <1>4 DEF Encode, EncoderEnds, Lose, SocketError, RelayDies, RelayStarts, vars,
     captureVars, driverVars
<1> QED
  BY <1>1, <1>2, <1>3, <1>4 DEF Next

LEMMA StartKeeps ==
    ASSUME TypeOK, PlaceInv, StartCapturing
    PROVE  KeptInv'
<1>1. step = "start" /\ step' = "select" /\ buffers' = buffers /\ filled' = <<>>
  BY DEF StartCapturing, Goto, PlaceInv
<1>2. PICK n \in Granted : buffers = 0..n - 1
  BY <1>1 DEF PlaceInv, Steps
<1>3. n \in Nat /\ Cardinality(buffers) = n
  BY <1>2, IndicesGranted, VideoAssumption, FS_Interval
<1>4. incoming' = [i \in 1..n |-> i - 1]
  BY <1>2, <1>3 DEF StartCapturing
<1>5. Range(incoming') = buffers
  <2>1. Range(incoming') = {i - 1 : i \in 1..n}
    BY <1>4 DEF Range
  <2>2. \A k \in 0..n - 1 : k + 1 \in 1..n /\ (k + 1) - 1 = k
    BY <1>3
  <2>3. \A i \in 1..n : i - 1 \in 0..n - 1
    BY <1>3
  <2> QED
    BY <1>2, <2>1, <2>2, <2>3
<1>6. Range(filled') = {} /\ Len(filled') = 0
  BY <1>1 DEF Range
<1>7. Len(incoming') = n
  BY <1>3, <1>4
<1> QED
  BY <1>1, <1>3, <1>5, <1>6, <1>7 DEF KeptInv

LEMMA DequeueKeeps ==
    ASSUME TypeOK, KeptInv, Dequeue
    PROVE  KeptInv'
<1>1. /\ step = "select" /\ filled # <<>> /\ step' = "write"
      /\ held' = Head(filled) /\ filled' = Tail(filled)
      /\ UNCHANGED <<incoming, buffers>>
  BY DEF Dequeue, Goto
<1>2. /\ Range(filled) = {held'} \cup Range(filled') /\ Len(filled') = Len(filled) - 1
      /\ Len(filled) \in Nat
  BY <1>1, RangeOfTail DEF TypeOK
<1>3. Len(incoming) \in Nat
  BY LenProperties DEF TypeOK
<1>4. Range(incoming') \cup Range(filled') \cup {held'} = buffers'
  BY <1>1, <1>2 DEF KeptInv
<1>5. Len(incoming') + Len(filled') + 1 = Cardinality(buffers')
  BY <1>1, <1>2, <1>3 DEF KeptInv
<1> QED
  BY <1>1, <1>4, <1>5 DEF KeptInv

LEMMA RequeueKeeps ==
    ASSUME TypeOK, PlaceInv, KeptInv, Requeue
    PROVE  KeptInv'
<1>1. /\ step = "requeue" /\ step' \in {"select", "stop"}
      /\ incoming' = Append(incoming, held) /\ UNCHANGED <<buffers, filled>>
  BY DEF Requeue, Goto
<1>2. Range(incoming') = Range(incoming) \cup {held} /\ Len(incoming') = Len(incoming) + 1
  BY <1>1, RangeOfAppend DEF TypeOK, PlaceInv
<1>3. Len(incoming) \in Nat /\ Len(filled) \in Nat
  BY LenProperties DEF TypeOK
<1>4. Range(incoming') \cup Range(filled') = buffers'
  BY <1>1, <1>2 DEF KeptInv
<1>5. Len(incoming') + Len(filled') = Cardinality(buffers')
  BY <1>1, <1>2, <1>3 DEF KeptInv
<1> QED
  BY <1>1, <1>4, <1>5 DEF KeptInv

LEMMA ShootKeeps ==
    ASSUME TypeOK, KeptInv, Shoot
    PROVE  KeptInv'
<1>1. UNCHANGED <<step, buffers, held>>
  BY DEF Shoot, captureVars
<1>2. CASE incoming = <<>>
  BY <1>1, <1>2 DEF Shoot, driverVars, KeptInv
<1>3. CASE incoming # <<>>
  <2>1. filled' = Append(filled, Head(incoming)) /\ incoming' = Tail(incoming)
    BY <1>3 DEF Shoot
  <2>2. /\ Range(incoming) = {Head(incoming)} \cup Range(incoming')
        /\ Len(incoming') = Len(incoming) - 1 /\ Len(incoming) \in Nat
        /\ Head(incoming) \in buffers
    BY <1>3, <2>1, RangeOfTail DEF TypeOK
  <2>3. /\ Range(filled') = Range(filled) \cup {Head(incoming)}
        /\ Len(filled') = Len(filled) + 1 /\ Len(filled) \in Nat
    BY <2>1, <2>2, RangeOfAppend, LenProperties DEF TypeOK
  <2>4. Range(incoming') \cup Range(filled') = Range(incoming) \cup Range(filled)
    BY <2>2, <2>3
  <2>5. Len(incoming') + Len(filled') = Len(incoming) + Len(filled)
    BY <2>2, <2>3
  <2> QED
    BY <1>1, <2>4, <2>5 DEF KeptInv
<1> QED
  BY <1>2, <1>3

LEMMA KeptKept ==
    ASSUME TypeOK, PlaceInv, KeptInv, [Next]_vars
    PROVE  KeptInv'
<1>1. CASE step' \notin {"select", "write", "requeue"}
  BY <1>1 DEF KeptInv
<1>2. CASE UNCHANGED <<step, buffers, held, half, incoming, filled, image>>
  BY <1>2 DEF KeptInv
<1>3. CASE ProcessImage /\ encoder
  <2>1. /\ step = "write" /\ step' \in {"write", "requeue"}
        /\ UNCHANGED <<buffers, held, incoming, filled>>
    BY <1>3 DEF ProcessImage, Goto, driverVars
  <2> QED
    BY <2>1 DEF KeptInv
<1> QED
  BY <1>1, <1>2, <1>3, CaptureElsewhere, StartKeeps, DequeueKeeps, RequeueKeeps, ShootKeeps

\* While the camera runs each buffer is queued, filled or in capture's hands, and
\* in one of these places only (capture.c: read_frame, process_image and the
\* VIDIOC_QBUF at its end), for every number of buffers.
THEOREM NoBufferIsLost == Spec => []BuffersKept
<1>1. Init => KeptInv
  BY DEF Init, KeptInv
<1>2. TypeOK /\ PlaceInv /\ KeptInv /\ [Next]_vars
        => TypeOK' /\ PlaceInv' /\ KeptInv'
  BY TypesKept, KeptKept
<1>3. TypeOK /\ PlaceInv /\ KeptInv => BuffersKept
  <2> SUFFICES ASSUME TypeOK, PlaceInv, KeptInv, step \in {"select", "write", "requeue"}
               PROVE  LET all == incoming \o filled \o Taken
                      IN  /\ Len(all) = Cardinality(buffers)
                          /\ {all[i] : i \in DOMAIN all} = buffers
    BY DEF BuffersKept
  <2> DEFINE all == incoming \o filled \o Taken
  <2>1. \E taken \in SUBSET {held} :
            /\ Taken \in Seq(buffers) /\ Range(Taken) = taken
            /\ Range(incoming) \cup Range(filled) \cup taken = buffers
            /\ Len(incoming) + Len(filled) + Len(Taken) = Cardinality(buffers)
    <3>1. CASE step = "select"
      <4>1. Taken = <<>> /\ Taken \in Seq(buffers) /\ Range(Taken) = {} /\ Len(Taken) = 0
        BY <3>1 DEF Taken, Range
      <4>2. Len(incoming) \in Nat /\ Len(filled) \in Nat
        BY LenProperties DEF TypeOK
      <4>3. /\ Range(incoming) \cup Range(filled) \cup {} = buffers
            /\ Len(incoming) + Len(filled) + 0 = Cardinality(buffers)
        BY <3>1, <4>2 DEF KeptInv
      <4>4. {} \in SUBSET {held}
        OBVIOUS
      <4> QED
        BY <4>1, <4>3, <4>4
    <3>2. CASE step \in {"write", "requeue"}
      <4>1. Taken = <<held>> /\ held \in buffers
        BY <3>2 DEF Taken, PlaceInv
      <4>2. <<held>> \in Seq(buffers) /\ Len(<<held>>) = 1
        BY <4>1
      <4>3. Range(<<held>>) = {held}
        BY DEF Range
      <4>4. /\ Range(incoming) \cup Range(filled) \cup {held} = buffers
            /\ Len(incoming) + Len(filled) + 1 = Cardinality(buffers)
        BY <3>2 DEF KeptInv
      <4>5. {held} \in SUBSET {held}
        OBVIOUS
      <4> QED
        BY <4>1, <4>2, <4>3, <4>4, <4>5
    <3> QED
      BY <3>1, <3>2
  <2>2. /\ Len(all) = Len(incoming) + Len(filled) + Len(Taken)
        /\ Range(all) = Range(incoming) \cup Range(filled) \cup Range(Taken)
    <3>1. Taken \in Seq(buffers) /\ incoming \in Seq(buffers) /\ filled \in Seq(buffers)
      BY <2>1 DEF TypeOK
    <3> QED
      BY <3>1, RangeOfThree
  <2>3. Range(all) = {all[i] : i \in DOMAIN all}
    BY DEF Range
  <2>4. Range(all) = buffers /\ Len(all) = Cardinality(buffers)
    BY <2>1, <2>2
  <2> QED
    BY <2>3, <2>4
<1> QED
  BY <1>1, <1>2, <1>3, StartsTyped, PTL DEF Spec

----------------------------------------------------------------------------
(* Pictures *)

\* When all that is in the queues is different, the first of one is nowhere else.
LEMMA FirstIsApart ==
    ASSUME NEW S, NEW p \in Seq(S), NEW q \in Seq(S), p # <<>>
    PROVE  /\ Cardinality(Range(p) \cup Range(q)) = Len(p) + Len(q) => Head(p) \notin Range(q)
           /\ \A e : Cardinality(Range(p) \cup Range(q) \cup {e}) = Len(p) + Len(q) + 1
                        => Head(p) \notin Range(q) /\ Head(p) # e
<1>1. /\ Tail(p) \in Seq(S) /\ Len(Tail(p)) = Len(p) - 1 /\ Len(p) \in Nat \ {0}
      /\ Range(p) = {Head(p)} \cup Range(Tail(p))
  BY RangeOfTail
<1>2. Len(q) \in Nat
  BY LenProperties
<1>3. /\ IsFiniteSet(Range(Tail(p)) \cup Range(q))
      /\ Cardinality(Range(Tail(p)) \cup Range(q)) \in Nat
      /\ Cardinality(Range(Tail(p)) \cup Range(q)) <= Len(Tail(p)) + Len(q)
      /\ \A e : Cardinality(Range(Tail(p)) \cup Range(q) \cup {e}) <= Len(Tail(p)) + Len(q) + 1
  BY <1>1, UnionSize
<1>4. ASSUME Cardinality(Range(p) \cup Range(q)) = Len(p) + Len(q), Head(p) \in Range(q)
      PROVE  FALSE
  <2>1. Range(p) \cup Range(q) = Range(Tail(p)) \cup Range(q)
    BY <1>1, <1>4
  <2>2. Cardinality(Range(Tail(p)) \cup Range(q)) = Len(p) + Len(q)
    BY <1>4, <2>1
  <2> QED
    BY <1>1, <1>2, <1>3, <2>2
<1>5. ASSUME NEW e, Cardinality(Range(p) \cup Range(q) \cup {e}) = Len(p) + Len(q) + 1,
             Head(p) \in Range(q) \/ Head(p) = e
      PROVE  FALSE
  <2>1. Range(p) \cup Range(q) \cup {e} = Range(Tail(p)) \cup Range(q) \cup {e}
    BY <1>1, <1>5
  <2>2. Cardinality(Range(Tail(p)) \cup Range(q) \cup {e}) = Len(p) + Len(q) + 1
    BY <1>5, <2>1
  <2>3. Cardinality(Range(Tail(p)) \cup Range(q) \cup {e}) <= Len(Tail(p)) + Len(q) + 1
    BY <1>3
  <2> QED
    BY <1>1, <1>2, <2>2, <2>3
<1> QED
  BY <1>4, <1>5

\* The driver fills a buffer that nobody else has.
LEMMA FilledIsFree ==
    ASSUME TypeOK, KeptInv, Shoot, incoming # <<>>
    PROVE  /\ Head(incoming) \notin Range(filled)
           /\ step \in {"write", "requeue"} => Head(incoming) # held
<1>1. incoming \in Seq(buffers) /\ filled \in Seq(buffers)
  BY DEF TypeOK
<1>2. step \in {"select", "write", "requeue"}
  BY DEF Shoot
<1>3. CASE step = "select"
  BY <1>1, <1>3, FirstIsApart DEF KeptInv
<1>4. CASE step \in {"write", "requeue"}
  BY <1>1, <1>4, FirstIsApart DEF KeptInv
<1> QED
  BY <1>2, <1>3, <1>4

\* The half capture has written last, or what counts as one before the first.
Last == IF pipe = <<>> THEN got ELSE pipe[Len(pipe)]

\* The filled buffers hold pictures in the order they were taken, all of them taken
\* after the one in capture's hands, and that one after all in the pipe.
ShotsInv ==
    /\ Last[1] <= shot
    /\ step \in {"select", "write", "requeue"} =>
        /\ \A i \in DOMAIN filled : image[filled[i]] <= shot
        /\ \A i, j \in DOMAIN filled : i < j => image[filled[i]] < image[filled[j]]
    /\ step \in {"write", "requeue"} =>
        image[held] <= shot /\ \A i \in DOMAIN filled : image[held] < image[filled[i]]

WriteInv ==
    encoder =>
        /\ step \in {"open", "init", "start"} => Last = Nothing
        /\ step \in {"select", "requeue"} =>
            Last[2] = 2 /\ \A i \in DOMAIN filled : Last[1] < image[filled[i]]
        /\ step = "write" /\ half = 1 => Last[2] = 2 /\ Last[1] < image[held]
        /\ step = "write" /\ half = 2 => Last = <<image[held], 1>>

\* WholeFramesInOrder, of the pipe and of what was read from it.
Linked ==
    /\ pipe # <<>> => Follows(pipe[1], got)
    /\ \A i \in 1..Len(pipe) - 1 : Follows(pipe[i + 1], pipe[i])

\* What is written becomes the last half, what is read does not change it.
LEMMA LastTyped ==
    ASSUME TypeOK
    PROVE  Last \in Halves /\ Last[1] \in Nat /\ Last[2] \in {1, 2}
<1>1. CASE pipe = <<>>
  BY <1>1, HalfTyped, VideoAssumption DEF Last, TypeOK, Shots
<1>2. CASE pipe # <<>>
  <2>1. Len(pipe) \in Nat \ {0}
    BY <1>2, EmptySeq, LenProperties DEF TypeOK
  <2>2. pipe[Len(pipe)] \in Halves
    BY <2>1, ElementOfSeq DEF TypeOK
  <2> QED
    BY <1>2, <2>2, HalfTyped, VideoAssumption DEF Last, Shots
<1> QED
  BY <1>1, <1>2

LEMMA LastWritten ==
    ASSUME TypeOK, PlaceInv, ProcessImage, encoder
    PROVE  /\ Last' = <<image[held], half>>
           /\ Follows(<<image[held], half>>, Last) /\ Linked => Linked'
<1> DEFINE h == <<image[held], half>>
<1>1. h \in Halves
  BY HalfTyped DEF TypeOK, PlaceInv, ProcessImage
<1>2. pipe' = Append(pipe, h) /\ got' = got
  BY DEF ProcessImage
<1>3. Len(pipe) \in Nat
  BY LenProperties DEF TypeOK
<1> HIDE DEF h
<1>4. /\ Len(pipe') = Len(pipe) + 1 /\ pipe'[Len(pipe) + 1] = h
      /\ \A i \in 1..Len(pipe) : pipe'[i] = pipe[i]
      /\ pipe' # <<>>
  <2>1. pipe \in Seq(Halves)
    BY DEF TypeOK
  <2>2. /\ Len(pipe') = Len(pipe) + 1 /\ pipe'[Len(pipe) + 1] = h
        /\ \A i \in 1..Len(pipe) : pipe'[i] = pipe[i]
    BY <1>1, <1>2, <2>1, AppendProperties
  <2> QED
    BY <1>3, <2>2
<1>5. Last' = h
  BY <1>4 DEF Last
<1>6. ASSUME Follows(h, Last), Linked
      PROVE  Linked'
  <2>1. Follows(pipe'[1], got')
    <3>1. CASE pipe = <<>>
      BY <1>2, <1>4, <1>6, <3>1 DEF Last
    <3>2. CASE pipe # <<>>
      <4>1. Len(pipe) # 0
        BY <3>2, EmptySeq DEF TypeOK
      <4>2. pipe'[1] = pipe[1]
        BY <1>3, <1>4, <4>1
      <4> QED
        BY <1>2, <1>6, <3>2, <4>2 DEF Linked
    <3> QED
      BY <3>1, <3>2
  <2>2. ASSUME NEW i \in 1..Len(pipe') - 1
        PROVE  Follows(pipe'[i + 1], pipe'[i])
    <3>1. CASE i = Len(pipe)
      <4>1. pipe # <<>> /\ pipe'[i] = pipe[i] /\ pipe'[i + 1] = h
        BY <1>3, <1>4, <2>2, <3>1
      <4> QED
        BY <1>6, <3>1, <4>1 DEF Last
    <3>2. CASE i # Len(pipe)
      <4>1. i \in 1..Len(pipe) - 1 /\ i \in 1..Len(pipe) /\ i + 1 \in 1..Len(pipe)
        BY <1>3, <1>4, <2>2, <3>2
      <4>2. pipe'[i] = pipe[i] /\ pipe'[i + 1] = pipe[i + 1]
        BY <1>4, <4>1
      <4> QED
        BY <1>6, <4>1, <4>2 DEF Linked
    <3> QED
      BY <3>1, <3>2
  <2> QED
    BY <2>1, <2>2 DEF Linked
<1> QED
  BY <1>5, <1>6 DEF h

LEMMA LastRead ==
    ASSUME TypeOK, Encode
    PROVE  Last' = Last /\ (Linked => Linked')
<1>1. pipe # <<>> /\ pipe' = Tail(pipe) /\ got' = Head(pipe) /\ pipe \in Seq(Halves)
  BY DEF Encode, TypeOK
<1>2. /\ Len(pipe) \in Nat \ {0} /\ Len(pipe') = Len(pipe) - 1 /\ pipe' \in Seq(Halves)
      /\ got' = pipe[1]
  BY <1>1, RangeOfTail
<1>3. \A i \in 1..Len(pipe) - 1 : pipe'[i] = pipe[i + 1]
  BY <1>1, <1>2, HeadTailProperties
<1>4. Last' = Last
  <2>1. CASE Len(pipe) = 1
    <3>1. pipe' = <<>>
      BY <1>2, <2>1, EmptySeq
    <3> QED
      BY <1>1, <1>2, <2>1, <3>1 DEF Last
  <2>2. CASE Len(pipe) # 1
    <3>1. /\ Len(pipe) - 1 \in 1..Len(pipe) - 1 /\ Len(pipe') # 0
          /\ (Len(pipe) - 1) + 1 = Len(pipe)
      BY <1>2, <2>2
    <3>2. pipe'[Len(pipe')] = pipe[Len(pipe)]
      BY <1>2, <1>3, <3>1
    <3>3. pipe' # <<>>
      BY <1>2, <3>1, EmptySeq
    <3> QED
      BY <1>1, <3>2, <3>3 DEF Last
  <2> QED
    BY <2>1, <2>2
<1>5. ASSUME Linked
      PROVE  Linked'
  <2>1. pipe' # <<>> => Follows(pipe'[1], got')
    <3> SUFFICES ASSUME pipe' # <<>>
                 PROVE  Follows(pipe'[1], got')
      OBVIOUS
    <3>1. Len(pipe') # 0
      BY <1>2, EmptySeq
    <3>2. 1 \in 1..Len(pipe) - 1
      BY <1>2, <3>1
    <3>3. pipe'[1] = pipe[1 + 1] /\ Follows(pipe[1 + 1], pipe[1])
      BY <1>3, <1>5, <3>2 DEF Linked
    <3> QED
      BY <1>2, <3>3
  <2>2. ASSUME NEW i \in 1..Len(pipe') - 1
        PROVE  Follows(pipe'[i + 1], pipe'[i])
    <3>1. i \in 1..Len(pipe) - 1 /\ i + 1 \in 1..Len(pipe) - 1
      BY <1>2, <2>2
    <3>2. pipe'[i] = pipe[i + 1] /\ pipe'[i + 1] = pipe[(i + 1) + 1]
      BY <1>3, <3>1
    <3>3. Follows(pipe[(i + 1) + 1], pipe[i + 1])
      BY <1>5, <3>1 DEF Linked
    <3> QED
      BY <3>2, <3>3
  <2> QED
    BY <2>1, <2>2 DEF Linked
<1> QED
  BY <1>4, <1>5

\* Whoever else touches the pipe empties it: the kernel, when a process ends, and
\* the shell, when it makes a new one.
LEMMA PipeElsewhere ==
    ASSUME TypeOK, [Next]_vars
    PROVE  \/ UNCHANGED <<pipe, got, encoder>>
           \/ pipe' = <<>> /\ got' = Nothing /\ (Launch \/ encoder' = FALSE)
           \/ Encode \/ (ProcessImage /\ encoder)
<1>1. CASE Capture \/ DeviceFails
  BY <1>1 DEF Capture, OpenDevice, InitDevice, StartCapturing, Dequeue, SelectTimeout,
     ProcessImage, Requeue, StopCapturing, CloseDevice, DeviceFails, Exit, Outside, encoderVars
<1>2. CASE Launch \/ Kill \/ EncoderEnds
  BY <1>2 DEF Launch, Kill, EncoderEnds
<1>3. CASE \E d \in Shots : Open(d) \/ Relay(d) \/ WriteAfterEnd(d)
  BY <1>3 DEF Open, Relay, WriteAfterEnd, Arrives, encoderVars
<1>4. CASE Shoot \/ Encode \/ Lose \/ SocketError \/ RelayDies \/ RelayStarts \/ UNCHANGED vars
  BY <1>4 DEF Shoot, Lose, SocketError, RelayDies, RelayStarts, vars, encoderVars
<1> QED
  BY <1>1, <1>2, <1>3, <1>4 DEF Next

LEMMA LastKept ==
    ASSUME TypeOK, [Next]_vars, ~(ProcessImage /\ encoder)
    PROVE  \/ Last' = Last /\ (Linked => Linked')
           \/ Last' = Nothing /\ Linked' /\ (Launch \/ encoder' = FALSE)
<1>1. CASE UNCHANGED <<pipe, got>>
  BY <1>1 DEF Last, Linked
<1>2. CASE pipe' = <<>> /\ got' = Nothing /\ (Launch \/ encoder' = FALSE)
  <2>1. Last' = Nothing
    BY <1>2 DEF Last
  <2>2. Linked'
    BY <1>2 DEF Linked
  <2> QED
    BY <1>2, <2>1, <2>2
<1> QED
  BY <1>1, <1>2, PipeElsewhere, LastRead

\* Only Stream_turnOn starts ffmpeg, and capture with it.
LEMMA Beginnings ==
    ASSUME [Next]_vars
    PROVE  /\ encoder' => encoder \/ Launch
           /\ step' \in {"open", "init", "start"} => step \in {"open", "init", "start"} \/ Launch
<1>1. CASE Capture
  BY <1>1 DEF Capture, OpenDevice, InitDevice, StartCapturing, Dequeue, SelectTimeout,
     ProcessImage, Requeue, StopCapturing, CloseDevice, Exit, Gone, Goto, Outside, encoderVars
<1>2. CASE DeviceFails \/ Kill \/ EncoderEnds
  BY <1>2 DEF DeviceFails, Kill, EncoderEnds, Exit, Gone, Outside, encoderVars, captureVars
<1>3. CASE \E d \in Shots : Open(d) \/ Relay(d) \/ WriteAfterEnd(d)
  BY <1>3 DEF Open, Relay, WriteAfterEnd, Arrives, encoderVars, captureVars
<1>4. CASE Shoot \/ Encode \/ Lose \/ SocketError \/ RelayDies \/ RelayStarts \/ UNCHANGED vars
  BY <1>4 DEF Shoot, Encode, Lose, SocketError, RelayDies, RelayStarts, vars, encoderVars,
     captureVars
<1> QED
  BY <1>1, <1>2, <1>3, <1>4 DEF Next

LEMMA ShotGrows ==
    ASSUME TypeOK, [Next]_vars
    PROVE  /\ shot \in Nat /\ shot' \in Nat
           /\ shot' = shot \/ (shot' = shot + 1 /\ Shoot)
<1>1. shot \in Nat
  BY VideoAssumption DEF TypeOK, Shots
<1>2. shot' = shot \/ (shot' = shot + 1 /\ Shoot)
  <2>1. CASE Capture \/ DeviceFails
    BY <2>1 DEF Capture, OpenDevice, InitDevice, StartCapturing, Dequeue, SelectTimeout,
       ProcessImage, Requeue, StopCapturing, CloseDevice, DeviceFails, Exit, Outside
  <2>2. CASE \E d \in Shots : Open(d) \/ Relay(d) \/ WriteAfterEnd(d)
    BY <2>2 DEF Open, Relay, WriteAfterEnd, Arrives
  <2>3. CASE \/ Launch \/ Kill \/ Shoot \/ Encode \/ EncoderEnds \/ Lose \/ SocketError
             \/ RelayDies \/ RelayStarts \/ UNCHANGED vars
    BY <2>3 DEF Launch, Kill, Shoot, Encode, EncoderEnds, Lose, SocketError, RelayDies,
       RelayStarts, vars
  <2> QED
    BY <2>1, <2>2, <2>3 DEF Next
<1> QED
  BY <1>1, <1>2

\* What the filled buffers and capture's own hold are numbers of pictures.
LEMMA PicturesTyped ==
    ASSUME TypeOK, PlaceInv
    PROVE  /\ step \in {"write", "requeue"} => image[held] \in Nat
           /\ \A i \in DOMAIN filled : filled[i] \in buffers /\ image[filled[i]] \in Nat
           /\ DOMAIN filled = 1..Len(filled) /\ Len(filled) \in Nat
<1>1. DOMAIN filled = 1..Len(filled) /\ Len(filled) \in Nat
  BY LenProperties DEF TypeOK
<1>2. \A i \in DOMAIN filled : filled[i] \in buffers
  BY <1>1, ElementOfSeq DEF TypeOK
<1>3. \A b \in Indices : image[b] \in Nat
  BY VideoAssumption DEF TypeOK, Shots
<1> QED
  BY <1>1, <1>2, <1>3 DEF TypeOK, PlaceInv

\* Taking the first of the filled buffers moves the others up.
LEMMA DequeuedFirst ==
    ASSUME TypeOK, Dequeue
    PROVE  /\ 1 \in DOMAIN filled /\ held' = filled[1] /\ image' = image
           /\ \A i \in DOMAIN filled' : i \in Nat \ {0} /\ i + 1 \in DOMAIN filled
                                        /\ filled'[i] = filled[i + 1]
<1>1. filled # <<>> /\ held' = Head(filled) /\ filled' = Tail(filled) /\ image' = image
  BY DEF Dequeue
<1>2. filled \in Seq(buffers)
  BY DEF TypeOK
<1>3. /\ Len(filled') = Len(filled) - 1 /\ Len(filled) \in Nat \ {0}
      /\ held' = filled[1] /\ filled' \in Seq(buffers)
  BY <1>1, <1>2, RangeOfTail
<1>4. \A i \in 1..Len(filled') : filled'[i] = filled[i + 1]
  BY <1>1, <1>2, HeadTailProperties
<1>5. DOMAIN filled' = 1..Len(filled') /\ DOMAIN filled = 1..Len(filled)
  BY <1>2, <1>3, LenProperties
<1>6. \A i \in 1..Len(filled') : i \in Nat \ {0} /\ i + 1 \in 1..Len(filled)
  BY <1>3
<1>7. 1 \in 1..Len(filled)
  BY <1>3
<1> QED
  BY <1>1, <1>3, <1>4, <1>5, <1>6, <1>7

\* A picture goes into the last of them and changes none of the others.
LEMMA ShotLast ==
    ASSUME TypeOK, PlaceInv, KeptInv, Shoot, incoming # <<>>
    PROVE  /\ \A i \in DOMAIN filled' :
                \/ i \in DOMAIN filled /\ image'[filled'[i]] = image[filled[i]]
                \/ i = Len(filled) + 1 /\ image'[filled'[i]] = shot'
           /\ step \in {"write", "requeue"} => image'[held] = image[held]
<1>1. /\ image' = [image EXCEPT ![Head(incoming)] = shot']
      /\ filled' = Append(filled, Head(incoming))
  BY DEF Shoot
<1>2. Head(incoming) \in buffers /\ buffers \subseteq Indices /\ image \in [Indices -> Shots]
  BY RangeOfTail DEF TypeOK
<1>3. /\ filled' \in Seq(buffers) /\ Len(filled') = Len(filled) + 1
      /\ \A i \in 1..Len(filled) : filled'[i] = filled[i]
      /\ filled'[Len(filled) + 1] = Head(incoming)
  BY <1>1, <1>2, AppendProperties DEF TypeOK
<1>4. Len(filled) \in Nat /\ DOMAIN filled = 1..Len(filled) /\ DOMAIN filled' = 1..Len(filled')
  BY <1>3, PicturesTyped, LenProperties
<1>5. /\ image'[Head(incoming)] = shot'
      /\ \A b \in Indices : b # Head(incoming) => image'[b] = image[b]
  BY <1>1, <1>2
<1>6. ASSUME NEW i \in DOMAIN filled'
      PROVE  \/ i \in DOMAIN filled /\ image'[filled'[i]] = image[filled[i]]
             \/ i = Len(filled) + 1 /\ image'[filled'[i]] = shot'
  <2>1. i \in 1..Len(filled) \/ i = Len(filled) + 1
    BY <1>3, <1>4, <1>6
  <2>2. CASE i = Len(filled) + 1
    BY <1>3, <1>5, <2>2
  <2>3. CASE i \in 1..Len(filled)
    <3>1. filled'[i] = filled[i] /\ i \in DOMAIN filled
      BY <1>3, <1>4, <2>3
    <3>2. filled[i] # Head(incoming) /\ filled[i] \in Indices
      BY <1>2, <3>1, FilledIsFree, PicturesTyped DEF Range
    <3> QED
      BY <1>5, <3>1, <3>2
  <2> QED
    BY <2>1, <2>2, <2>3
<1>7. step \in {"write", "requeue"} => image'[held] = image[held]
  BY <1>2, <1>5, FilledIsFree DEF TypeOK, PlaceInv
<1> QED
  BY <1>6, <1>7

\* The order of the pictures, kept by each step of capture and of the driver.
LEMMA ShotsKept ==
    ASSUME TypeOK, PlaceInv, KeptInv, ShotsInv, [Next]_vars
    PROVE  ShotsInv'
<1> USE PicturesTyped, ShotGrows
<1>1. Last'[1] <= shot'
  <2>1. CASE ProcessImage /\ encoder
    <3>1. Last' = <<image[held], half>> /\ step = "write"
      BY <2>1, LastWritten DEF ProcessImage
    <3>2. image[held] <= shot
      BY <3>1 DEF ShotsInv
    <3>3. Last'[1] = image[held] /\ image[held] \in Nat
      BY <3>1
    <3> QED
      BY <3>2, <3>3
  <2>2. CASE ~(ProcessImage /\ encoder)
    <3>1. Last' = Last \/ Last' = Nothing
      BY <2>2, LastKept
    <3>2. Last[1] \in Nat /\ Nothing[1] = 0
      BY LastTyped DEF Nothing
    <3> QED
      BY <3>1, <3>2 DEF ShotsInv
  <2> QED
    BY <2>1, <2>2
<1>2. CASE step' \notin {"select", "write", "requeue"}
  BY <1>1, <1>2 DEF ShotsInv
<1>3. CASE UNCHANGED <<step, buffers, held, half, incoming, filled, image>>
  BY <1>1, <1>3 DEF ShotsInv
<1>4. CASE StartCapturing
  <2>1. step = "start" /\ step' = "select" /\ filled' = filled
    BY <1>4 DEF StartCapturing, Goto
  <2>2. filled' = <<>>
    BY <2>1 DEF PlaceInv
  <2>3. DOMAIN filled' = {}
    BY <2>2
  <2> QED
    BY <1>1, <2>1, <2>3 DEF ShotsInv
<1>5. CASE Dequeue
  <2>1. step = "select" /\ step' = "write"
    BY <1>5 DEF Dequeue, Goto
  <2>2. /\ 1 \in DOMAIN filled /\ held' = filled[1] /\ image' = image
        /\ \A i \in DOMAIN filled' : /\ i \in Nat \ {0} /\ i + 1 \in DOMAIN filled
                                     /\ filled'[i] = filled[i + 1]
    BY <1>5, DequeuedFirst
  <2>3. image'[held'] <= shot'
    BY <2>1, <2>2 DEF ShotsInv
  <2>4. ASSUME NEW i \in DOMAIN filled'
        PROVE  image'[filled'[i]] <= shot' /\ image'[held'] < image'[filled'[i]]
    <3>1. 1 < i + 1 /\ i + 1 \in DOMAIN filled
      BY <2>2
    <3> QED
      BY <2>1, <2>2, <3>1 DEF ShotsInv
  <2>5. ASSUME NEW i \in DOMAIN filled', NEW j \in DOMAIN filled', i < j
        PROVE  image'[filled'[i]] < image'[filled'[j]]
    <3>1. i + 1 < j + 1 /\ i + 1 \in DOMAIN filled /\ j + 1 \in DOMAIN filled
      BY <2>2, <2>5
    <3> QED
      BY <2>1, <2>2, <3>1 DEF ShotsInv
  <2> QED
    BY <1>1, <2>3, <2>4, <2>5 DEF ShotsInv
<1>6. CASE ProcessImage /\ encoder
  <2>1. step = "write" /\ UNCHANGED <<held, filled, image, shot>>
    BY <1>6 DEF ProcessImage, driverVars
  <2> QED
    BY <1>1, <2>1 DEF ShotsInv
<1>7. CASE Requeue
  <2>1. /\ step = "requeue" /\ step' \in {"select", "stop"}
        /\ UNCHANGED <<held, filled, image, shot>>
    BY <1>7 DEF Requeue, Goto, Outside
  <2> QED
    BY <1>1, <2>1 DEF ShotsInv
<1>8. CASE Shoot
  <2>1. step' = step /\ held' = held /\ shot' = shot + 1 /\ step \in {"select", "write", "requeue"}
    BY <1>8 DEF Shoot, captureVars
  <2>2. CASE incoming = <<>>
    <3>1. filled' = filled /\ image' = image
      BY <1>8, <2>2 DEF Shoot, driverVars
    <3> QED
      BY <1>1, <2>1, <3>1 DEF ShotsInv
  <2>3. CASE incoming # <<>>
    <3>1. /\ \A i \in DOMAIN filled' :
                \/ i \in DOMAIN filled /\ image'[filled'[i]] = image[filled[i]]
                \/ i = Len(filled) + 1 /\ image'[filled'[i]] = shot'
          /\ step \in {"write", "requeue"} => image'[held] = image[held]
      BY <1>8, <2>3, ShotLast
    <3>2. ASSUME NEW i \in DOMAIN filled'
          PROVE  image'[filled'[i]] <= shot'
      BY <2>1, <3>1, <3>2 DEF ShotsInv
    <3>3. ASSUME NEW i \in DOMAIN filled', NEW j \in DOMAIN filled', i < j
          PROVE  image'[filled'[i]] < image'[filled'[j]]
      <4>1. i \in 1..Len(filled) + 1 /\ j \in 1..Len(filled) + 1
        BY <3>1
      <4>2. CASE j = Len(filled) + 1
        <5>1. i \in DOMAIN filled /\ image'[filled'[i]] = image[filled[i]]
          BY <3>1, <3>3, <4>1, <4>2
        <5>2. image'[filled'[j]] = shot'
          BY <3>1, <4>2
        <5> QED
          BY <2>1, <5>1, <5>2 DEF ShotsInv
      <4>3. CASE j # Len(filled) + 1
        <5>1. /\ i \in DOMAIN filled /\ image'[filled'[i]] = image[filled[i]]
              /\ j \in DOMAIN filled /\ image'[filled'[j]] = image[filled[j]]
          BY <3>1, <3>3, <4>1, <4>3
        <5> QED
          BY <2>1, <3>3, <5>1 DEF ShotsInv
      <4> QED
        BY <4>2, <4>3
    <3>4. ASSUME step \in {"write", "requeue"}
          PROVE  /\ image'[held'] <= shot'
                 /\ \A i \in DOMAIN filled' : image'[held'] < image'[filled'[i]]
      <4>1. image'[held'] = image[held] /\ image[held] <= shot /\ image[held] \in Nat
        BY <2>1, <3>1, <3>4 DEF ShotsInv
      <4>2. ASSUME NEW i \in DOMAIN filled'
            PROVE  image[held] < image'[filled'[i]]
        BY <2>1, <3>1, <3>4, <4>1 DEF ShotsInv
      <4> QED
        BY <2>1, <4>1, <4>2
    <3> QED
      BY <1>1, <2>1, <3>2, <3>3, <3>4 DEF ShotsInv
  <2> QED
    BY <2>2, <2>3
<1> QED
  BY <1>2, <1>3, <1>4, <1>5, <1>6, <1>7, <1>8, CaptureElsewhere

\* A half is written when the one before it was the half it goes with.
LEMMA WriteKept ==
    ASSUME TypeOK, PlaceInv, KeptInv, ShotsInv, WriteInv, Linked, [Next]_vars
    PROVE  WriteInv' /\ Linked'
<1> USE PicturesTyped, ShotGrows
<1>1. CASE ProcessImage /\ encoder
  <2>1. /\ step = "write" /\ half \in {1, 2}
        /\ half = 1 => half' = 2 /\ step' = "write"
        /\ half = 2 => half' = 1 /\ step' = "requeue"
        /\ UNCHANGED <<held, filled, image>>
    BY <1>1 DEF ProcessImage, Goto, driverVars, TypeOK
  <2>2. Last' = <<image[held], half>> /\ Last'[1] = image[held] /\ Last'[2] = half
    BY <1>1, LastWritten
  <2>3. Follows(<<image[held], half>>, Last)
    BY <1>1, <2>1, LastTyped DEF WriteInv, Follows
  <2>4. Linked'
    BY <1>1, <2>3, LastWritten
  <2>5. \A i \in DOMAIN filled : image[held] < image[filled[i]]
    BY <2>1 DEF ShotsInv
  <2>6. CASE half = 1
    BY <2>1, <2>2, <2>4, <2>6 DEF WriteInv
  <2>7. CASE half = 2
    BY <2>1, <2>2, <2>4, <2>5, <2>7 DEF WriteInv
  <2> QED
    BY <2>1, <2>6, <2>7
<1>2. CASE Launch
  <2>1. step' = "open" /\ Last' = Nothing /\ Linked'
    BY <1>2 DEF Launch, Last, Linked
  <2> QED
    BY <2>1 DEF WriteInv
<1>3. CASE ~encoder' /\ ~(ProcessImage /\ encoder)
  BY <1>3, LastKept DEF WriteInv
<1>4. CASE encoder' /\ ~Launch /\ ~(ProcessImage /\ encoder)
  <2>1. encoder /\ Last' = Last /\ Linked'
    BY <1>4, Beginnings, LastKept
  <2>2. CASE step' \notin {"select", "write", "requeue"}
    BY <1>4, <2>1, <2>2, Beginnings DEF WriteInv
  <2>3. CASE UNCHANGED <<step, buffers, held, half, incoming, filled, image>>
    BY <2>1, <2>3 DEF WriteInv
  <2>4. CASE StartCapturing
    <3>1. step = "start" /\ step' = "select" /\ filled' = <<>>
      BY <2>4 DEF StartCapturing, Goto, PlaceInv
    <3>2. Last' = Nothing
      BY <2>1, <3>1 DEF WriteInv
    <3> QED
      BY <2>1, <3>1, <3>2 DEF WriteInv, Nothing
  <2>5. CASE Dequeue
    <3>1. step = "select" /\ step' = "write" /\ half' = 1
      BY <2>5 DEF Dequeue, Goto
    <3>2. 1 \in DOMAIN filled /\ held' = filled[1] /\ image' = image
      BY <2>5, DequeuedFirst
    <3> QED
      BY <2>1, <3>1, <3>2 DEF WriteInv
  <2>6. CASE Requeue
    <3>1. /\ step = "requeue" /\ step' \in {"select", "stop"}
          /\ UNCHANGED <<held, half, filled, image>>
      BY <2>6 DEF Requeue, Goto
    <3> QED
      BY <2>1, <3>1 DEF WriteInv
  <2>7. CASE Shoot
    <3>1. UNCHANGED <<step, held, half>> /\ shot' = shot + 1
          /\ step \in {"select", "write", "requeue"}
      BY <2>7 DEF Shoot, captureVars
    <3>2. CASE incoming = <<>>
      <4>1. filled' = filled /\ image' = image
        BY <2>7, <3>2 DEF Shoot, driverVars
      <4> QED
        BY <2>1, <3>1, <4>1 DEF WriteInv
    <3>3. CASE incoming # <<>>
      <4>1. /\ \A i \in DOMAIN filled' :
                \/ i \in DOMAIN filled /\ image'[filled'[i]] = image[filled[i]]
                \/ i = Len(filled) + 1 /\ image'[filled'[i]] = shot'
            /\ step \in {"write", "requeue"} => image'[held] = image[held]
        BY <2>7, <3>3, ShotLast
      <4>2. CASE step = "write"
        BY <2>1, <3>1, <4>1, <4>2 DEF WriteInv
      <4>3. CASE step \in {"select", "requeue"}
        <5>1. Last[1] \in Nat /\ Last[1] <= shot
          BY LastTyped DEF ShotsInv
        <5>2. ASSUME NEW i \in DOMAIN filled'
              PROVE  Last[1] < image'[filled'[i]]
          BY <2>1, <3>1, <4>1, <4>3, <5>1 DEF WriteInv
        <5> QED
          BY <2>1, <3>1, <4>3, <5>2 DEF WriteInv
      <4> QED
        BY <3>1, <4>2, <4>3
    <3> QED
      BY <3>2, <3>3
  <2> QED
    BY <1>4, <2>1, <2>2, <2>3, <2>4, <2>5, <2>6, <2>7, CaptureElsewhere
<1> QED
  BY <1>1, <1>2, <1>3, <1>4

LEMMA LinkedIsOrdered ==
    ASSUME TypeOK, Linked
    PROVE  WholeFramesInOrder
<1> SUFFICES ASSUME NEW i \in 1..Len(<<got>> \o pipe) - 1
             PROVE  Follows((<<got>> \o pipe)[i + 1], (<<got>> \o pipe)[i])
  BY DEF WholeFramesInOrder
<1>1. <<got>> \in Seq(Halves) /\ pipe \in Seq(Halves) /\ Len(<<got>>) = 1 /\ <<got>>[1] = got
  BY DEF TypeOK
<1>2. Len(pipe) \in Nat
  BY <1>1, LenProperties
<1>3. /\ Len(<<got>> \o pipe) = 1 + Len(pipe)
      /\ \A k \in 1..1 + Len(pipe) :
            (<<got>> \o pipe)[k] = IF k <= 1 THEN <<got>>[k] ELSE pipe[k - 1]
  BY <1>1, ConcatProperties
<1>4. i \in 1..1 + Len(pipe) /\ i + 1 \in 1..1 + Len(pipe) /\ i \in Nat \ {0} /\ ~(i + 1 <= 1)
  BY <1>2, <1>3
<1>5. (<<got>> \o pipe)[i + 1] = pipe[i]
  <2>1. (i + 1) - 1 = i
    BY <1>4
  <2> QED
    BY <1>3, <1>4, <2>1
<1>6. CASE i = 1
  <2>1. (<<got>> \o pipe)[i] = got
    BY <1>1, <1>3, <1>4, <1>6
  <2>2. pipe # <<>>
    BY <1>2, <1>4, <1>6
  <2> QED
    BY <1>5, <1>6, <2>1, <2>2 DEF Linked
<1>7. CASE i # 1
  <2>1. i - 1 \in 1..Len(pipe) - 1 /\ (i - 1) + 1 = i /\ ~(i <= 1)
    BY <1>2, <1>4, <1>7
  <2>2. (<<got>> \o pipe)[i] = pipe[i - 1]
    BY <1>3, <1>4, <2>1
  <2> QED
    BY <1>5, <2>1, <2>2 DEF Linked
<1> QED
  BY <1>6, <1>7

\* What ffmpeg reads from the pipe are whole pictures, both halves of the same shot,
\* in the order they were taken (capture.c: process_image writes a buffer in full
\* before read_frame queues it again), however many buffers and whatever ends either.
THEOREM PicturesStayWhole == Spec => []WholeFramesInOrder
<1>1. Init => KeptInv /\ ShotsInv /\ WriteInv /\ Linked
  <2> SUFFICES ASSUME Init
               PROVE  KeptInv /\ ShotsInv /\ WriteInv /\ Linked
    OBVIOUS
  <2>1. step = "off" /\ encoder = FALSE /\ pipe = <<>> /\ Last = <<0, 2>> /\ shot = 0
    BY DEF Init, Last, Nothing
  <2>2. Len(pipe) = 0
    BY <2>1
  <2> QED
    BY <2>1, <2>2 DEF KeptInv, ShotsInv, WriteInv, Linked
<1>2. TypeOK /\ PlaceInv /\ KeptInv /\ ShotsInv /\ WriteInv /\ Linked /\ [Next]_vars
        => TypeOK' /\ PlaceInv' /\ KeptInv' /\ ShotsInv' /\ WriteInv' /\ Linked'
  BY TypesKept, KeptKept, ShotsKept, WriteKept
<1>3. TypeOK /\ Linked => WholeFramesInOrder
  BY LinkedIsOrdered
<1> QED
  BY <1>1, <1>2, <1>3, StartsTyped, PTL DEF Spec

----------------------------------------------------------------------------
(* The recording *)

RecordingInv ==
    /\ fileStream = "none" => relayed = <<>>
    /\ fileStream # "none" => relayed # <<>> /\ recording = Tail(relayed)

\* The recording of this run of the relay is what the pages saw, but for the datagram
\* that opened it (udp_server.js: the first message creates the stream and is not
\* written to it), whatever is lost, repeated or overtaken, and whoever dies.
THEOREM RecordingIsFaithful == Spec => []RecordingIsRelayed
<1>1. Init => RecordingInv
  BY DEF Init, RecordingInv
<1>2. TypeOK /\ RecordingInv /\ [Next]_vars => RecordingInv'
  <2> SUFFICES ASSUME TypeOK, RecordingInv, [Next]_vars
               PROVE  RecordingInv'
    OBVIOUS
  <2>1. CASE UNCHANGED <<fileStream, recording, relayed>>
    BY <2>1 DEF RecordingInv
  <2>2. CASE RelayGone
    BY <2>2 DEF RelayGone, RecordingInv
  <2>3. CASE SocketError
    BY <2>3 DEF SocketError, RecordingInv
  <2>4. ASSUME NEW d \in Shots, Open(d)
        PROVE  RecordingInv'
    <3>1. relayed = <<>> /\ fileStream' = "open" /\ recording' = <<>>
          /\ relayed' = Append(relayed, d)
      BY <2>4 DEF Open, RecordingInv
    <3>2. relayed' = <<d>> /\ Tail(<<d>>) = <<>> /\ <<d>> # <<>>
      BY <3>1
    <3> QED
      BY <3>1, <3>2 DEF RecordingInv
  <2>5. ASSUME NEW d \in Shots, Relay(d)
        PROVE  RecordingInv'
    <3>1. /\ relayed # <<>> /\ recording = Tail(relayed) /\ fileStream' = "open"
          /\ recording' = Append(recording, d) /\ relayed' = Append(relayed, d)
      BY <2>5 DEF Relay, RecordingInv
    <3>2. relayed' # <<>> /\ Tail(Append(relayed, d)) = Append(Tail(relayed), d)
      BY <3>1, HeadTailAppend, AppendProperties DEF TypeOK
    <3> QED
      BY <3>1, <3>2 DEF RecordingInv
  <2>6. \/ UNCHANGED <<fileStream, recording, relayed>> \/ RelayGone \/ SocketError
        \/ \E d \in Shots : Open(d) \/ Relay(d)
    <3>1. CASE Launch \/ Capture \/ DeviceFails \/ Kill
      BY <3>1 DEF Launch, Capture, OpenDevice, InitDevice, StartCapturing, Dequeue,
         SelectTimeout, ProcessImage, Requeue, StopCapturing, CloseDevice, DeviceFails, Kill,
         Exit, Outside, relayVars
    <3>2. CASE \E d \in Shots : Open(d) \/ Relay(d) \/ WriteAfterEnd(d)
      BY <3>2 DEF WriteAfterEnd
    <3>3. CASE \/ Shoot \/ Encode \/ EncoderEnds \/ Lose \/ SocketError \/ RelayDies
               \/ RelayStarts \/ UNCHANGED vars
      BY <3>3 DEF Shoot, Encode, EncoderEnds, Lose, RelayDies, RelayStarts, vars, relayVars
    <3> QED
      BY <3>1, <3>2, <3>3 DEF Next
  <2> QED
    BY <2>1, <2>2, <2>3, <2>4, <2>5, <2>6
<1>3. RecordingInv => RecordingIsRelayed
  BY DEF RecordingInv, RecordingIsRelayed
<1> QED
  BY <1>1, <1>2, <1>3, TypeCorrect, PTL DEF Spec
=============================================================================

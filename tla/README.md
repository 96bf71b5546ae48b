# A verification project for the security sensor system

The system watches a room: a motion sensor, a danger level computed from its
detections, a buzzer, a camera on a second board, a menu with a joystick and a
pass pattern, a remote login over UDP with a second factor on an LED display,
and a web relay. These TLA+ modules model its C code, TLC checks them on small
instances, and TLAPS proves what matters most for every instance.

    tlc -workers 2 -config CameraSequential.cfg MCCameraLink
    tlapm CameraLinkProofs.tla

| Module | Component | Composes or refines |
|---|---|---|
| CameraSwitch | what the camera client promises | |
| CameraLink | camera client, camera server, stream | implements CameraSwitch |
| MotionWatch | motion sensor, its two pollers, stream controller | |
| DangerAnalyzer | danger analyzer, circular buffer, buzzer | |
| Menu | menu, password input, joystick | |
| RemoteAccess | what remote access promises | |
| RemoteSession | remote login clients, response handler, second factor, password manager | implements RemoteAccess |
| Lifecycle | controller, start and end of every module, settings and password files | |
| VideoPath | capture, the pipe, the relay server | |
| *Proofs | the theorems about the module of that name | |
| MC* | instances of the module of that name for TLC | |

`PROJECT.json` names, for every definition, the lines of the source it models;
for every run its properties; for every property a plausible slip of the code
(the definitions commented "Slip:") under which TLC finds it violated; and the
list of hazards the properties are for.

## 1. Inventory

Two boards and a PC. The main program (`Controller`) starts one thread per
component on the first board and then runs the remote session on its main
thread; the camera server is a program of its own on the second board; the
relay is a Node server on the PC.

| Component | State it keeps | Operations | Talks to | Hard behaviour | What makes it correct |
|---|---|---|---|---|---|
| Camera client, `Ethernet/Client` | `isCameraOn` (mutex per access), one UDP socket with a one second receive timeout | `Camera_toggle/turnOn/turnOff/isLive/cleanup` | camera server; called by the main, menu and stream threads | check-then-act across a network call; answers name no request; loss, delay, restart | flag and server agree; at most one stream; every call returns |
| Camera server, `Ethernet/Server` | answer buffer kept between requests | `camera:on`, `camera:off`, `sys:stop` | Stream | last answer sent again on stop; dies when `popen` fails | answers each request once |
| Stream, `WebCam/Stream/Stream.c` | `isActive`, 10 s timer, `streamingPid` | `Stream_turnOn/turnOff` | shell pipelines, which share one device and may end | refuses while starting; processes never reaped; nobody learns that a pipeline ended | a pipeline that runs is the one it can kill |
| Stream controller, `StreamController.c` | `isTriggered` (mutex), its thread's `isLive` and timer | `setAuto`, `toggle`, thread | motion sensor, camera client | second consumer of detections | a session begins on motion and ends |
| Motion sensor | `isActive` (mutex), `inDetectState` and `timer` (no mutex) | `getState`, `toggle` | two pollers | data race in the debounce | each pulse counts once |
| Danger analyzer + circular buffer | level (mutex), history, trigger count | thread, `resetDangerLevel`, getters | sensor, settings, buzzer, http | three critical sections per cycle; wrap of the buffer; a post without a timeout | level in range; alarm follows level; history counts |
| Buzzer | `isActive` | `alarm`, `stopAlarm`, `cleanup` | PWM files | last write wins at shutdown | silent in the end |
| Menu + password input + joystick | menu and sub-menu, selection, option lists, input sequence, logout timer | `Menu_start/stop`, one handler per view | nearly all others | acts on what was drawn earlier; timeouts of login and session | only a logged-in user reaches admin actions; what is done is what was shown |
| Password manager, settings | password, pattern, settings (mutex each) | check, change; get, set; load and save | files | saved only at the end, over a file emptied first; a pattern too long is cut and keeps its length | what was set is what is used and survives an orderly restart |
| Response handler | nothing about anyone; the sender of the request in hand; `errno` | ping, login, second factor, identity, password, pattern, toggle, settings, stop | nearly all others, from the main thread | trusts the client for who is logged in; blocks in a camera call; numbers refused after one overflow | what it changes, it changes for those who have proved the right to |
| Remote login client | `isLoggedIn`, place in a dialogue, exit code; one UDP socket with a ten second timeout | one process per ssh session: the commands, the dialogues of login and of both changes, leaving | response handler | answers name no request; the exit code of every way out decides about the host's shell; signals other than SIGINT end it | an answer belongs to its request; no shell for who is not logged in; no endless wait |
| LED second factor, `LEDMFA` | code (mutex), 30 s timer | `Mfa_start/stop/isValid`, thread | response handler, LEDs | changes while it is typed; shown before it counts | a login under the policy that asks for it has had a right code |
| Controller | the order of starts and stops | `Controller_start/stop` around `ResponseHandler_start` | all | threads in calls while others are cleaned up; five joins; crash | used while up; the stop ends; saved last and alone |
| Capture, `WebCam/Capture` | device, shared buffers, frame count | `main` in six stages, `read_frame`, exits on any error | driver, ffmpeg | buffers shared with a driver; a pipe whose reader dies; a device that stops | each buffer in one place, whole pictures in order, the camera released |
| Relay server | `fileStream`, data points | udp message, close, error; http; sockets | ffmpeg, http post, web pages | first datagram, error after error, restart over the same file | the recording is what was relayed |
| Event logger, http post, LED display, timer, utilities | files, sockets, a deadline | | | I/O | |

`PROJECT.json` lists every component with what is and is not modelled, and 40
hazards at their lines.

## 2. What is modelled

### CameraSwitch, the abstract camera

What `ethernetClient.h` promises a caller that is alone with the camera: a call
asks for the opposite of what the caller believes, takes effect in one instant
(`Succeed` or `Refuse`), and returns what happened then. A switch may break,
at any moment (`Break`) or over turning off (`BreakTurningOff`), after which calls
fail and change nothing.

### CameraLink, the camera as it is built

The threads of the main program, the two directions of the datagram link, the
camera server and the stream. A call is split at its blocking points:

    Toggle | TurnOn | TurnOff   read isCameraOn, release the mutex
    Send                        sendto
    StartReceive                recvfrom: blocks, or fails on a closed socket
    Receive | Timeout           an answer, anyone's, or SO_RCVTIMEO
    Accept                      setCamera

The server handles one datagram to the end: `HandleOn` is `Stream_turnOn` with
its fork, `HandleOff` is `Stream_turnOff` with its refusal during start-up and
its kill, `HandleOffDies` is the crash in `killStream` when `popen` returns
NULL, by when `Stream_turnOff` has cleared its flag; `HandleStop` is `sys:stop`
with the left-over answer. `Cleanup` is `Camera_cleanup`.

A pipeline is a process of its own. `OpensDevice` is its capture getting the
camera, which only one at a time can; `FindsBusy` is the exit of any other
capture (`errno_exit`), and ffmpeg's with it; `Dies` is a pipeline that ends for
another reason. The server learns of neither: after a double start whichever
capture loses is gone, and it may be the one whose shell `streamingPid` names.

`LoseRequest`, `LoseAnswer`, `Restart` and `Dies` are what may go wrong, each
switched on by the constant `Faults`; with `"late"` a timeout may also come while
an answer is under way. `intact` is a history variable: since the program
started nothing was lost, and no wait ran out under a datagram.

Abstractions: the text of messages is the kind of the message; a shell and the
pipeline it runs are one process, and a kill takes effect at once; a call that finds nothing to do changes
nothing and is no step; a restart takes longer than the server needs for the
requests under way; the main thread makes no call after `Camera_cleanup`, as
`Controller_stop` does not.

### MotionWatch, one sensor and two pollers

`MotionSensor_getState` step by step for the danger analyzer and the stream
controller thread, whose writes to `inDetectState` and `timer` interleave: a
poll reads the line (`AnalyzerPoll`, `StreamPoll`), tests the flag and the timer
(`DecideToReport`, `DecideToRearm`, `ReportNothing`) and writes (`Report`,
`Rearm`). A timer read while the other thread writes it may give either answer.
`Follow` is the body of `streamListenerThread`, with a `Camera_turnOn` that
succeeds or fails; `StandDown` the same body while the camera is on manual.

A `Tick` is a fraction of a second. The analyzer goes from its poll into
`Http_post`, where it stays for any number of ticks, or for ever (`Posted` is under
no fairness), and then sleeps for `SleepTicks`; so its polls drift against the
pulses as the code's do, and nothing bounds the time between them. Within a
tick a poll is over, and the stream thread polls as often as it likes. `gap` and
`quiet` are history variables: how long ago the analyzer polled, and how long
the line was low before this pulse. They serve to state what the code's claim
needs (`Punctual`, `Spaced`).

### DangerAnalyzer, the level, its history and the alarm

`mainloop` in its critical sections: `Detect`/`DetectNothing` add a record,
`Compute`, `Store`, `ReadThreshold`, `Judge`, then `Posted`, the return of
`Http_post`, which is under no fairness; with `Reset` and `SetThreshold`
by users between any two of them, and `Stop` and `Cleanup` as `Controller_stop`
orders them. The circular buffer keeps its index arithmetic, also where it
leaves the array: an index below it reads any count. The two piecewise linear
curves that turn frequencies and times into a change of the level are replaced
by their bounds (`Gains`, `Drops`); the quirk that
`timeSinceLastDetectedInMs` alternates between an instant and an interval is kept
in `Flip`.

### Menu, the user at the device

`processUserInput` and `login` as one thread: what is pressed (`Up`, `Down`,
`LeftOrRight`, and one action for each thing the centre does), what time does
(`AutoLogout`, `LoginTimeout`), and `Exit` after `Menu_stop`.

    CenterLogin, Enter, Refuse, Admit     login over PasswordInput_sendNext
    CenterLogout                          the way out by hand
    Open                                  setView*: draws a sub-menu once
    Toggle, Set                           toggle*, setDangerThreshold, configure*
    ResetThreshold, ResetLevel            reset*
    Trigger, CallCamera, CameraReturns    toggleCamera around the network call
    Others                                the remote user, the stream controller
                                          and the danger analyzer

`menu` and `subMenu` are the two `stateInfo` records; there is one record for all
sub-menus, kept from one to the next, and the model keeps it too, because the
handlers index by what is left in it. Which of the shared values others change
is the constant `Shared`. `touched` is a history variable: others have acted
since the view was drawn.

Abstractions: each turn of the loop starts the inactivity timer anew, which is
one step with the turn before (`NextTurn`); a joystick held down is pressed
again; the danger level is raised or it is not; passwords are compared, not
spelled; the two views that show a number show any of `Readings`; the camera's
view reads trigger and camera in one instant; the camera client is one call that
succeeds or, unless it has nothing to do, is refused (`CameraLink` has the rest).

### RemoteAccess, the promise to remote users

What a session has proved so far (`session`: guest, half the way in, admin,
identity verified, code checked, gone to the host's shell) and what it may do
from there. The actions are named for what the user gets (`Enter`, `Admit`,
`Verify`, `Clear`, `ChangePassword`, `Configure`, `TakeHost`, ...); there are no
messages. A change asked for before the user left may still be made
(`ChangePassword` may end in "host"), a thing the code does because a datagram
outlives its sender.

### RemoteSession, clients, server and second factor

All the session there is lies in the client; the server answers one datagram at
a time and keeps nothing. A client's place `pc` is either waiting for the answer
to one kind of request, or for its user, or over:

    Connect                                main, sendPing
    Login, EnterCode                       login in its two halves
    ChangePassword, EnterPassword          changePassword
    ChangePattern, EnterCode, EnterPattern changeJoystickPattern
    Fumble                                 what is malformed or not confirmed
    Ask                                    askServer and the two resets
    StopSystem, AccessHost, Logout, Exit   the ends of execute
    LoggedIn, Answered, Timeout            recvFromServ and what follows on it

The server's handlers are actions of the same names as the functions; `Answer`
sends what they leave in the response and takes the request from the socket.
`toggle cam` is two steps around the camera call, so that others may act in
between. `Refresh` is the second factor's thread, `AtDevice` the menu. With
`"lose"` datagrams get lost in either direction; with `"late"` a client may give
up although its request is under way, which is then served nevertheless. With
`"kill"` a signal other than SIGINT, the only one `main` catches, ends a client
wherever it is (`Killed`), and what it has asked for is served too.

`errno` is `rangeError`: an overflowing number sets it, and a camera call that
fails on the way may overwrite it, because its `recv` leaves `EAGAIN`.

The refinement mapping `Session` reads a session off a client's place, its flag,
and the datagrams on their way (that of a killed client is "cut" once nothing
of it is left): a verdict counts from the moment the server
gives it, and a change asked for under it keeps it until it is made.

Abstractions: a password, pattern, code or number is a value; a password the
user repeats wrongly ends the dialogue by `Fumble`; what is only printed is
"text"; help, clear and the client's log commands change nothing that is modelled;
a datagram is not repeated, because client and server are processes of one board;
the second factor's thirty seconds are any time; what the camera does when it is
toggled is `CameraLink`, what a reset does to the level `DangerAnalyzer`.
A start of the server after a stop is in `Lifecycle`, not here.

### Lifecycle, start, service, stop and restart

`Program` is `main` as a list of steps: `StartUp` from `Controller_start`, then
`ResponseHandler_start`, then `ShutDown` from `Controller_stop`, each step an
operation on a module, thread or file. `at` is the main thread's place. While it
walks, the threads that run call the modules they use (`Uses`) and return from
them, perhaps having set something (`Sets`); each ends at the top of its loop
once told. `Open` empties a file, `Write` fills it, and a crash may come between
the two. `OpenFails` is the difference between `saveSettings`, which gives up, and
`Utilities_writeStringValueToFile`, which exits. `last` is a history variable.

Abstractions: the settings are one item, as one line of the file holds them all;
values are those that fit their buffers (a longer pattern is `RemoteSession`'s
`Unmatched`); init and cleanup functions with empty bodies are left out; the
camera server on the other board is not part of it.

### VideoPath, from the driver's buffers to the recording

`capture.c` with memory mapping, the only way `STREAM_COMMAND` uses: `OpenDevice`,
`InitDevice`, `StartCapturing`, the loop `Dequeue`, `ProcessImage`, `Requeue`, and
`StopCapturing`, `CloseDevice`; every exit on an error is `DeviceFails` or a branch
of the step. `Launch` and `Kill` are what `Stream.c` does to the pipeline. A
picture is the number of its shot in two halves, so that a buffer overwritten
while it is written would show. `Open`, `Relay`, `WriteAfterEnd` and
`SocketError` are the handlers of `udp_server.js`. The driver (`Shoot`), ffmpeg
(`Encode`, `EncoderEnds`) and the network (`Lose`, and order and repetition in
`Arrives`) are external, modelled from how the code uses them.

Abstractions: one datagram per picture; the format negotiation and the read and
user-pointer ways are left out. This is one capture alone with the device; what
becomes of a second one is `CameraLink`'s.

## 3. What the runs check

| Run | Instance | Shows |
|---|---|---|
| camera_sequential | one thread, reliable link, 4 processes | between calls client and server agree (`Agreement`), no pipeline escapes (`NoOrphan`), the whole is a `CameraSwitch` with its liveness (`ImplementsSwitch`), and closing the socket ends the server (`CleanupStopsServer`) |
| camera_faulty | two threads on one socket, loss, late answers, restarts, pipelines that end | answers reach the wrong threads, but until something is lost or late as many are under way as threads wait (`NoAnswerLeftBehind`); while callers keep to the precondition of `Stream_turnOn`, whatever runs can be killed and nothing runs once the stream is off (`Tracked`); every call returns (`EveryCallReturns`) |
| camera_double_start (violated) | two threads | both read the flag before either writes it; the server starts a second stream although `Stream.h` requires that none runs |
| camera_exhausted (violated) | one thread, 2 processes | shells are never reaped; in the end turning off kills the server and not the stream |
| motion_watch | both pollers, both modes | no pulse is counted twice (`NoDoubleCount`); none is missed while the camera is on manual, the analyzer's polls stay close and pulses apart (`EveryPulseCountedAlone`); the sensor does not stay deaf if posts return (`SensorRecovers`); sessions end (`SessionEnds`) |
| motion_missed (violated) | the camera on manual | a post outlasts a pulse, which passes unseen, where `dangerAnalyzer.c` says always caught |
| motion_camera_stays_on (violated) | the same | a session ends and leaves the camera on, where `StreamController.h` says two minutes |
| danger_analyzer | buffer of 4, window of 2, levels 0..2 | the history counts detections until it comes round (`HistoryCountsTriggers`), a level at its maximum is heard (`AlarmIsHeard`), the stop ends if posts do (`StopEnds`), and in silence (`SilentAfterCleanup`) |
| menu | two auto-logout times, a pattern of one direction, others change five things | a guest changes nothing (`AdminOnly`), no assertion of `menu.c` fails (`NoAssertFails`), the decimal point tells the truth until others act (`IndicatorTrue`), a login ends (`AttemptEnds`), an abandoned session ends in whatever sub-menu (`AbandonedSessionEnds`), `Menu_stop` returns (`StopEnds`) |
| remote_session | an admin who does everything, a second user who logs in, loss, late answers and signals, the menu changing the policy | every answer belongs to its request and the client's assertion holds (`AnswersBelong`), nobody gets what they have not proved the right to, though the server keeps no sessions (`ImplementsAccess`), no shell of the host for who was not logged in, when the client ends by itself (`HostAccessOnlyForAdmins`), no client waits for ever (`EveryRequestEnds`) |
| lifecycle | all five threads, crashes, files that cannot be opened, restarts | no thread is in a module that is not up, but for the camera (`UsedWhileReady`), what was set lasts (`WhatWasSetLasts`), files are written when nobody is left (`SavedAlone`), the stop ends if posts do (`StopEnds`) |
| video | two or three buffers, endless and counted captures, every fault | no buffer is lost or given back twice (`BuffersKept`), the encoder reads whole pictures in order (`WholeFramesInOrder`), the recording is what was relayed but for its first datagram (`RecordingIsRelayed`), a capture without a reader leaves the camera (`CameraIsReleased`) |

Bounds, and why they are enough:

- `Pids` is the board's supply of processes and descriptors, each used up by
  one pipeline. Four allow three complete on/off cycles before `popen` fails;
  two suffice where the first double start is the question.
- `MaxInFlight` only delays new calls. A thread has one datagram under way, so
  a bound of the number of threads cuts nothing off while answers are punctual;
  with late answers two leave room for a stale answer beside a fresh request.
- Two threads stand for the program's three: they make every kind of call, and
  the third one, the stream controller's, only turns on, as the menu's does too.
- A tick of `MotionWatch` is two thirds of a second: `PulseTicks` = 3 is the two
  seconds the hardware holds its line, `DebounceTicks` = 3 the two seconds of the
  software, and `SleepTicks` = 1 lets polls be one tick or, with a post, more
  apart, as a second is between one tick and two. `MaxGap` = 2 is a post that
  takes up to a third of a second. With these `QuietTicks` = 3 is the least the
  theorem allows: with 2 TLC finds a pulse that is missed. `LiveTicks` = 2 stands
  for 120 s: a session that outlasts a poll, and may be overtaken by a detection,
  is all its code can tell.
- `Size` = 4 with `Window` = 2 lets the buffer come round many times, `Window`
  being smaller than `Size` as the 5 of `SPIKE_FREQUENCY_WINDOW` are smaller than
  the 100 of `BUFFER_SIZE`. `MaxTriggers` = 2
  detections give every pair of equal and different records.
- `SequenceLimit` = 2 against a pattern of one direction has sequences that are
  too short, right, too long by one and full. One direction is enough, because a
  wrong direction is refused as a wrong length is.
- `Timeouts` = <<1, 2>> ticks: with two, a change of the setting lengthens or
  shortens a running session. `Readings` = {5} is more than any sub-menu has
  options, so that an index left over from a number would show.
- `NumThresholds` = 2 and `NumPolicies` = 1 keep sub-menus of different lengths
  next to each other, one of them of length one, as the records are reused.
- `Shared` leaves the motion sensor, the logger and the threshold to the user:
  they behave in the model as `autoLogout` does, which others change.
- In `RemoteSession` two sessions are enough for one to change under the other
  what it has just proved; the second only logs in, which keeps the state space
  small. One value of each kind of argument is asked for, but for those the code
  treats differently ("overflow", an unknown device). Two patterns are one that
  fits and one that does not; two codes are a right and a wrong one, and
  "0000" is the one the system starts with. The menu changes the policy, the one
  setting the session depends on.
- In `Lifecycle` one value beside the zeros of a fresh process makes every change
  of an item visible; restarts are not bounded.
- In `VideoPath` two and three buffers are the fewest `init_mmap` takes and one
  more, one is refused; a pipe of half a picture makes every write wait; three
  shots let a buffer come round and be overwritten, and one be lost for want of a
  buffer.

Deadlock checking is off for the camera, motion sensor, danger analyzer, menu
and remote session because they really stop: after `Camera_cleanup`, after the
threads are joined, or when the last client is gone, no step is left. It is on for
`Lifecycle` and `VideoPath`, where a new process may always be started.

Fairness: threads are scheduled (`WF` on each of their steps); a receive ends
because the socket has a timeout (`WF` on `Receive \/ Timeout`); the server
returns to its socket; the clock advances. `Tick` of `MotionWatch` has
strong fairness, because each poll of the stream thread disables it for a moment.
`Http_post` sets no timeout, so its return is under no fairness, neither as
`Posted` in `MotionWatch` and `DangerAnalyzer` nor as a `Return` from `"http"` in
`Lifecycle`. What needs it says so: both `StopEnds` of the analyzer and the program,
and `SensorRecovers`, have the premise that the analyzer is again and again
outside of its post. `AlarmIsHeard` needs no such premise, because a level is
judged before it is posted.
In `Menu` the thread's own steps, `Exit` and `Tick` are weakly fair: the thread
polls its timer and its exit signal between two looks at the joystick. No
fairness on anything users or others do, on cleanup or on faults:
`AbandonedSessionEnds` is about users who, from some time on, press nothing.
In `RemoteSession` only the clients' receives are fair, as in the camera link;
neither users nor the server need do anything. `EveryRequestEnds` is written as
"again and again not waiting", which says the same as "what waits stops waiting"
and is cheaper to check. In `Lifecycle` the main thread
and the return of calls, but for the post, are weakly fair, and `End` is strongly fair: a thread looks
at its exit flag once each turn of its loop, so between two calls it cannot miss
it for ever. Nobody is obliged to stop the system. In `VideoPath` capture's own
steps are weakly fair (`select` has a timeout), and so is ffmpeg's reading.

## 4. What is proved

`CameraLinkProofs`, for every set of threads, calls, faults and processes:

- `TypeCorrect`, `Spec => []TypeOK`.
- `AlwaysTracked`, `Spec => Tracked`. Its premise, `TurnOnPrecondition` at every
  moment, is the one of `Stream.h`; `KeepsTrack` is inductive under it (`TrackKept`):
  a fork replaces the name of a pipeline only when there is none, and pipelines
  that end only make the set smaller (`PipelineSteps`). Without the premise it is
  false: see camera_double_start.
- `EveryAnswerIsOwed`, for any finite set of threads: `NoAnswerLeftBehind`. It is
  inductive with `TypeOK`: while `intact`, each step that adds a datagram adds a
  waiting thread (`OwedOneMore`), each that takes one takes one (`OwedOneLess`), all
  others keep both numbers (`OwedKept`), and a restart leaves neither
  (`OwedAtStart`). Finiteness is needed for there to be a number of threads at all.
- `AloneIsRight` and `AloneLeavesNoOrphan`, under `Alone` (one thread, no faults
  but pipelines that end): `Agreement` and `NoOrphan`. Neither is inductive. `CallInv` says, for
  each place of the thread in its call, which queues are empty and how the flag,
  the request and the server's state relate; one caller keeps to the precondition,
  so `AlwaysTracked` gives the rest. The crux is `OnOnlyWhenOff`: a request to turn
  on only reaches a server whose stream is off.
- `AloneIsASwitch`, under `Alone`: initial states and steps map to
  `CameraSwitch` (safety part of the refinement TLC checks in full).

The assumption `Alone` is what the code fails to guarantee: the run
camera_double_start shows that two threads are enough to break both.

`DangerAnalyzerProofs`, for every buffer size, window, level and threshold:

- `TypeCorrect`: the level stays in range and the buffer is written in bounds
  although a latest reading may come from outside of it.
- `HistoryIsRight`: `HistoryCountsTriggers`, by `HistoryInv`, which adds that
  `next` is at least 1 until the buffer comes round.
- `SilentAtEnd`: `SilentAfterCleanup`, by `SilenceInv`: what is cleaned up was
  joined before.

`MotionWatchProofs`, for all durations of pulses, debounce and camera sessions:

- `TypeCorrect`: `TypeOK`.
- `NoneTwice`: `NoDoubleCount`, if a pulse is not longer than the debounce.
- `NoneMissed`: `EveryPulseCountedAlone`, if besides a pulse is as long as `MaxGap`
  at least, and a pulse with the quiet before it has room for the debounce and two
  polls: `DebounceTicks + 2 * MaxGap <= PulseTicks + QuietTicks + 1`.

The assumptions are what the code leaves to the sensor and to the network: a
pulse longer than the debounce would be counted again when that has run out; and
because the poll that finds the debounce over does not look at the line, a pulse
that follows closely is caught only by the one after it. `PollInv` says what a
poller still knows of line and flag when it comes to write: one about to report
found the flag set, and if it is not set any more the other poller has just
started the timer. `CountedInv` then says that once a pulse has been counted the
flag is not set, nobody is about to set it and the timer outlasts the pulse; the
crux is `TimerNotTorn`: a poller that finds the flag cleared while the other is
still to report reads a timer just started, so no torn read lets it restore the
flag. `NoneMissed` looks the other way: with the camera on manual only the
analyzer polls (`AloneInv`); over a low line the timer will have run out in time
(`LowInv`); and during a pulse not yet counted enough of it is left for the polls
that are still needed, one when the flag is set and two when it is not (`RoomInv`,
with `RoomAfterDebounce`, `RoomWhileAway` and `RoomInPoll` for the three places
the analyzer may be in).

`MenuProofs`, for every number of options, every list of timeouts, all
directions, patterns and sets of shared values:

- `TypeCorrect`: indices stay in their lists, the entered sequence in its buffer.
- `AssertsHold`: `NoAssertFails`.
- `GuestsChangeNothing`: `AdminOnly`.
- `MarkTellsTheTruth`: `IndicatorTrue`.

None of them is inductive alone, because nothing in a handler asks who is
logged in or which view is open. `MenuInv` adds what the code relies on: the
menu has the guest's three options exactly while nobody is logged in and
`currentOpt` is one of them; a sub-menu's `currentOpt` is within the options of
the sub-menu that is chosen; only a guest is at a login, only an admin in a
camera call. `GuestOnlyLooks` derives from it that a guest's sub-menus are those
without an action. `IndicatorTrue` is kept (`MarkKept`) because whatever opens a
view marks what is active, and what sets or toggles a setting moves the mark.

`RemoteSessionProofs`, for any clients, passwords, commands, patterns, codes and
faults:

- `TypeCorrect`: `TypeOK`; a pattern stored fits its buffer or is `Unmatched`.
- `AnswersRight`: `AnswersBelong`.
- `ShellForAdmins`: `HostAccessOnlyForAdmins`, for clients that end by themselves.

`AnswersBelong` is not inductive: the answer fits because the request did, and
the request is the only one of its client because the client sends only when
nothing of its own is under way. `SessionInv` says so: `QueuesOK`, at most one
datagram of a client that still waits, counting both directions; `RequestsInv`,
that datagram is of the kind its client's place waits for, and of a kind its
rights allow; `AnswersInv`, the same of answers; `AdminInv`, the places only an
admin reaches; `ServerInv`, what a server in a camera call has in hand; and
`StoredOK`, the types of what is stored.

`RemoteAccessProofs`: `GrantsOnlyWhatIsProved`, the safety part of
`ImplementsAccess`. `StageInv` is added to the invariant: where a client is and
whether it is logged in go together, what takes an admin was asked by an admin
who has at most left for the shell, and passwords are typed by users who know
them. Then every
action maps to the action of the abstract module or to a stutter, in one lemma
for each group of actions (`UserSteps`, `ReceiveSteps`, `TimeoutSteps`,
`ServeSteps`, `RestSteps`). Its liveness part stays with TLC.

`LifecycleProofs`, for any values and either fault, over any number of runs:

- `TypeCorrect`: `TypeOK`.
- `NoneIsUsedUnready`: `UsedWhileReady`.
- `NothingSetIsLost`: `WhatWasSetLasts`.
- `NobodyIsLeft`: `SavedAlone`, an action property.

The argument is by main's place. `Places` says at which of the 37 steps of
`Program` each operation is carried out. `RunInv` then gives each thread the steps
between which it may run, `UpInv` each module those between which it is up, and
`CallInv` says that who is in a module runs and uses it: the theorem is that a
thread's interval lies within those of its modules. `MemInv` is what
`WhatWasSetLasts` needs about the items that are not in memory: their file holds
what was last set.

`VideoPathProofs`, for every set of numbers of buffers the driver may grant, every
frame count, pipe and set of faults:

- `TypeCorrect`: `TypeOK`, with `PlaceInv`: before the start and after the end
  there are no buffers in any queue, in between pictures are still to be taken.
- `NoBufferIsLost`: `BuffersKept`, by `KeptInv`, which says the same of the
  queues apart: together they hold all buffers and are as long as there are
  buffers.
- `PicturesStayWhole`: `WholeFramesInOrder`.
- `RecordingIsFaithful`: `RecordingIsRelayed`, by `RecordingInv`: without a
  stream nothing has been relayed yet.

`WholeFramesInOrder` is about the pipe only, and a pipe says nothing of what comes
into it. `ShotsInv` orders the pictures behind it: the filled buffers hold them in
the order they were taken, all after the one in capture's hands. `WriteInv` says
how the half written last (`Last`) fits the place of capture, and `Linked` is the
order within the pipe. The crux is `FilledIsFree`: the driver fills no buffer that
is filled or in capture's hands, because there are exactly as many places as
buffers (`FirstIsApart`, which counts). That is why `KeptInv` is needed here too.

The module's assumptions say only that these are numbers, and that a pipe takes
half a picture at least.

Only model-checked: the properties under fairness (`EveryCallReturns`,
`CleanupStopsServer`, `SensorRecovers`, `SessionEnds`, `AlarmIsHeard`, `AttemptEnds`,
`AbandonedSessionEnds`, `EveryRequestEnds`, `CameraIsReleased`, three `StopEnds`,
and the liveness parts of `ImplementsSwitch` and `ImplementsAccess`), which are
out of the prover's reach. Every invariant and every action property of a passing
run is a theorem, as are the two that have a premise about all of a behaviour,
`Tracked` and `EveryPulseCountedAlone`; `Agreement` and `NoOrphan` are under `Alone`,
which is also the instance TLC checks them on.

## 5. Where code and documentation disagree

Four runs end in a counterexample to a sentence of the repository; see
"findings" in `PROJECT.json` for the lines: the double start of the stream, the
camera server's death when processes run out, the pulse that passes during a
post, and the camera a triggered session leaves on.

Seen while modelling, without a run of their own, and modelled as the code has
them:

- In triggered mode the stream thread takes detections from the analyzer, which
  polls the same sensor (`StreamController.c:78`, `dangerAnalyzer.c:162`).
- A refused camera call leaves the menu's mark on trigger although the camera is
  on manual by then (`menu.c:461`).
- `isFull` of the circular buffer is never set; once `next` is 0 the latest
  reading lies before the array (`circularBuffer.c:27`).
- The longest auto-logout the menu offers as two minutes is 1200000 ms
  (`menu.c:32`).
- Option 0 of the reset views confirms (`menu.c:94`), which their overview calls
  cancel.
- The remote client announces patterns of up to 15 directions
  (`remoteLoginClient.c:421`), the system keeps 7 of them and the length of all; a
  pattern as long as its buffer allows can be set but never entered.
- After one number out of range the remote threshold is refused until the
  program restarts or a failing camera call overwrites `errno`, which is never
  cleared (`responseHandler.c:88`).
- `docs/howtocreateuser.md:75` says that the host cannot be reached without a login.
  The script of its lines 24 to 31 closes the session on exit code 1 only, and `main`
  catches only SIGINT (`remoteLoginClient.c:580`): after a client that another
  signal has ended it goes on. `HostAccessOnlyForAdmins` leaves out this end.
- `Http_post` has no timeout, so `DangerAnalyzer_stop`, and `Controller_stop` after
  it, may wait in a join for ever (`http.c:38`, `dangerAnalyzer.c:188`).
- The comment at `remoteLoginClient.c:96` says one second, the socket waits ten.
- The menu and the stream thread may call the camera before `Camera_init` and
  after `Camera_cleanup` (`controller.c:37`, `controller.c:41`).

## 6. What is left

Not modelled:

- The read and user-pointer ways of `capture.c` and its negotiation of formats.
- The relay's web side: pages, the list of recordings, and the window of the
  last data points with their broadcast. `GET /data` reads a body that such a
  request has not (`server.js:41`).
- LED display, what is posted over http, event logger, GPIO and PWM files, and the web page: I/O
  whose results no other part reads.
- The second factor in `RemoteAccess`: that a login under the policy that asks for
  it has had a right code is in the steps of `RemoteSession`, and no property follows
  it from step to step.
- The remote session beside a real menu: `AtDevice` lets the menu change
  settings at any moment, which is all the server sees of it.

About two thirds of the repository's lines in source form are vendored headers
of curl and the pages' video player, which are no part of the system's logic.

Theorems to come: what the liveness properties rest on and needs no fairness,
such as that a step that ends a wait stays possible, can only be stated with
ENABLED and stays with TLC. Further invariants worth stating first are those of
the components listed as partly modelled.

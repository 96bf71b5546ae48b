-------------------------------- MODULE Menu --------------------------------
(***************************************************************************)
(* The menu on the device (Menu/menu.c): one thread that waits for the     *)
(* joystick, moves through the menu and its sub-menus, logs the user in by *)
(* a pattern of directions (PasswordInput, PasswordManager) and out again  *)
(* by hand or after a time without input, and changes what the rest of the *)
(* program runs by.                                                        *)
(*                                                                         *)
(* The remote user, the stream controller and the danger analyzer change   *)
(* the same things while a view is shown; a view is drawn once, when it is *)
(* opened.                                                                 *)
(***************************************************************************)
EXTENDS Integers, Sequences

CONSTANTS
    NumThresholds,   \* options of "set danger threshold"
    NumPolicies,     \* SETTINGS_RA_SENTINEL_MAX
    Timeouts,        \* Timeouts[i]: ticks of auto-logout setting i - 1
    DefaultThreshold,
    Directions,      \* the directions users enter at a login
    SequenceLimit,   \* PWMGR_MSPASSWORD_LIMIT - 1
    Patterns,        \* the patterns the remote user sets
    Readings,        \* what the two check views may show
    Shared           \* what others change: a subset of Changeable

\* The first level of the menu: option k is Options[k + 1].
Options ==
    <<"logoutOrLogin", "checkDanger", "checkTriggers", "motionSensor", "camera",
      "logger", "dangerThreshold", "resetThreshold", "resetLevel", "autoLogout",
      "securityPolicy">>

ADMIN_NUM_OPTIONS == 11
GUEST_NUM_OPTIONS == 3

\* What has a value that a sub-menu shows as one of its options.
Settings == {"motionSensor", "logger", "dangerThreshold", "autoLogout", "securityPolicy"}
Toggles == {"motionSensor", "logger"}

Changeable == Settings \cup {"dangerLevel", "camera", "trigger", "pattern"}

ASSUME MenuAssumption ==
    /\ NumThresholds \in Nat \ {0}
    /\ NumPolicies \in Nat \ {0}
    /\ Timeouts \in Seq(Nat \ {0}) /\ Timeouts # <<>>
    /\ DefaultThreshold \in 0 .. NumThresholds - 1
    /\ Directions \subseteq {"up", "right", "down", "left"}
    /\ SequenceLimit \in Nat
    /\ Patterns \subseteq Seq(Directions) /\ Patterns # {}
    /\ Readings \subseteq Nat /\ Readings # {}
    /\ Shared \subseteq Changeable

\* Options of a sub-menu; none when it only shows a number.
NumOpts(option) ==
    CASE option \in {"checkDanger", "checkTriggers"} -> 0
      [] option \in Toggles \cup {"resetThreshold", "resetLevel"} -> 2
      [] option = "camera" -> 3
      [] option = "dangerThreshold" -> NumThresholds
      [] option = "autoLogout" -> Len(Timeouts)
      [] option = "securityPolicy" -> NumPolicies

MATCH_ALL == -2
MATCH_NONE == -1

VARIABLES
    pc,           \* in processUserInput, login or a camera call, or ended
    menu,         \* currentOpt, numOpts and selectedOpt of the menu
    subMenu,      \* and of the sub-menu
    type,         \* currentState: "menu" or "submenu"
    isLoggedIn,
    timer,        \* inactivityTimer: ticks until it expires
    sequence,     \* passwordInput.c: the directions entered
    stopping,     \* s_stop
    setting,      \* the value of each of Settings, as the option that sets it
    dangerRaised, \* the danger level is not 0
    isCameraOn,   \* Camera_isLive
    isTriggered,  \* Stream_Controller_isAuto
    pattern,      \* passwordManager.c menuSystemPassword
    touched       \* others have changed something while the sub-menu is shown

menuVars == <<menu, subMenu, type, isLoggedIn>>
sharedVars == <<setting, dangerRaised, isCameraOn, isTriggered, pattern>>
vars == <<pc, menuVars, timer, sequence, stopping, sharedVars, touched>>

StateInfo == [currentOpt : Nat, numOpts : Nat, selectedOpt : Int]

TypeOK ==
    /\ pc \in {"waiting", "login", "calling", "ended"}
    /\ menu \in StateInfo
    /\ subMenu \in StateInfo
    /\ type \in {"menu", "submenu"}
    /\ isLoggedIn \in BOOLEAN
    /\ timer \in Nat
    /\ sequence \in Seq(Directions) /\ Len(sequence) <= SequenceLimit
    /\ stopping \in BOOLEAN
    /\ setting \in [Settings -> Nat]
    /\ \A s \in Settings : setting[s] < NumOpts(s)
    /\ dangerRaised \in BOOLEAN
    /\ isCameraOn \in BOOLEAN
    /\ isTriggered \in BOOLEAN
    /\ pattern \in Patterns
    /\ touched \in BOOLEAN

-----------------------------------------------------------------------------
(* States and views *)

View(current, num, selected) ==
    [currentOpt |-> current, numOpts |-> num, selectedOpt |-> selected]

GuestView == View(0, GUEST_NUM_OPTIONS, MATCH_NONE)
AdminView == View(0, ADMIN_NUM_OPTIONS, MATCH_ALL)

Chosen == Options[menu.currentOpt + 1]

CameraMode == IF isTriggered THEN 2 ELSE IF isCameraOn THEN 1 ELSE 0

\* The option of the chosen sub-menu that is in effect.
Active ==
    CASE Chosen \in Settings -> setting[Chosen]
      [] Chosen = "camera" -> CameraMode
      [] OTHER -> MATCH_NONE

Timeout == Timeouts[setting["autoLogout"] + 1]

Init ==
    /\ pc = "waiting"
    /\ menu = GuestView
    /\ subMenu = View(0, 0, 0)
    /\ type = "menu"
    /\ isLoggedIn = FALSE
    /\ sequence = <<>>
    /\ stopping = FALSE
    /\ \E threshold \in 0 .. NumThresholds - 1, policy \in 0 .. NumPolicies - 1,
          logout \in 0 .. Len(Timeouts) - 1 :
            setting = [motionSensor |-> 1, logger |-> 1, dangerThreshold |-> threshold,
                       autoLogout |-> logout, securityPolicy |-> policy]
    /\ timer = Timeout
    /\ dangerRaised = FALSE
    /\ isCameraOn = FALSE
    /\ isTriggered = FALSE
    /\ pattern \in Patterns
    /\ touched = FALSE

-----------------------------------------------------------------------------
(* processUserInput *)

\* Every turn of the loop starts the inactivity timer anew, by the setting in
\* effect.  It follows what the turn before did at once, and is one step with it.
NextTurn ==
    /\ pc' = "waiting"
    /\ timer' = Timeouts[setting'["autoLogout"] + 1]
    /\ touched' = (touched /\ type' = "submenu")

Expired == isLoggedIn /\ timer = 0

\* Joystick_getPressed has something to report.
Pressed ==
    /\ pc = "waiting"
    /\ ~Expired
    /\ ~stopping

\* next and prev: nothing to move through where only a number is shown.
NextOpt(info) ==
    IF info.numOpts = 0 THEN info
    ELSE [info EXCEPT !.currentOpt = (@ + 1) % info.numOpts]

PrevOpt(info) ==
    IF info.numOpts = 0 THEN info
    ELSE [info EXCEPT !.currentOpt = (@ + info.numOpts - 1) % info.numOpts]

Up ==
    /\ Pressed
    /\ IF type = "menu" THEN menu' = NextOpt(menu) /\ UNCHANGED subMenu
       ELSE subMenu' = NextOpt(subMenu) /\ UNCHANGED menu
    /\ UNCHANGED <<type, isLoggedIn, sequence, stopping, sharedVars>>
    /\ NextTurn

Down ==
    /\ Pressed
    /\ IF type = "menu" THEN menu' = PrevOpt(menu) /\ UNCHANGED subMenu
       ELSE subMenu' = PrevOpt(subMenu) /\ UNCHANGED menu
    /\ UNCHANGED <<type, isLoggedIn, sequence, stopping, sharedVars>>
    /\ NextTurn

\* Left goes back to the menu; right, and left in the menu, only count as input.
LeftOrRight ==
    /\ Pressed
    /\ type' \in {"menu", type}
    /\ UNCHANGED <<menu, subMenu, isLoggedIn, sequence, stopping, sharedVars>>
    /\ NextTurn

\* Slip: the menu keeps the options of an admin.
LogoutKeepsOptions ==
    /\ type' = "menu"
    /\ isLoggedIn' = FALSE
    /\ UNCHANGED <<menu, subMenu>>

Logout ==
    /\ menu' = GuestView
    /\ type' = "menu"
    /\ isLoggedIn' = FALSE
    /\ UNCHANGED subMenu

\* Slip: only the menu itself times out.
AutoLogoutInMenu ==
    /\ pc = "waiting"
    /\ Expired
    /\ type = "menu"
    /\ Logout
    /\ UNCHANGED <<sequence, stopping, sharedVars>>
    /\ NextTurn

AutoLogout ==
    /\ pc = "waiting"
    /\ Expired
    /\ Logout
    /\ UNCHANGED <<sequence, stopping, sharedVars>>
    /\ NextTurn

CenterLogout ==
    /\ Pressed
    /\ type = "menu" /\ Chosen = "logoutOrLogin"
    /\ isLoggedIn
    /\ Logout
    /\ UNCHANGED <<sequence, stopping, sharedVars>>
    /\ NextTurn

-----------------------------------------------------------------------------
(* login and PasswordInput_sendNext *)

CenterLogin ==
    /\ Pressed
    /\ type = "menu" /\ Chosen = "logoutOrLogin"
    /\ ~isLoggedIn
    /\ type' = "submenu"
    /\ timer' = Timeout
    /\ pc' = "login"
    /\ UNCHANGED <<menu, subMenu, isLoggedIn, sequence, stopping, sharedVars, touched>>

\* An input of a login, which restarts the timer.
Entered ==
    /\ pc = "login"
    /\ timer > 0
    /\ ~stopping
    /\ UNCHANGED <<stopping, sharedVars>>

\* Slip: a full sequence is not refused.
EnterNeverFull ==
    /\ Entered
    /\ \E d \in Directions : sequence' = Append(sequence, d)
    /\ timer' = Timeout
    /\ UNCHANGED <<pc, menuVars, touched>>

Enter ==
    /\ Entered
    /\ Len(sequence) < SequenceLimit
    /\ \E d \in Directions : sequence' = Append(sequence, d)
    /\ timer' = Timeout
    /\ UNCHANGED <<pc, menuVars, touched>>

\* P_INPUT_TOO_LONG for whatever is pressed, or P_INPUT_NO_MATCH for the centre.
Refuse ==
    /\ Entered
    /\ \/ Len(sequence) = SequenceLimit
       \/ sequence # pattern
    /\ sequence' = <<>>
    /\ type' = "menu"
    /\ UNCHANGED <<menu, subMenu, isLoggedIn>>
    /\ NextTurn

\* P_INPUT_MATCH for the centre.
Admit ==
    /\ Entered
    /\ Len(sequence) < SequenceLimit
    /\ sequence = pattern
    /\ sequence' = <<>>
    /\ menu' = AdminView
    /\ type' = "menu"
    /\ isLoggedIn' = TRUE
    /\ UNCHANGED subMenu
    /\ NextTurn

\* Slip: the timer is looked at only once something was entered.
LoginTimeoutIfBegun ==
    /\ pc = "login"
    /\ timer = 0
    /\ sequence # <<>>
    /\ type' = "menu"
    /\ UNCHANGED <<menu, subMenu, isLoggedIn, sequence, stopping, sharedVars>>
    /\ NextTurn

\* What was entered stays for the next login.
LoginTimeout ==
    /\ pc = "login"
    /\ timer = 0
    /\ type' = "menu"
    /\ UNCHANGED <<menu, subMenu, isLoggedIn, sequence, stopping, sharedVars>>
    /\ NextTurn

-----------------------------------------------------------------------------
(* setView*: opening a sub-menu *)

\* Slip: the sub-menu opens where the last one was left.
OpenKeepsPlace ==
    /\ Pressed
    /\ type = "menu" /\ Chosen # "logoutOrLogin"
    /\ type' = "submenu"
    /\ IF NumOpts(Chosen) = 0
       THEN \E reading \in Readings : subMenu' = View(reading, 0, MATCH_NONE)
       ELSE subMenu' = View(subMenu.currentOpt, NumOpts(Chosen), Active)
    /\ UNCHANGED <<menu, isLoggedIn, sequence, stopping, sharedVars>>
    /\ NextTurn

Open ==
    /\ Pressed
    /\ type = "menu" /\ Chosen # "logoutOrLogin"
    /\ type' = "submenu"
    /\ IF NumOpts(Chosen) = 0
       THEN \E reading \in Readings : subMenu' = View(reading, 0, MATCH_NONE)
       ELSE subMenu' = View(0, NumOpts(Chosen), Active)
    /\ UNCHANGED <<menu, isLoggedIn, sequence, stopping, sharedVars>>
    /\ NextTurn

-----------------------------------------------------------------------------
(* doFromSubMenu *)

Acting(option) ==
    /\ Pressed
    /\ type = "submenu"
    /\ Chosen = option

Mark == subMenu' = [subMenu EXCEPT !.selectedOpt = subMenu.currentOpt]

\* toggleMotionSensor and toggleLogger toggle unless the option is the one that
\* was in effect when the view was drawn.
Toggle(option) ==
    /\ Acting(option)
    /\ setting' = [setting EXCEPT ![option] =
                      IF subMenu.currentOpt = subMenu.selectedOpt THEN @ ELSE 1 - @]
    /\ Mark
    /\ UNCHANGED <<menu, type, isLoggedIn, sequence, stopping,
                   dangerRaised, isCameraOn, isTriggered, pattern>>
    /\ NextTurn

\* Slip: the new value is not marked.
SetKeepsMark(option) ==
    /\ Acting(option)
    /\ setting' = [setting EXCEPT ![option] = subMenu.currentOpt]
    /\ UNCHANGED <<menuVars, sequence, stopping,
                   dangerRaised, isCameraOn, isTriggered, pattern>>
    /\ NextTurn

\* setDangerThreshold, configureAutoLogout and configureSecurityPolicy.
Set(option) ==
    /\ Acting(option)
    /\ setting' = [setting EXCEPT ![option] = subMenu.currentOpt]
    /\ Mark
    /\ UNCHANGED <<menu, type, isLoggedIn, sequence, stopping,
                   dangerRaised, isCameraOn, isTriggered, pattern>>
    /\ NextTurn

\* Option 0 of the two resets confirms, option 1 cancels.
Confirmed == subMenu.currentOpt = 0

ResetThreshold ==
    /\ Acting("resetThreshold")
    /\ setting' = IF Confirmed THEN [setting EXCEPT !["dangerThreshold"] = DefaultThreshold]
                  ELSE setting
    /\ type' = "menu"
    /\ UNCHANGED <<menu, subMenu, isLoggedIn, sequence, stopping,
                   dangerRaised, isCameraOn, isTriggered, pattern>>
    /\ NextTurn

ResetLevel ==
    /\ Acting("resetLevel")
    /\ dangerRaised' = (dangerRaised /\ ~Confirmed)
    /\ type' = "menu"
    /\ UNCHANGED <<menu, subMenu, isLoggedIn, sequence, stopping,
                   setting, isCameraOn, isTriggered, pattern>>
    /\ NextTurn

\* Pressing what only shows something, or the camera option that is marked.
Nothing ==
    /\ \/ Acting("checkDanger") \/ Acting("checkTriggers")
       \/ Acting("camera") /\ subMenu.currentOpt = subMenu.selectedOpt
    /\ UNCHANGED <<menuVars, sequence, stopping, sharedVars>>
    /\ NextTurn

Trigger ==
    /\ Acting("camera")
    /\ subMenu.currentOpt = 2 /\ subMenu.selectedOpt # 2
    /\ isTriggered' = TRUE
    /\ Mark
    /\ UNCHANGED <<menu, type, isLoggedIn, sequence, stopping,
                   setting, dangerRaised, isCameraOn, pattern>>
    /\ NextTurn

\* The camera goes on manual before it is asked to go on or off.
CallCamera ==
    /\ Acting("camera")
    /\ subMenu.currentOpt \notin {2, subMenu.selectedOpt}
    /\ isTriggered' = FALSE
    /\ pc' = "calling"
    /\ UNCHANGED <<menuVars, timer, sequence, stopping,
                   setting, dangerRaised, isCameraOn, pattern, touched>>

\* Camera_turnOn or Camera_turnOff returns: at once if there is nothing to do.
CameraReturns ==
    /\ pc = "calling"
    /\ \/ isCameraOn' = (subMenu.currentOpt = 1) /\ Mark
       \/ isCameraOn = (subMenu.currentOpt = 0) /\ UNCHANGED <<isCameraOn, subMenu>>
    /\ UNCHANGED <<menu, type, isLoggedIn, sequence, stopping,
                   setting, dangerRaised, isTriggered, pattern>>
    /\ NextTurn

-----------------------------------------------------------------------------
(* The end, time, and the others *)

Stop ==
    /\ ~stopping
    /\ stopping' = TRUE
    /\ UNCHANGED <<pc, menuVars, timer, sequence, sharedVars, touched>>

\* Slip: the exit signal is looked at only in the menu.
ExitFromMenu ==
    /\ stopping
    /\ pc = "waiting" /\ ~Expired /\ type = "menu"
    /\ pc' = "ended"
    /\ UNCHANGED <<menuVars, timer, sequence, stopping, sharedVars, touched>>

Exit ==
    /\ stopping
    /\ \/ pc = "waiting" /\ ~Expired
       \/ pc = "login" /\ timer > 0
    /\ pc' = "ended"
    /\ UNCHANGED <<menuVars, timer, sequence, stopping, sharedVars, touched>>

\* The thread looks at its timer many times between two ticks.
Tick ==
    /\ pc \in {"waiting", "login"}
    /\ timer > 0
    /\ timer' = timer - 1
    /\ UNCHANGED <<pc, menuVars, sequence, stopping, sharedVars, touched>>

\* Commands of the remote user; the stream controller turns the camera on; the
\* danger analyzer raises the level.
Others ==
    /\ \/ /\ \E s \in Settings \cap Shared : \E v \in 0 .. NumOpts(s) - 1 :
                setting' = [setting EXCEPT ![s] = v]
          /\ UNCHANGED <<dangerRaised, isCameraOn, isTriggered, pattern>>
       \/ /\ "dangerLevel" \in Shared
          /\ dangerRaised' = ~dangerRaised
          /\ UNCHANGED <<setting, isCameraOn, isTriggered, pattern>>
       \/ /\ "camera" \in Shared
          /\ isCameraOn' = ~isCameraOn
          /\ isTriggered => isCameraOn'
          /\ UNCHANGED <<setting, dangerRaised, isTriggered, pattern>>
       \/ /\ "trigger" \in Shared
          /\ isTriggered' = ~isTriggered
          /\ UNCHANGED <<setting, dangerRaised, isCameraOn, pattern>>
       \/ /\ "pattern" \in Shared
          /\ pattern' \in Patterns
          /\ UNCHANGED <<setting, dangerRaised, isCameraOn, isTriggered>>
    /\ touched' = (type = "submenu")
    /\ UNCHANGED <<pc, menuVars, timer, sequence, stopping>>

-----------------------------------------------------------------------------
\* Whatever the user presses.
Input ==
    \/ Up
    \/ Down
    \/ LeftOrRight
    \/ CenterLogout
    \/ CenterLogin
    \/ Enter
    \/ Refuse
    \/ Admit
    \/ Open
    \/ \E option \in Toggles : Toggle(option)
    \/ \E option \in Settings \ Toggles : Set(option)
    \/ ResetThreshold
    \/ ResetLevel
    \/ Nothing
    \/ Trigger
    \/ CallCamera

Next ==
    \/ Input
    \/ CameraReturns
    \/ AutoLogout
    \/ LoginTimeout
    \/ Exit
    \/ Stop
    \/ Tick
    \/ Others

\* The thread runs, camera calls return and time passes.  Nobody has to press
\* anything, and the others are not bound to act.
Fairness ==
    /\ WF_vars(AutoLogout \/ LoginTimeout \/ CameraReturns)
    /\ WF_vars(Exit)
    /\ WF_vars(Tick)

Spec == Init /\ [][Next]_vars /\ Fairness

-----------------------------------------------------------------------------
(* Properties *)

\* What the menu changes, it changes for a user who is logged in: the sub-menus
\* do not ask (doFromSubMenu), and rely on a guest's menu never leading to them,
\* however the last admin left.
AdminOnly ==
    [][Others \/ isLoggedIn \/ UNCHANGED sharedVars]_vars

\* The assertions of menu.c hold whatever is pressed when: a login that ends goes
\* back from a sub-menu (back), a user who is admitted comes from one, and no
\* option beyond its sub-menu's is ever confirmed (configureAutoLogout,
\* configureSecurityPolicy), though one record serves all sub-menus in turn.
NoAssertFails ==
    /\ pc = "login" => type = "submenu"
    /\ menu.currentOpt < Len(Options)
    /\ pc = "waiting" /\ type = "submenu" /\ Chosen \in {"autoLogout", "securityPolicy"} =>
        subMenu.currentOpt < NumOpts(Chosen)

\* mainloop: the decimal point is there "to indicate that this option is
\* currently active".  It tells the truth about each of Settings unless somebody
\* else has changed something since the view was opened.
IndicatorTrue ==
    pc = "waiting" /\ type = "submenu" /\ ~touched /\ Chosen \in Settings =>
        subMenu.selectedOpt = Active

\* A login ends, by time or by too many inputs, whatever is pressed.
AttemptEnds == pc = "login" ~> pc # "login"

\* An admin who stops pressing is logged out, in whatever sub-menu and whatever
\* others do to the auto-logout setting (processUserInput).
AbandonedSessionEnds ==
    (isLoggedIn ~> ~isLoggedIn \/ stopping) \/ []<><<Input>>_vars

\* Menu_stop returns.
StopEnds == stopping ~> pc = "ended"
=============================================================================

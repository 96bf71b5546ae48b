----------------------------- MODULE MenuProofs -----------------------------
(***************************************************************************)
(* Theorems about Menu, for every number of options, timeout and pattern.  *)
(***************************************************************************)
EXTENDS Menu, TLAPS

-----------------------------------------------------------------------------
(* Options *)

\* Stepping around a list of n options stays within it.
LEMMA StepInRange ==
    ASSUME NEW n \in Nat \ {0}, NEW c \in Nat
    PROVE  c % n \in 0 .. n - 1
  OBVIOUS

\* The first three options are all a guest has, and only option 0 logs in or out.
LEMMA OptionsByNumber ==
    ASSUME NEW k \in 0 .. ADMIN_NUM_OPTIONS - 1
    PROVE  /\ Options[k + 1] = "logoutOrLogin" <=> k = 0
           /\ k < GUEST_NUM_OPTIONS =>
                Options[k + 1] \in {"logoutOrLogin", "checkDanger", "checkTriggers"}
           /\ Options[k + 1] \in
                {"logoutOrLogin", "checkDanger", "checkTriggers", "resetThreshold",
                 "resetLevel", "camera"} \cup Settings
  BY DEF Options, ADMIN_NUM_OPTIONS, GUEST_NUM_OPTIONS, Settings

\* Every option has a number of options of its own.
LEMMA NumOptsTyped ==
    ASSUME NEW o \in {"checkDanger", "checkTriggers", "resetThreshold",
                      "resetLevel", "camera"} \cup Settings
    PROVE  /\ NumOpts(o) \in Nat
           /\ o \in Settings => NumOpts(o) > 0
  BY MenuAssumption DEF NumOpts, Settings, Toggles

\* Moving within a view changes its place only, and keeps it in range.
LEMMA MoveInRange ==
    ASSUME NEW info \in StateInfo, NEW moved \in {NextOpt(info), PrevOpt(info)}
    PROVE  /\ moved \in StateInfo
           /\ moved.numOpts = info.numOpts
           /\ info.numOpts # 0 => moved.currentOpt < moved.numOpts
<1>1. CASE info.numOpts = 0
  BY <1>1 DEF NextOpt, PrevOpt
<1>2. CASE info.numOpts # 0
  <2>1. /\ (info.currentOpt + 1) % info.numOpts \in 0 .. info.numOpts - 1
        /\ (info.currentOpt + info.numOpts - 1) % info.numOpts \in 0 .. info.numOpts - 1
    <3>1. info.currentOpt + 1 \in Nat /\ info.currentOpt + info.numOpts - 1 \in Nat
      BY <1>2 DEF StateInfo
    <3>2. info.numOpts \in Nat \ {0}
      BY <1>2 DEF StateInfo
    <3> QED
      BY <3>1, <3>2, StepInRange
  <2> QED
    BY <1>2, <2>1 DEF NextOpt, PrevOpt, StateInfo
<1> QED
  BY <1>1, <1>2

\* A turn of the loop starts a timer and waits.
LEMMA TurnTyped ==
    ASSUME NextTurn, touched \in BOOLEAN,
           setting'["autoLogout"] \in Nat, setting'["autoLogout"] < NumOpts("autoLogout")
    PROVE  timer' \in Nat /\ touched' \in BOOLEAN /\ pc' = "waiting"
<1>1. NumOpts("autoLogout") = Len(Timeouts)
  BY DEF NumOpts, Toggles
<1>2. setting'["autoLogout"] + 1 \in 1 .. Len(Timeouts)
  BY <1>1, MenuAssumption
<1> QED
  BY <1>2, MenuAssumption DEF NextTurn

-----------------------------------------------------------------------------
(* The invariant *)

\* The menu's options are those of its user, a login is under way only for a
\* guest, a camera call only for an admin, and a sub-menu that is shown is the
\* chosen option's, at a place within it.
MenuInv ==
    /\ menu.numOpts = IF isLoggedIn THEN ADMIN_NUM_OPTIONS ELSE GUEST_NUM_OPTIONS
    /\ menu.currentOpt < menu.numOpts
    /\ pc = "login" => type = "submenu" /\ ~isLoggedIn /\ menu.currentOpt = 0
    /\ pc = "calling" => /\ type = "submenu" /\ isLoggedIn
                         /\ Chosen = "camera"
    /\ type = "submenu" /\ pc \in {"waiting", "calling"} =>
        /\ menu.currentOpt # 0
        /\ subMenu.numOpts = NumOpts(Chosen)
        /\ subMenu.numOpts # 0 => subMenu.currentOpt < subMenu.numOpts

IInv == TypeOK /\ MenuInv

\* A guest who presses something in a sub-menu is in one that only shows a
\* number.
LEMMA GuestOnlyLooks ==
    ASSUME IInv, NEW option, Acting(option), ~isLoggedIn
    PROVE  option \in {"checkDanger", "checkTriggers"}
<1>1. menu.currentOpt \in 1 .. GUEST_NUM_OPTIONS - 1
  BY DEF IInv, TypeOK, MenuInv, Acting, Pressed, StateInfo, GUEST_NUM_OPTIONS
<1>2. Options[menu.currentOpt + 1] \in {"checkDanger", "checkTriggers"}
  BY <1>1, OptionsByNumber DEF GUEST_NUM_OPTIONS, ADMIN_NUM_OPTIONS
<1> QED
  BY <1>2 DEF Acting, Chosen

\* The chosen option is always one of the list.
LEMMA ChosenTyped ==
    ASSUME IInv
    PROVE  /\ menu.currentOpt \in 0 .. ADMIN_NUM_OPTIONS - 1
           /\ Chosen = "logoutOrLogin" <=> menu.currentOpt = 0
           /\ Chosen # "logoutOrLogin" =>
                /\ NumOpts(Chosen) \in Nat
                /\ Active \in Int
<1>1. menu.currentOpt \in 0 .. ADMIN_NUM_OPTIONS - 1
  BY DEF IInv, TypeOK, MenuInv, StateInfo, ADMIN_NUM_OPTIONS, GUEST_NUM_OPTIONS
<1>2. Chosen = "logoutOrLogin" <=> menu.currentOpt = 0
  BY <1>1, OptionsByNumber DEF Chosen
<1>3. ASSUME Chosen # "logoutOrLogin"
      PROVE  Chosen \in {"checkDanger", "checkTriggers", "resetThreshold",
                         "resetLevel", "camera"} \cup Settings
  BY <1>1, <1>3, OptionsByNumber DEF Chosen
<1>4. Active \in Int
  BY DEF IInv, TypeOK, Active, CameraMode, MATCH_NONE
<1> QED
  BY <1>1, <1>2, <1>3, <1>4, NumOptsTyped

-----------------------------------------------------------------------------
(* Its parts, step by step *)

\* The program starts with a guest in front of the menu.
LEMMA InvInit ==
    ASSUME Init
    PROVE  IInv
<1>1. setting \in [Settings -> Nat] /\ \A s \in Settings : setting[s] < NumOpts(s)
  BY MenuAssumption DEF Init, Settings, NumOpts, Toggles
<1>2. timer \in Nat
  <2>1. setting["autoLogout"] + 1 \in 1 .. Len(Timeouts)
    BY MenuAssumption DEF Init
  <2> QED
    BY <2>1, MenuAssumption DEF Init, Timeout
<1>3. sequence \in Seq(Directions) /\ Len(sequence) <= SequenceLimit
  <2>1. <<>> \in Seq(Directions) /\ Len(<<>>) = 0
    OBVIOUS
  <2> QED
    BY <2>1, MenuAssumption DEF Init
<1>4. TypeOK
  <2>1. menu \in StateInfo /\ subMenu \in StateInfo
    BY DEF Init, StateInfo, View, GuestView, MATCH_NONE, GUEST_NUM_OPTIONS
  <2> QED
    BY <1>1, <1>2, <1>3, <2>1, Zenon DEF Init, TypeOK
<1>5. MenuInv
  BY DEF Init, MenuInv, View, GuestView, GUEST_NUM_OPTIONS
<1> QED
  BY <1>4, <1>5 DEF IInv

\* Nobody but the menu thread moves the menu.
LEMMA InvIdle ==
    ASSUME IInv, Stop \/ Tick \/ Others
    PROVE  IInv'
<1> USE DEF IInv, TypeOK
<1>1. CASE Stop
  BY <1>1 DEF Stop, menuVars, sharedVars, MenuInv, Chosen
<1>2. CASE Tick
  BY <1>2 DEF Tick, menuVars, sharedVars, MenuInv, Chosen
<1>3. CASE Others
  <2>1. setting' \in [Settings -> Nat] /\ \A s \in Settings : setting'[s] < NumOpts(s)
    <3>1. ASSUME NEW s \in Settings \cap Shared, NEW v \in 0 .. NumOpts(s) - 1,
                 setting' = [setting EXCEPT ![s] = v]
          PROVE  setting' \in [Settings -> Nat] /\ \A r \in Settings : setting'[r] < NumOpts(r)
      <4>1. NumOpts(s) \in Nat
        BY NumOptsTyped
      <4> QED
        BY <3>1, <4>1
    <3> QED
      BY <1>3, <3>1 DEF Others
  <2>2. TypeOK'
    BY <1>3, <2>1 DEF Others, menuVars
  <2>3. MenuInv'
    BY <1>3 DEF Others, menuVars, MenuInv, Chosen
  <2> QED
    BY <2>2, <2>3
<1> QED
  BY <1>1, <1>2, <1>3

\* Moving through a view, and leaving a sub-menu.
LEMMA InvMove ==
    ASSUME IInv, Up \/ Down \/ LeftOrRight
    PROVE  IInv'
<1> USE DEF IInv, TypeOK
<1>1. timer' \in Nat /\ touched' \in BOOLEAN /\ pc' = "waiting"
  <2>1. setting' = setting
    BY DEF Up, Down, LeftOrRight, sharedVars
  <2> QED
    BY <2>1, TurnTyped DEF Up, Down, LeftOrRight, Settings
<1>2. CASE Up \/ Down
  <2>1. CASE type = "menu"
    <3>1. PICK m \in {NextOpt(menu), PrevOpt(menu)} :
             menu' = m /\ UNCHANGED <<subMenu, type, isLoggedIn, sequence, stopping, sharedVars>>
      BY <1>2, <2>1 DEF Up, Down
    <3>2. menu' \in StateInfo /\ menu'.numOpts = menu.numOpts /\ menu'.currentOpt < menu'.numOpts
      BY <3>1, MoveInRange DEF MenuInv, ADMIN_NUM_OPTIONS, GUEST_NUM_OPTIONS
    <3> QED
      BY <1>1, <2>1, <3>1, <3>2 DEF MenuInv, sharedVars
  <2>2. CASE type = "submenu"
    <3>1. PICK m \in {NextOpt(subMenu), PrevOpt(subMenu)} :
             subMenu' = m /\ UNCHANGED <<menu, type, isLoggedIn, sequence, stopping, sharedVars>>
      BY <1>2, <2>2 DEF Up, Down
    <3>2. /\ subMenu' \in StateInfo /\ subMenu'.numOpts = subMenu.numOpts
          /\ subMenu'.numOpts # 0 => subMenu'.currentOpt < subMenu'.numOpts
      BY <3>1, MoveInRange
    <3>3. pc = "waiting"
      BY <1>2 DEF Up, Down, Pressed
    <3> QED
      BY <1>1, <2>2, <3>1, <3>2, <3>3 DEF MenuInv, sharedVars, Chosen
  <2> QED
    BY <2>1, <2>2
<1>3. CASE LeftOrRight
  BY <1>1, <1>3 DEF LeftOrRight, MenuInv, sharedVars, Chosen, Pressed
<1> QED
  BY <1>2, <1>3

\* Logging in and out, and the end.
LEMMA InvLogin ==
    ASSUME IInv,
           \/ AutoLogout \/ CenterLogout \/ CenterLogin \/ Enter
           \/ Refuse \/ Admit \/ LoginTimeout \/ Exit
    PROVE  IInv'
<1> USE DEF IInv, TypeOK
<1>a. ASSUME NextTurn, setting' = setting
      PROVE  timer' \in Nat /\ touched' \in BOOLEAN /\ pc' = "waiting"
  BY <1>a, TurnTyped DEF Settings
<1>b. GuestView \in StateInfo /\ AdminView \in StateInfo
  BY DEF GuestView, AdminView, View, StateInfo, GUEST_NUM_OPTIONS, ADMIN_NUM_OPTIONS,
         MATCH_ALL, MATCH_NONE
<1>c. /\ GuestView.numOpts = GUEST_NUM_OPTIONS /\ GuestView.currentOpt < GUEST_NUM_OPTIONS
      /\ AdminView.numOpts = ADMIN_NUM_OPTIONS /\ AdminView.currentOpt < ADMIN_NUM_OPTIONS
  BY DEF GuestView, AdminView, View, GUEST_NUM_OPTIONS, ADMIN_NUM_OPTIONS
<1>d. Timeout \in Nat
  <2>1. setting["autoLogout"] \in Nat /\ setting["autoLogout"] < Len(Timeouts)
    BY DEF NumOpts, Settings, Toggles
  <2>2. setting["autoLogout"] + 1 \in 1 .. Len(Timeouts)
    BY <2>1, MenuAssumption
  <2> QED
    BY <2>2, MenuAssumption DEF Timeout
<1>e. <<>> \in Seq(Directions) /\ Len(<<>>) = 0
  OBVIOUS
<1>1. CASE AutoLogout
  <2>1. setting' = setting
    BY <1>1 DEF AutoLogout, sharedVars
  <2> QED
    BY <1>1, <1>a, <1>b, <1>c, <2>1 DEF AutoLogout, Logout, sharedVars, MenuInv
<1>2. CASE CenterLogout
  <2>1. setting' = setting
    BY <1>2 DEF CenterLogout, sharedVars
  <2> QED
    BY <1>2, <1>a, <1>b, <1>c, <2>1 DEF CenterLogout, Logout, sharedVars, MenuInv
<1>3. CASE CenterLogin
  <2>1. menu.currentOpt = 0
    BY <1>3, ChosenTyped DEF CenterLogin
  <2> QED
    BY <1>3, <1>d, <2>1 DEF CenterLogin, sharedVars, MenuInv
<1>4. CASE Enter
  <2>1. sequence' \in Seq(Directions) /\ Len(sequence') <= SequenceLimit
    BY <1>4, MenuAssumption DEF Enter
  <2> QED
    BY <1>4, <1>d, <2>1 DEF Enter, Entered, menuVars, sharedVars, MenuInv
<1>5. CASE Refuse
  <2>1. setting' = setting
    BY <1>5 DEF Refuse, Entered, sharedVars
  <2> QED
    BY <1>5, <1>a, <1>e, <2>1, MenuAssumption DEF Refuse, Entered, sharedVars, MenuInv
<1>6. CASE Admit
  <2>1. setting' = setting
    BY <1>6 DEF Admit, Entered, sharedVars
  <2> QED
    BY <1>6, <1>a, <1>b, <1>c, <1>e, <2>1, MenuAssumption
       DEF Admit, Entered, sharedVars, MenuInv
<1>7. CASE LoginTimeout
  <2>1. setting' = setting
    BY <1>7 DEF LoginTimeout, sharedVars
  <2> QED
    BY <1>7, <1>a, <2>1 DEF LoginTimeout, sharedVars, MenuInv
<1>8. CASE Exit
  BY <1>8 DEF Exit, menuVars, sharedVars, MenuInv
<1> QED
  BY <1>1, <1>2, <1>3, <1>4, <1>5, <1>6, <1>7, <1>8

\* Opening a sub-menu: a fresh place among the options of what was chosen.
LEMMA InvOpen ==
    ASSUME IInv, Open
    PROVE  IInv'
<1> USE DEF IInv, TypeOK
<1>1. setting' = setting /\ Chosen' = Chosen
  BY DEF Open, sharedVars, Chosen
<1>2. timer' \in Nat /\ touched' \in BOOLEAN /\ pc' = "waiting"
  BY <1>1, TurnTyped DEF Open, Settings
<1>3. menu.currentOpt # 0 /\ NumOpts(Chosen) \in Nat /\ Active \in Int
  BY ChosenTyped DEF Open
<1>4. /\ subMenu' \in StateInfo
      /\ subMenu'.numOpts = NumOpts(Chosen)
      /\ subMenu'.numOpts # 0 => subMenu'.currentOpt < subMenu'.numOpts
  <2>1. CASE NumOpts(Chosen) = 0
    BY <2>1, MenuAssumption DEF Open, View, StateInfo, MATCH_NONE
  <2>2. CASE NumOpts(Chosen) # 0
    BY <1>3, <2>2 DEF Open, View, StateInfo
  <2> QED
    BY <2>1, <2>2
<1> QED
  BY <1>1, <1>2, <1>3, <1>4 DEF Open, sharedVars, MenuInv

\* What is pressed in a sub-menu that stays open is one of its options.
LEMMA PressedOption ==
    ASSUME IInv, NEW option \in Settings \cup {"camera"}, Acting(option)
    PROVE  subMenu.currentOpt \in 0 .. NumOpts(option) - 1
<1>1. NumOpts(option) > 0 /\ NumOpts(option) \in Nat
  <2>1. CASE option = "camera"
    BY <2>1 DEF NumOpts, Toggles
  <2>2. CASE option \in Settings
    BY <2>2, NumOptsTyped
  <2> QED
    BY <2>1, <2>2
<1> QED
  BY <1>1 DEF IInv, TypeOK, MenuInv, Acting, Pressed, StateInfo

\* Acting in a sub-menu.
LEMMA InvAct ==
    ASSUME IInv,
           \/ \E option \in Toggles : Toggle(option)
           \/ \E option \in Settings \ Toggles : Set(option)
           \/ ResetThreshold \/ ResetLevel \/ Nothing
           \/ Trigger \/ CallCamera \/ CameraReturns
    PROVE  IInv'
<1> USE DEF IInv, TypeOK
<1>a. ASSUME NextTurn, setting' \in [Settings -> Nat],
             \A s \in Settings : setting'[s] < NumOpts(s)
      PROVE  timer' \in Nat /\ touched' \in BOOLEAN /\ pc' = "waiting"
  BY <1>a, TurnTyped DEF Settings
<1>b. ASSUME Mark
      PROVE  /\ subMenu' \in StateInfo
             /\ subMenu'.numOpts = subMenu.numOpts
             /\ subMenu'.currentOpt = subMenu.currentOpt
  BY <1>b DEF Mark, StateInfo
<1>1. ASSUME NEW option \in Toggles, Toggle(option)
      PROVE  IInv'
  <2>1. NumOpts(option) = 2 /\ option \in Settings
    BY DEF NumOpts, Toggles, Settings
  <2>2. setting[option] \in 0 .. 1
    BY <2>1
  <2>3. setting' \in [Settings -> Nat] /\ \A s \in Settings : setting'[s] < NumOpts(s)
    BY <1>1, <2>1, <2>2 DEF Toggle
  <2> QED
    BY <1>a, <1>b, <1>1, <2>3 DEF Toggle, MenuInv, Chosen, Acting, Pressed
<1>2. ASSUME NEW option \in Settings \ Toggles, Set(option)
      PROVE  IInv'
  <2>1. subMenu.currentOpt \in 0 .. NumOpts(option) - 1 /\ NumOpts(option) \in Nat
    BY <1>2, PressedOption, NumOptsTyped DEF Set
  <2>2. setting' \in [Settings -> Nat] /\ \A s \in Settings : setting'[s] < NumOpts(s)
    BY <1>2, <2>1 DEF Set
  <2> QED
    BY <1>a, <1>b, <1>2, <2>2 DEF Set, MenuInv, Chosen, Acting, Pressed
<1>3. CASE ResetThreshold
  <2>1. DefaultThreshold < NumOpts("dangerThreshold")
    BY MenuAssumption DEF NumOpts, Toggles
  <2>2. setting' \in {setting, [setting EXCEPT !["dangerThreshold"] = DefaultThreshold]}
    BY <1>3 DEF ResetThreshold
  <2>3. DefaultThreshold \in Nat
    BY MenuAssumption
  <2>4. setting' \in [Settings -> Nat] /\ \A s \in Settings : setting'[s] < NumOpts(s)
    BY <2>1, <2>2, <2>3
  <2> QED
    BY <1>a, <1>3, <2>4 DEF ResetThreshold, MenuInv, Chosen
<1>4. CASE ResetLevel
  <2>1. dangerRaised' \in BOOLEAN
    BY <1>4 DEF ResetLevel
  <2> QED
    BY <1>a, <1>4, <2>1 DEF ResetLevel, MenuInv, Chosen
<1>5. CASE Nothing
  BY <1>a, <1>5 DEF Nothing, menuVars, sharedVars, MenuInv, Chosen, Acting, Pressed
<1>6. CASE Trigger
  BY <1>a, <1>b, <1>6 DEF Trigger, MenuInv, Chosen, Acting, Pressed
<1>7. CASE CallCamera
  <2>1. isLoggedIn
    BY <1>7, GuestOnlyLooks DEF CallCamera
  <2> QED
    BY <1>7, <2>1 DEF CallCamera, menuVars, MenuInv, Chosen, Acting, Pressed
<1>8. CASE CameraReturns
  <2>1. isCameraOn' \in BOOLEAN
    BY <1>8 DEF CameraReturns
  <2>2. /\ subMenu' \in StateInfo
        /\ subMenu'.numOpts = subMenu.numOpts
        /\ subMenu'.currentOpt = subMenu.currentOpt
    BY <1>b, <1>8 DEF CameraReturns
  <2> QED
    BY <1>a, <1>8, <2>1, <2>2 DEF CameraReturns, MenuInv, Chosen
<1> QED
  BY <1>1, <1>2, <1>3, <1>4, <1>5, <1>6, <1>7, <1>8

LEMMA InvNext ==
    ASSUME IInv, [Next]_vars
    PROVE  IInv'
<1>1. CASE UNCHANGED vars
  BY <1>1 DEF vars, menuVars, sharedVars, IInv, TypeOK, MenuInv, Chosen
<1>2. CASE Next
  BY <1>2, InvIdle, InvMove, InvLogin, InvOpen, InvAct DEF Next, Input
<1> QED
  BY <1>1, <1>2

-----------------------------------------------------------------------------
(* Theorems *)

\* Every variable keeps its type: no option is out of range, and the sequence of
\* passwordInput.c never outgrows its buffer.
THEOREM TypeCorrect == Spec => []TypeOK
<1>1. IInv => TypeOK
  BY DEF IInv
<1> QED
  BY <1>1, InvInit, InvNext, PTL DEF Spec

\* The assertions of menu.c hold, whatever is pressed when and whatever others
\* change meanwhile.
THEOREM AssertsHold == Spec => []NoAssertFails
<1>1. IInv => NoAssertFails
  <2>1. Len(Options) = ADMIN_NUM_OPTIONS
    BY DEF Options, ADMIN_NUM_OPTIONS
  <2>2. NumOpts("autoLogout") > 0 /\ NumOpts("securityPolicy") > 0
    BY NumOptsTyped DEF Settings
  <2> QED
    BY <2>1, <2>2, ChosenTyped DEF IInv, TypeOK, MenuInv, NoAssertFails, StateInfo,
       ADMIN_NUM_OPTIONS
<1> QED
  BY <1>1, InvInit, InvNext, PTL DEF Spec

\* What the menu changes, it changes for a user who is logged in.
THEOREM GuestsChangeNothing == Spec => AdminOnly
<1>1. IInv /\ [Next]_vars => [Others \/ isLoggedIn \/ UNCHANGED sharedVars]_vars
  <2> SUFFICES ASSUME IInv, Next, ~Others, ~isLoggedIn
               PROVE  UNCHANGED sharedVars
    OBVIOUS
  <2>1. ASSUME NEW option \in Toggles, Toggle(option)
        PROVE  FALSE
    BY <2>1, GuestOnlyLooks DEF Toggle, Toggles
  <2>2. ASSUME NEW option \in Settings \ Toggles, Set(option)
        PROVE  FALSE
    BY <2>2, GuestOnlyLooks DEF Set, Settings
  <2>3. ~ResetThreshold /\ ~ResetLevel /\ ~Trigger /\ ~CallCamera
    BY GuestOnlyLooks DEF ResetThreshold, ResetLevel, Trigger, CallCamera
  <2>4. ~CameraReturns
    BY DEF CameraReturns, IInv, MenuInv
  <2> QED
    BY <2>1, <2>2, <2>3, <2>4
       DEF Next, Input, Up, Down, LeftOrRight, CenterLogout, CenterLogin, Enter,
           Refuse, Admit, Entered, Open, Nothing, AutoLogout, LoginTimeout, Exit,
           Stop, Tick
<1> QED
  BY <1>1, InvInit, InvNext, PTL DEF Spec, AdminOnly

\* The mark of a sub-menu that shows a setting.  IndicatorTrue is inductive with
\* IInv because the menu thread only ever waits in such a sub-menu: a login is
\* made from option 0 and a camera call from the camera's sub-menu.
LEMMA MarkKept ==
    ASSUME IInv, IndicatorTrue, [Next]_vars
    PROVE  IndicatorTrue'
<1> SUFFICES ASSUME pc' = "waiting", type' = "submenu", ~touched', Chosen' \in Settings
             PROVE  subMenu'.selectedOpt = Active'
  BY DEF IndicatorTrue
<1>a. Chosen' # "camera" /\ Chosen' # "logoutOrLogin"
  BY DEF Settings
<1>b. Active' = setting'[Chosen']
  BY <1>a DEF Active
<1>c. ASSUME Chosen' = Chosen, pc = "waiting", type = "submenu", ~touched
      PROVE  subMenu.selectedOpt = setting[Chosen]
  BY <1>a, <1>c DEF IndicatorTrue, Active
<1>d. ASSUME NextTurn, type = "submenu"
      PROVE  ~touched
  BY <1>d DEF NextTurn
<1>1. ASSUME Up \/ Down
      PROVE  subMenu'.selectedOpt = Active'
  <2>1. pc = "waiting" /\ type = "submenu" /\ ~touched
    BY <1>1, <1>d DEF Up, Down, Pressed
  <2>2. UNCHANGED <<menu, setting>> /\ subMenu' \in {NextOpt(subMenu), PrevOpt(subMenu)}
    BY <1>1, <2>1 DEF Up, Down, sharedVars
  <2>3. subMenu'.selectedOpt = subMenu.selectedOpt
    BY <2>2 DEF NextOpt, PrevOpt, IInv, TypeOK, StateInfo
  <2> QED
    BY <1>b, <1>c, <2>1, <2>2, <2>3 DEF Chosen
<1>2. ASSUME Open
      PROVE  subMenu'.selectedOpt = Active'
  <2>1. UNCHANGED <<menu, setting>>
    BY <1>2 DEF Open, sharedVars
  <2>2. Chosen' = Chosen /\ Chosen \in Settings
    BY <2>1 DEF Chosen
  <2>3. subMenu'.selectedOpt = Active
    <3>1. NumOpts(Chosen) # 0
      <4>1. \A o \in Settings : NumOpts(o) # 0
        <5>1. ASSUME NEW o \in Settings
              PROVE  NumOpts(o) > 0 /\ NumOpts(o) \in Nat
          BY NumOptsTyped
        <5> QED
          BY <5>1
      <4> QED
        BY <2>2, <4>1
    <3>2. subMenu' = [currentOpt |-> 0, numOpts |-> NumOpts(Chosen), selectedOpt |-> Active]
      BY <1>2, <3>1 DEF Open, View
    <3> QED
      BY <3>2
  <2>4. Active = setting[Chosen]
    BY <1>a, <2>2 DEF Active
  <2> QED
    BY <1>b, <2>1, <2>2, <2>3, <2>4
<1>3. ASSUME NEW option \in Toggles, Toggle(option)
      PROVE  subMenu'.selectedOpt = Active'
  <2>1. /\ Chosen = option /\ Chosen' = option
        /\ pc = "waiting" /\ type = "submenu" /\ ~touched
    BY <1>3, <1>d DEF Toggle, Acting, Pressed, Chosen
  <2>2. subMenu.selectedOpt = setting[option]
    BY <1>c, <2>1
  <2>3. option \in Settings /\ NumOpts(option) = 2
    BY DEF Toggles, Settings, NumOpts
  <2>4. setting[option] \in 0 .. 1 /\ subMenu.currentOpt \in 0 .. 1
    BY <1>3, <2>3, PressedOption DEF IInv, TypeOK, Toggle
  <2>5. setting'[option] = subMenu.currentOpt
    BY <1>3, <2>2, <2>3, <2>4 DEF Toggle, IInv, TypeOK
  <2>6. subMenu'.selectedOpt = subMenu.currentOpt
    BY <1>3 DEF Toggle, Mark, IInv, TypeOK, StateInfo
  <2> QED
    BY <1>b, <2>1, <2>5, <2>6
<1>4. ASSUME NEW option \in Settings \ Toggles, Set(option)
      PROVE  subMenu'.selectedOpt = Active'
  <2>1. Chosen' = option
    BY <1>4 DEF Set, Acting, Chosen
  <2>2. setting'[option] = subMenu.currentOpt
    BY <1>4 DEF Set, IInv, TypeOK
  <2>3. subMenu'.selectedOpt = subMenu.currentOpt
    BY <1>4 DEF Set, Mark, IInv, TypeOK, StateInfo
  <2> QED
    BY <1>b, <2>1, <2>2, <2>3
<1>5. ASSUME LeftOrRight \/ Nothing \/ Stop \/ Tick \/ UNCHANGED vars
      PROVE  subMenu'.selectedOpt = Active'
  <2>1. UNCHANGED <<menu, subMenu, setting>>
    BY <1>5 DEF LeftOrRight, Nothing, Stop, Tick, vars, menuVars, sharedVars
  <2>2. pc = "waiting" /\ type = "submenu" /\ ~touched
    BY <1>5, <1>d DEF LeftOrRight, Nothing, Acting, Pressed, Stop, Tick, vars, menuVars
  <2> QED
    BY <1>b, <1>c, <2>1, <2>2 DEF Chosen
<1>6. ~Trigger /\ ~CallCamera /\ ~CameraReturns
  BY <1>a DEF Trigger, CallCamera, CameraReturns, Acting, Chosen, IInv, MenuInv
<1>7. ~AutoLogout /\ ~CenterLogout /\ ~Refuse /\ ~Admit /\ ~LoginTimeout
      /\ ~ResetThreshold /\ ~ResetLevel
  BY DEF AutoLogout, CenterLogout, Logout, Refuse, Admit, LoginTimeout, ResetThreshold,
         ResetLevel
<1>8. ~CenterLogin /\ ~Enter /\ ~Exit
  BY DEF CenterLogin, Enter, Entered, Exit
<1>9. ~Others
  BY DEF Others, menuVars
<1> QED
  BY <1>1, <1>2, <1>3, <1>4, <1>5, <1>6, <1>7, <1>8, <1>9 DEF Next, Input

\* The decimal point of a sub-menu marks the setting in effect, through any
\* moving, setting and toggling, unless somebody else has changed something since
\* the view was opened (menu.c mainloop; doFromSubMenu marks what it sets).
THEOREM MarkTellsTheTruth == Spec => []IndicatorTrue
<1>1. Init => IndicatorTrue
  BY DEF Init, IndicatorTrue
<1>2. IInv /\ IndicatorTrue /\ [Next]_vars => IndicatorTrue'
  BY MarkKept
<1> QED
  BY <1>1, <1>2, InvInit, InvNext, PTL DEF Spec
=============================================================================

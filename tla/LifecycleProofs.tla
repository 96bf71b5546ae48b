--------------------------- MODULE LifecycleProofs ---------------------------
(***************************************************************************)
(* Proofs about Lifecycle, for any values of settings, password and        *)
(* pattern, any number of runs and either fault: no thread is in a module  *)
(* that is not up, what was set is what the next run finds, and files are  *)
(* written when nobody is left who could change what they hold.            *)
(*                                                                         *)
(* The argument is by main's place in Program.  The invariants say between *)
(* which of its 37 steps a thread may run and a module is up; a thread's   *)
(* are within those of the modules it uses.                                *)
(***************************************************************************)
EXTENDS Lifecycle, TLAPS

----------------------------------------------------------------------------
(* The program, step by step *)

LEMMA ProgramLength == Len(Program) = 37 /\ Serving = 16
  BY DEF Program, StartUp, ShutDown, ReleaseCamera, StopThread, ReleaseRest, Save, Serving

\* Where each operation is carried out, in Controller_start, main and Controller_stop.
LEMMA Places ==
    ASSUME TypeOK, NEW x
    PROVE  /\ Doing("init", x) =>
                \/ at = 1 /\ x = "http"
                \/ at = 5 /\ x = "joystick"
                \/ at = 6 /\ x = "sensor"
                \/ at = 7 /\ x = "buzzer"
                \/ at = 8 /\ x = "display"
                \/ at = 14 /\ x = "camera"
                \/ at = 15 /\ x = "server"
           /\ Doing("load", x) =>
                \/ at = 2 /\ x = "settings"
                \/ at = 3 /\ x = "password"
                \/ at = 4 /\ x = "pattern"
           /\ Doing("start", x) =>
                \/ at = 9 /\ x = "led"
                \/ at = 10 /\ x = "analyzer"
                \/ at = 11 /\ x = "menu"
                \/ at = 12 /\ x = "mfa"
                \/ at = 13 /\ x = "stream"
           /\ Doing("serve", x) => at = 16
           /\ Doing("cleanup", x) =>
                \/ at = 17 /\ x = "server"
                \/ at = 18 /\ x = "camera"
                \/ at = 29 /\ x = "display"
                \/ at = 30 /\ x = "buzzer"
                \/ at = 37 /\ x = "http"
           /\ Doing("tell", x) => at \in {19, 21, 23, 25, 27}
           /\ Doing("join", x) =>
                \/ at = 20 /\ x = "stream"
                \/ at = 22 /\ x = "mfa"
                \/ at = 24 /\ x = "menu"
                \/ at = 26 /\ x = "analyzer"
                \/ at = 28 /\ x = "led"
           /\ Doing("open", x) =>
                \/ at = 31 /\ x = "password"
                \/ at = 33 /\ x = "pattern"
                \/ at = 35 /\ x = "settings"
           /\ Doing("write", x) =>
                \/ at = 32 /\ x = "password"
                \/ at = 34 /\ x = "pattern"
                \/ at = 36 /\ x = "settings"
<1>1. CASE at = 0
  BY <1>1 DEF Doing
<1>2. CASE at # 0
  <2>1. at \in 1..37
    BY <1>2, ProgramLength DEF TypeOK
  <2> QED
    BY <2>1 DEF Doing, Program, StartUp, ShutDown, ReleaseCamera, StopThread, ReleaseRest, Save
<1> QED
  BY <1>1, <1>2

LEMMA UsesAre ==
    /\ Uses["led"] = {"display"} /\ Uses["analyzer"] = {"settings", "buzzer", "http"}
    /\ Uses["menu"] = {"pattern", "settings", "camera"}
    /\ Uses["mfa"] = {} /\ Uses["stream"] = {"camera"}
    /\ Uses["main"] = {"settings", "password", "pattern", "camera"}
    /\ Sets["menu"] = {"settings"} /\ Sets["main"] = Items /\ DOMAIN Sets = {"menu", "main"}
  BY DEF Uses, Sets

----------------------------------------------------------------------------
(* The invariant *)

\* A thread runs from the step after the one that starts it, at the latest until
\* the one that waits for it.
RunInv ==
    /\ "led" \in running => at \in 10..28
    /\ "analyzer" \in running => at \in 11..26
    /\ "menu" \in running => at \in 12..24
    /\ "mfa" \in running => at \in 13..22
    /\ "stream" \in running => at \in 14..20

UpInv ==
    /\ at \in 2..37 => "http" \in up
    /\ at \in 8..30 => "buzzer" \in up
    /\ at \in 9..29 => "display" \in up
    /\ at \in 15..18 => "camera" \in up
    /\ "settings" \in up <=> at \in 3..36
    /\ "password" \in up <=> at \in 4..32
    /\ "pattern" \in up <=> at \in 5..34

CallInv ==
    \A t \in Threads \cup {"main"} :
        calls[t] # "none" =>
            /\ calls[t] \in Uses[t]
            /\ t \in running \/ (t = "main" /\ at = 16)

\* What is not in memory any more, or not yet, is in its file.
MemInv ==
    \A i \in Items :
        /\ i \in up => mem[i] = last[i]
        /\ i \notin up => last[i] = AsLoaded(file[i])

LEMMA LoadedTyped ==
    /\ \A c \in Values \cup {Unset, "absent", "empty"} : AsLoaded(c) \in Values \cup {Unset}
    /\ \A c \in Values \cup {Unset} : AsLoaded(c) = c
  BY LifecycleAssumption DEF AsLoaded

----------------------------------------------------------------------------
(* Types *)

LEMMA DieTyped ==
    ASSUME TypeOK, Die
    PROVE  TypeOK'
<1>1. at' = 0 /\ 0 \in 0..Len(Program)
  BY ProgramLength DEF Die
<1>2. calls' \in [Threads \cup {"main"} -> Modules \cup {"none"}]
  BY DEF Die, TypeOK
<1>3. /\ mem' \in [Items -> Values \cup {Unset}] /\ last' \in [Items -> Values \cup {Unset}]
      /\ file' = file
  BY LoadedTyped DEF Die, TypeOK
<1> QED
  BY <1>1, <1>2, <1>3 DEF Die, TypeOK

LEMMA AdvanceTyped ==
    ASSUME TypeOK, Advance
    PROVE  at' \in 0..Len(Program) /\ at' = IF at = 37 THEN 0 ELSE at + 1
  BY ProgramLength DEF TypeOK, Advance

LEMMA TypesKept ==
    ASSUME TypeOK, [Next]_vars
    PROVE  TypeOK'
<1>1. ASSUME NEW m \in Modules, InitModule(m) \/ Cleanup(m)
      PROVE  TypeOK'
  BY <1>1, AdvanceTyped DEF InitModule, Cleanup, TypeOK
<1>2. ASSUME NEW i \in Items, Load(i)
      PROVE  TypeOK'
  <2>1. AsLoaded(file[i]) \in Values \cup {Unset}
    BY LoadedTyped DEF TypeOK
  <2>2. mem' \in [Items -> Values \cup {Unset}]
    BY <1>2, <2>1 DEF Load, TypeOK
  <2>3. up' \subseteq Modules
    BY <1>2 DEF Load, TypeOK, Modules
  <2> QED
    BY <1>2, <2>2, <2>3, AdvanceTyped DEF Load, TypeOK
<1>3. ASSUME NEW i \in Items, Open(i) \/ Write(i)
      PROVE  TypeOK'
  <2>1. file' \in [Items -> Values \cup {Unset, "absent", "empty"}]
    BY <1>3 DEF Open, Write, TypeOK
  <2> QED
    BY <1>3, <2>1, AdvanceTyped DEF Open, Write, TypeOK
<1>4. ASSUME NEW i \in Items, OpenFails(i)
      PROVE  TypeOK'
  <2>1. CASE i = "settings"
    <3>1. at = 35 /\ at' = at + 2
      BY <1>4, <2>1, ProgramLength, Places DEF OpenFails
    <3>2. at' \in 0..Len(Program)
      BY <3>1, ProgramLength
    <3>3. last' \in [Items -> Values \cup {Unset}]
      <4>1. AsLoaded(file[i]) \in Values \cup {Unset}
        BY LoadedTyped DEF TypeOK
      <4>2. last' = [last EXCEPT ![i] = AsLoaded(file[i])]
        BY <1>4, <2>1 DEF OpenFails
      <4> QED
        BY <4>1, <4>2 DEF TypeOK
    <3>4. up' \subseteq up /\ UNCHANGED <<running, told, calls, mem, file>>
      BY <1>4, <2>1 DEF OpenFails
    <3> QED
      BY <3>2, <3>3, <3>4 DEF TypeOK
  <2>2. CASE i # "settings"
    BY <1>4, <2>2, DieTyped DEF OpenFails
  <2> QED
    BY <2>1, <2>2
<1>5. ASSUME NEW t \in Threads, Start(t) \/ Tell(t) \/ Join(t)
      PROVE  TypeOK'
  BY <1>5, AdvanceTyped DEF Start, Tell, Join, TypeOK
<1>6. CASE Stop
  BY <1>6, AdvanceTyped DEF Stop, TypeOK
<1>7. CASE Crash
  BY <1>7, DieTyped DEF Crash
<1>8. CASE Restart
  BY <1>8, ProgramLength DEF Restart, TypeOK
<1>9. ASSUME NEW t \in Threads \cup {"main"}, Call(t)
      PROVE  TypeOK'
  <2>1. PICK m \in Uses[t] : calls' = [calls EXCEPT ![t] = m]
    BY <1>9 DEF Call
  <2>2. m \in Modules
    BY <2>1, UsesAre DEF Threads, Modules, Items
  <2> QED
    BY <1>9, <2>1, <2>2 DEF Call, TypeOK
<1>10. ASSUME NEW t \in Threads \cup {"main"}, Return(t)
       PROVE  TypeOK'
  <2>1. calls' \in [Threads \cup {"main"} -> Modules \cup {"none"}]
        /\ UNCHANGED <<at, up, running, told, file>>
    BY <1>10 DEF Return, TypeOK
  <2>2. mem' \in [Items -> Values \cup {Unset}] /\ last' \in [Items -> Values \cup {Unset}]
    BY <1>10 DEF Return, TypeOK
  <2> QED
    BY <2>1, <2>2 DEF TypeOK
<1>11. ASSUME NEW t \in Threads, End(t)
       PROVE  TypeOK'
  BY <1>11 DEF End, TypeOK
<1>12. CASE UNCHANGED vars
  BY <1>12 DEF vars, TypeOK
<1> QED
  BY <1>1, <1>2, <1>3, <1>4, <1>5, <1>6, <1>7, <1>8, <1>9, <1>10, <1>11, <1>12
  DEF Next, MainStep

\* Every variable keeps its type: main never leaves the program, and what is loaded
\* from a file that is absent or empty is what the compiler left (Settings_init and
\* PasswordManager_init read into static variables).
THEOREM TypeCorrect == Spec => []TypeOK
<1>1. Init => TypeOK
  <2> SUFFICES ASSUME Init
               PROVE  TypeOK
    OBVIOUS
  <2>1. file \in [Items -> Values \cup {Unset, "absent", "empty"}]
    BY DEF Init
  <2>2. last \in [Items -> Values \cup {Unset}]
    BY <2>1, LoadedTyped DEF Init
  <2> QED
    BY <2>1, <2>2, ProgramLength DEF Init, TypeOK
<1>2. TypeOK /\ [Next]_vars => TypeOK'
  BY TypesKept
<1> QED
  BY <1>1, <1>2, PTL DEF Spec

----------------------------------------------------------------------------
(* Who runs, and what is up *)

LEMMA RunKept ==
    ASSUME TypeOK, RunInv, [Next]_vars
    PROVE  RunInv'
<1>1. ASSUME NEW m \in Modules, InitModule(m)
      PROVE  RunInv'
  <2>1. at \in {1, 5, 6, 7, 8, 14, 15} /\ at' = at + 1 /\ running' = running
    BY <1>1, Places, AdvanceTyped DEF InitModule
  <2> QED
    BY <2>1 DEF RunInv
<1>2. ASSUME NEW m \in Modules, Cleanup(m)
      PROVE  RunInv'
  <2>1. at \in {17, 18, 29, 30, 37} /\ running' = running
        /\ at' = IF at = 37 THEN 0 ELSE at + 1
    BY <1>2, Places, AdvanceTyped DEF Cleanup
  <2> QED
    BY <2>1 DEF RunInv
<1>3. ASSUME NEW i \in Items, Load(i) \/ Open(i) \/ Write(i)
      PROVE  RunInv'
  <2>1. at \in {2, 3, 4, 31, 32, 33, 34, 35, 36} /\ at' = at + 1 /\ running' = running
    BY <1>3, Places, AdvanceTyped DEF Load, Open, Write
  <2> QED
    BY <2>1 DEF RunInv
<1>4. ASSUME NEW i \in Items, OpenFails(i)
      PROVE  RunInv'
  <2>1. CASE i = "settings"
    <3>1. at = 35 /\ running' = running /\ at' = 37
      BY <1>4, <2>1, Places DEF OpenFails
    <3> QED
      BY <3>1 DEF RunInv
  <2>2. CASE i # "settings"
    BY <1>4, <2>2 DEF OpenFails, Die, RunInv
  <2> QED
    BY <2>1, <2>2
<1>5. ASSUME NEW t \in Threads, Start(t)
      PROVE  RunInv'
  <2>1. /\ running' = running \cup {t} /\ at' = at + 1
        /\ \/ at = 9 /\ t = "led"
           \/ at = 10 /\ t = "analyzer"
           \/ at = 11 /\ t = "menu"
           \/ at = 12 /\ t = "mfa"
           \/ at = 13 /\ t = "stream"
    BY <1>5, Places, AdvanceTyped DEF Start
  <2> QED
    BY <2>1 DEF RunInv
<1>6. ASSUME NEW t \in Threads, Tell(t)
      PROVE  RunInv'
  <2>1. at \in {19, 21, 23, 25, 27} /\ at' = at + 1 /\ running' = running
    BY <1>6, Places, AdvanceTyped DEF Tell
  <2> QED
    BY <2>1 DEF RunInv
<1>7. ASSUME NEW t \in Threads, Join(t)
      PROVE  RunInv'
  <2>1. /\ t \notin running /\ running' = running /\ at' = at + 1
        /\ \/ at = 20 /\ t = "stream"
           \/ at = 22 /\ t = "mfa"
           \/ at = 24 /\ t = "menu"
           \/ at = 26 /\ t = "analyzer"
           \/ at = 28 /\ t = "led"
    BY <1>7, Places, AdvanceTyped DEF Join
  <2> QED
    BY <2>1 DEF RunInv
<1>8. CASE Stop
  <2>1. at = 16 /\ at' = 17 /\ running' = running
    BY <1>8, Places, AdvanceTyped DEF Stop
  <2> QED
    BY <2>1 DEF RunInv
<1>9. CASE Crash
  BY <1>9 DEF Crash, Die, RunInv
<1>10. CASE Restart
  BY <1>10 DEF Restart, RunInv
<1>11. ASSUME NEW t \in Threads \cup {"main"}, Call(t) \/ Return(t)
       PROVE  RunInv'
  BY <1>11 DEF Call, Return, RunInv
<1>12. ASSUME NEW t \in Threads, End(t)
       PROVE  RunInv'
  BY <1>12 DEF End, RunInv
<1>13. CASE UNCHANGED vars
  BY <1>13 DEF vars, RunInv
<1> QED
  BY <1>1, <1>2, <1>3, <1>4, <1>5, <1>6, <1>7, <1>8, <1>9, <1>10, <1>11, <1>12, <1>13
  DEF Next, MainStep

LEMMA UpKept ==
    ASSUME TypeOK, UpInv, [Next]_vars
    PROVE  UpInv'
<1>1. ASSUME NEW m \in Modules, InitModule(m)
      PROVE  UpInv'
  <2>1. /\ up' = up \cup {m} /\ at' = at + 1
        /\ \/ at = 1 /\ m = "http"
           \/ at = 5 /\ m = "joystick"
           \/ at = 6 /\ m = "sensor"
           \/ at = 7 /\ m = "buzzer"
           \/ at = 8 /\ m = "display"
           \/ at = 14 /\ m = "camera"
           \/ at = 15 /\ m = "server"
    BY <1>1, Places, AdvanceTyped DEF InitModule
  <2> QED
    BY <2>1 DEF UpInv
<1>2. ASSUME NEW m \in Modules, Cleanup(m)
      PROVE  UpInv'
  <2>1. /\ up' = up \ {m} /\ at' = IF at = 37 THEN 0 ELSE at + 1
        /\ \/ at = 17 /\ m = "server"
           \/ at = 18 /\ m = "camera"
           \/ at = 29 /\ m = "display"
           \/ at = 30 /\ m = "buzzer"
           \/ at = 37 /\ m = "http"
    BY <1>2, Places, AdvanceTyped DEF Cleanup
  <2> QED
    BY <2>1 DEF UpInv
<1>3. ASSUME NEW i \in Items, Load(i)
      PROVE  UpInv'
  <2>1. /\ up' = up \cup {i} /\ at' = at + 1
        /\ \/ at = 2 /\ i = "settings"
           \/ at = 3 /\ i = "password"
           \/ at = 4 /\ i = "pattern"
    BY <1>3, Places, AdvanceTyped DEF Load
  <2> QED
    BY <2>1 DEF UpInv
<1>4. ASSUME NEW i \in Items, Write(i)
      PROVE  UpInv'
  <2>1. /\ up' = up \ {i} /\ at' = at + 1
        /\ \/ at = 32 /\ i = "password"
           \/ at = 34 /\ i = "pattern"
           \/ at = 36 /\ i = "settings"
    BY <1>4, Places, AdvanceTyped DEF Write
  <2> QED
    BY <2>1 DEF UpInv
<1>5. ASSUME NEW i \in Items, OpenFails(i)
      PROVE  UpInv'
  <2>1. CASE i = "settings"
    <3>1. at = 35 /\ up' = up \ {"settings"} /\ at' = 37
      BY <1>5, <2>1, Places DEF OpenFails
    <3> QED
      BY <3>1 DEF UpInv
  <2>2. CASE i # "settings"
    BY <1>5, <2>2 DEF OpenFails, Die, UpInv
  <2> QED
    BY <2>1, <2>2
<1>6. CASE Stop \/ (\E i \in Items : Open(i)) \/ \E t \in Threads : Start(t) \/ Tell(t) \/ Join(t)
  <2>1. up' = up /\ at' = at + 1
        /\ at \in {9, 10, 11, 12, 13, 16, 19, 20, 21, 22, 23, 24, 25, 26, 27, 28, 31, 33, 35}
    BY <1>6, Places, AdvanceTyped DEF Stop, Open, Start, Tell, Join
  <2> QED
    BY <2>1 DEF UpInv
<1>7. CASE Crash \/ Restart
  BY <1>7 DEF Crash, Restart, Die, UpInv
<1>8. CASE \/ \E t \in Threads \cup {"main"} : Call(t) \/ Return(t)
           \/ \E t \in Threads : End(t)
           \/ UNCHANGED vars
  BY <1>8 DEF Call, Return, End, vars, UpInv
<1> QED
  BY <1>1, <1>2, <1>3, <1>4, <1>5, <1>6, <1>7, <1>8 DEF Next, MainStep

\* A caller keeps running while its call lasts, and main does not stop inside one.
LEMMA CallKept ==
    ASSUME TypeOK, CallInv, [Next]_vars
    PROVE  CallInv'
<1>1. ASSUME NEW op, NEW x, Doing(op, x), op \in {"init", "load", "start", "cleanup", "tell",
             "join", "open", "write"}
      PROVE  at # 16
  BY <1>1, Places
<1>2. CASE MainStep /\ ~Die
  <2>1. running \subseteq running' /\ calls' = calls
    BY <1>2 DEF MainStep, InitModule, Cleanup, Load, Open, Write, OpenFails, Start, Tell, Join
  <2>2. at # 16
    BY <1>1, <1>2 DEF MainStep, InitModule, Cleanup, Load, Open, Write, OpenFails, Start, Tell, Join
  <2> QED
    BY <2>1, <2>2 DEF CallInv
<1>3. CASE Die
  BY <1>3 DEF Die, CallInv, TypeOK
<1>4. CASE Stop
  BY <1>4 DEF Stop, CallInv
<1>5. CASE Restart
  BY <1>5 DEF Restart, CallInv
<1>6. ASSUME NEW t \in Threads \cup {"main"}, Call(t)
      PROVE  CallInv'
  <2>1. PICK m \in Uses[t] : calls' = [calls EXCEPT ![t] = m]
    BY <1>6 DEF Call
  <2>2. t \in running \/ (t = "main" /\ at = 16)
    BY <1>6, Places DEF Call, Active
  <2>3. UNCHANGED <<at, running>>
    BY <1>6 DEF Call
  <2> QED
    BY <2>1, <2>2, <2>3 DEF CallInv, TypeOK
<1>7. ASSUME NEW t \in Threads \cup {"main"}, Return(t)
      PROVE  CallInv'
  BY <1>7 DEF Return, CallInv, TypeOK
<1>8. ASSUME NEW t \in Threads, End(t)
      PROVE  CallInv'
  BY <1>8 DEF End, CallInv
<1>9. CASE UNCHANGED vars
  BY <1>9 DEF vars, CallInv
<1> QED
  BY <1>2, <1>3, <1>4, <1>5, <1>6, <1>7, <1>8, <1>9 DEF Next, Crash

\* A call is to a module that is up, but for the camera.
LEMMA CallsAreReady ==
    ASSUME TypeOK, RunInv, UpInv, CallInv, NEW t \in Threads \cup {"main"}, calls[t] # "none"
    PROVE  \/ calls[t] \in up
           \/ calls[t] = "camera" /\ t \in {"menu", "stream"}
<1>1. calls[t] \in Uses[t] /\ (t \in running \/ (t = "main" /\ at = 16))
  BY DEF CallInv
<1>2. running \subseteq Threads
  BY DEF TypeOK
<1>3. CASE t = "main"
  <2>1. at = 16 /\ calls[t] \in {"settings", "password", "pattern", "camera"}
    BY <1>1, <1>2, <1>3, UsesAre DEF Threads
  <2> QED
    BY <2>1 DEF UpInv
<1>4. CASE t = "led"
  <2>1. at \in 10..28 /\ calls[t] = "display"
    BY <1>1, <1>4, UsesAre DEF RunInv
  <2> QED
    BY <2>1 DEF UpInv
<1>5. CASE t = "analyzer"
  <2>1. at \in 11..26 /\ calls[t] \in {"settings", "buzzer", "http"}
    BY <1>1, <1>5, UsesAre DEF RunInv
  <2> QED
    BY <2>1 DEF UpInv
<1>6. CASE t = "menu"
  <2>1. at \in 12..24 /\ calls[t] \in {"pattern", "settings", "camera"}
    BY <1>1, <1>6, UsesAre DEF RunInv
  <2> QED
    BY <1>6, <2>1 DEF UpInv
<1>7. CASE t \in {"mfa", "stream"}
  BY <1>1, <1>7, UsesAre
<1> QED
  BY <1>3, <1>4, <1>5, <1>6, <1>7 DEF Threads

LEMMA Beginning ==
    ASSUME Init
    PROVE  RunInv /\ UpInv /\ CallInv /\ MemInv
<1>1. RunInv /\ UpInv
  BY DEF Init, RunInv, UpInv
<1>2. CallInv /\ MemInv
  BY DEF Init, CallInv, MemInv
<1> QED
  BY <1>1, <1>2

\* No thread is in a module that is not up yet or any more, but for the camera
\* (controller.c: the order of Controller_start and Controller_stop), also when the
\* program dies in between and starts again.
THEOREM NoneIsUsedUnready == Spec => []UsedWhileReady
<1>1. TypeOK /\ RunInv /\ UpInv /\ CallInv /\ [Next]_vars
        => TypeOK' /\ RunInv' /\ UpInv' /\ CallInv'
  BY TypesKept, RunKept, UpKept, CallKept
<1>2. TypeOK /\ RunInv /\ UpInv /\ CallInv => UsedWhileReady
  <2> SUFFICES ASSUME TypeOK, RunInv, UpInv, CallInv, NEW t \in Threads \cup {"main"}
               PROVE  \/ calls[t] \in up \cup {"none"}
                      \/ calls[t] = "camera" /\ t \in {"menu", "stream"}
    BY DEF UsedWhileReady, TypeOK
  <2> QED
    BY CallsAreReady
<1>3. Init => RunInv /\ UpInv /\ CallInv
  BY Beginning
<1> QED
  BY <1>1, <1>2, <1>3, TypeCorrect, PTL DEF Spec

----------------------------------------------------------------------------
(* What is set, and what is saved *)

\* A setter is in a module that is up.
LEMMA SetWhileUp ==
    ASSUME TypeOK, RunInv, UpInv, CallInv, NEW t \in DOMAIN Sets, calls[t] \in Sets[t]
    PROVE  calls[t] \in Items /\ calls[t] \in up
<1>1. /\ t \in {"menu", "main"} /\ calls[t] \in Items
      /\ t = "menu" => calls[t] = "settings"
  BY UsesAre DEF Items
<1>2. t \in Threads \cup {"main"} /\ calls[t] # "none"
  BY <1>1 DEF Threads, Items
<1>3. t \in running \/ (t = "main" /\ at = 16)
  BY <1>2 DEF CallInv
<1>4. running \subseteq Threads
  BY DEF TypeOK
<1>5. CASE t = "menu"
  BY <1>1, <1>3, <1>5 DEF RunInv, UpInv
<1>6. CASE t = "main"
  <2>1. at = 16
    BY <1>3, <1>4, <1>6 DEF Threads
  <2> QED
    BY <1>1, <2>1 DEF UpInv, Items
<1> QED
  BY <1>1, <1>5, <1>6

LEMMA MemKept ==
    ASSUME TypeOK, RunInv, UpInv, CallInv, MemInv, [Next]_vars
    PROVE  MemInv'
<1>1. ASSUME NEW m \in Modules, InitModule(m) \/ Cleanup(m)
      PROVE  MemInv'
  <2>1. m \notin Items
    BY <1>1, Places DEF InitModule, Cleanup, Items
  <2>2. UNCHANGED <<mem, file, last>> /\ \A i \in Items : i \in up' <=> i \in up
    BY <1>1, <2>1 DEF InitModule, Cleanup
  <2> QED
    BY <2>2 DEF MemInv
<1>2. ASSUME NEW i \in Items, Load(i)
      PROVE  MemInv'
  <2>1. i \notin up
    BY <1>2, Places DEF Load, UpInv
  <2>2. /\ up' = up \cup {i} /\ UNCHANGED <<file, last>>
        /\ mem' = [mem EXCEPT ![i] = AsLoaded(file[i])]
    BY <1>2 DEF Load
  <2>3. mem'[i] = last'[i] /\ \A j \in Items \ {i} : mem'[j] = mem[j]
    BY <2>1, <2>2 DEF MemInv, TypeOK
  <2> QED
    BY <2>2, <2>3 DEF MemInv
<1>3. ASSUME NEW i \in Items, Open(i)
      PROVE  MemInv'
  <2>1. i \in up
    BY <1>3, Places DEF Open, UpInv
  <2>2. \A j \in Items \ {i} : file'[j] = file[j]
    BY <1>3 DEF Open, TypeOK
  <2>3. UNCHANGED <<up, mem, last>>
    BY <1>3 DEF Open
  <2> QED
    BY <2>1, <2>2, <2>3 DEF MemInv
<1>4. ASSUME NEW i \in Items, Write(i)
      PROVE  MemInv'
  <2>1. i \in up
    BY <1>4, Places DEF Write, UpInv
  <2>2. file'[i] = mem[i] /\ \A j \in Items \ {i} : file'[j] = file[j]
    BY <1>4 DEF Write, TypeOK
  <2>3. up' = up \ {i} /\ UNCHANGED <<mem, last>>
    BY <1>4 DEF Write
  <2>4. AsLoaded(mem[i]) = mem[i] /\ mem[i] = last[i]
    BY <2>1, LoadedTyped DEF TypeOK, MemInv
  <2>5. ASSUME NEW j \in Items
        PROVE  (j \in up' => mem'[j] = last'[j]) /\ (j \notin up' => last'[j] = AsLoaded(file'[j]))
    <3>1. CASE j = i
      BY <2>2, <2>3, <2>4, <3>1
    <3>2. CASE j # i
      BY <2>2, <2>3, <3>2 DEF MemInv
    <3> QED
      BY <3>1, <3>2
  <2> QED
    BY <2>5 DEF MemInv
<1>5. CASE Die
  <2>1. up' = {} /\ file' = file /\ last' = [i \in Items |-> AsLoaded(file[i])]
    BY <1>5 DEF Die
  <2> QED
    BY <2>1 DEF MemInv
<1>6. ASSUME NEW i \in Items, OpenFails(i)
      PROVE  MemInv'
  <2>1. CASE i = "settings"
    <3>1. /\ up' = up \ {i} /\ UNCHANGED <<mem, file>>
          /\ last' = [last EXCEPT ![i] = AsLoaded(file[i])]
      BY <1>6, <2>1 DEF OpenFails
    <3>2. last'[i] = AsLoaded(file[i]) /\ \A j \in Items \ {i} : last'[j] = last[j]
      BY <3>1 DEF TypeOK
    <3> QED
      BY <3>1, <3>2 DEF MemInv
  <2>2. CASE i # "settings"
    BY <1>5, <1>6, <2>2 DEF OpenFails
  <2> QED
    BY <2>1, <2>2
<1>7. CASE \/ \E t \in Threads : Start(t) \/ Tell(t) \/ Join(t) \/ End(t)
           \/ \E t \in Threads \cup {"main"} : Call(t)
           \/ Stop \/ UNCHANGED vars
  <2>1. UNCHANGED <<up, mem, file, last>>
    BY <1>7 DEF Start, Tell, Join, End, Call, Stop, vars
  <2> QED
    BY <2>1 DEF MemInv
<1>8. CASE Restart
  <2>1. up' = {} /\ UNCHANGED <<file, last>>
    BY <1>8 DEF Restart
  <2>2. \A i \in Items : i \notin up
    BY <1>8 DEF Restart, UpInv, Items
  <2> QED
    BY <2>1, <2>2 DEF MemInv
<1>9. ASSUME NEW t \in Threads \cup {"main"}, Return(t)
      PROVE  MemInv'
  <2>1. UNCHANGED <<up, file>>
    BY <1>9 DEF Return
  <2>2. CASE UNCHANGED <<mem, last>>
    BY <2>1, <2>2 DEF MemInv
  <2>3. ASSUME t \in DOMAIN Sets, calls[t] \in Sets[t], NEW v \in Values,
               mem' = [mem EXCEPT ![calls[t]] = v], last' = [last EXCEPT ![calls[t]] = v]
        PROVE  MemInv'
    <3>1. calls[t] \in Items /\ calls[t] \in up
      BY <2>3, SetWhileUp
    <3>2. /\ mem'[calls[t]] = last'[calls[t]]
          /\ \A j \in Items \ {calls[t]} : mem'[j] = mem[j] /\ last'[j] = last[j]
      BY <2>3, <3>1 DEF TypeOK
    <3> QED
      BY <2>1, <3>1, <3>2 DEF MemInv
  <2> QED
    BY <1>9, <2>2, <2>3 DEF Return
<1> QED
  BY <1>1, <1>2, <1>3, <1>4, <1>5, <1>6, <1>7, <1>8, <1>9 DEF Next, MainStep, Crash

\* The program works with what was last set, by whichever thread, also after it has
\* been stopped and started again; where a run died or could not save, with what its
\* files held then (Settings_cleanup, PasswordManager_cleanup and the two inits).
THEOREM NothingSetIsLost == Spec => []WhatWasSetLasts
<1>1. /\ TypeOK /\ RunInv /\ UpInv /\ CallInv /\ MemInv /\ [Next]_vars
      => TypeOK' /\ RunInv' /\ UpInv' /\ CallInv' /\ MemInv'
  BY TypesKept, RunKept, UpKept, CallKept, MemKept
<1>2. MemInv => WhatWasSetLasts
  BY DEF MemInv, WhatWasSetLasts
<1> QED
  BY <1>1, <1>2, Beginning, TypeCorrect, PTL DEF Spec

\* No thread is left when a file is opened or written, and main serves nobody any
\* more: what is saved is not changed meanwhile (Controller_stop joins all threads
\* before PasswordManager_cleanup and Settings_cleanup).
THEOREM NobodyIsLeft == Spec => SavedAlone
<1>1. TypeOK /\ RunInv /\ [Next]_vars => RunInv'
  BY RunKept
<1>2. TypeOK /\ RunInv /\ [Next]_vars
        => [file' # file => running = {} /\ at > Serving]_vars
  <2> SUFFICES ASSUME TypeOK, RunInv, Next, file' # file
               PROVE  running = {} /\ at > Serving
    BY DEF vars
  <2>1. PICK i \in Items : Open(i) \/ Write(i)
    <3>1. CASE \E m \in Modules : InitModule(m) \/ Cleanup(m)
      BY <3>1 DEF InitModule, Cleanup
    <3>2. CASE \E i \in Items : Load(i) \/ OpenFails(i)
      BY <3>2 DEF Load, OpenFails, Die
    <3>3. CASE \E t \in Threads : Start(t) \/ Tell(t) \/ Join(t) \/ End(t)
      BY <3>3 DEF Start, Tell, Join, End
    <3>4. CASE Stop \/ Crash \/ Restart \/ \E t \in Threads \cup {"main"} : Call(t) \/ Return(t)
      BY <3>4 DEF Stop, Crash, Die, Restart, Call, Return
    <3> QED
      BY <3>1, <3>2, <3>3, <3>4 DEF Next, MainStep
  <2>2. at \in 31..36
    BY <2>1, Places DEF Open, Write
  <2>3. \A t \in Threads : t \notin running
    BY <2>2 DEF RunInv, Threads
  <2> QED
    BY <2>2, <2>3, ProgramLength DEF TypeOK
<1>3. Init => RunInv
  BY Beginning
<1> QED
  BY <1>1, <1>2, <1>3, TypeCorrect, PTL DEF Spec, SavedAlone
=============================================================================

----------------------------- MODULE Lifecycle -----------------------------
(***************************************************************************)
(* The life of the program: main (securitySensorSystem.c) brings the       *)
(* modules up and the threads with them (Controller_start), serves remote  *)
(* requests until one of them says stop, and takes everything down again   *)
(* (Controller_stop), while the threads go on calling the modules.         *)
(*                                                                         *)
(* Three things outlive the program, in a file each: the settings, the     *)
(* login password and the pattern of the menu.  They are read at the start *)
(* and written at the end; a file is emptied before it is written.  The    *)
(* program may die at any point, and be started again.                     *)
(*                                                                         *)
(* Init and cleanup functions with nothing in them are left out, and so    *)
(* are pins and devices behind the modules.                                *)
(***************************************************************************)
EXTENDS Naturals, Sequences

CONSTANTS
    Values,   \* what a setting, password or pattern may be set to and fits its
              \* buffer
    Unset,    \* and what it is where no file says anything: zeros
    Faults    \* "crash": the program dies; "disk": a file cannot be opened

Threads == {"led", "analyzer", "menu", "mfa", "stream"}
Items == {"settings", "password", "pattern"}
Modules == Items \cup {"http", "joystick", "sensor", "buzzer", "display",
                       "camera", "server"}

ASSUME LifecycleAssumption ==
    /\ Unset \notin Values \cup {"absent", "empty"}
    /\ Values \cap {"absent", "empty"} = {}
    /\ Faults \subseteq {"crash", "disk"}

VARIABLES
    at,       \* main's place in Program, 0 while the program does not run
    up,       \* the modules initialised and not cleaned up
    running,  \* the threads
    told,     \* the threads that have been told to stop
    calls,    \* the module each thread, and main while it serves, is in
    mem,      \* settings, password and pattern in memory
    file,     \* and in their files
    last      \* history: what each was last set to, or came out of a crash as

vars == <<at, up, running, told, calls, mem, file, last>>

StartUp == <<
    <<"init", "http">>,
    <<"load", "settings">>, <<"load", "password">>, <<"load", "pattern">>,
    <<"init", "joystick">>, <<"init", "sensor">>, <<"init", "buzzer">>,
    <<"init", "display">>, <<"start", "led">>, <<"start", "analyzer">>,
    <<"start", "menu">>, <<"start", "mfa">>, <<"start", "stream">>,
    <<"init", "camera">>, <<"init", "server">>, <<"serve", "server">> >>

Save(item) == << <<"open", item>>, <<"write", item>> >>
StopThread(t) == << <<"tell", t>>, <<"join", t>> >>
ReleaseCamera == << <<"cleanup", "server">>, <<"cleanup", "camera">> >>
ReleaseRest == << <<"cleanup", "display">>, <<"cleanup", "buzzer">> >>

\* Slip: the menu is stopped after its settings are saved.
ShutDownSavesFirst ==
    ReleaseCamera \o StopThread("stream") \o StopThread("mfa")
    \o StopThread("analyzer") \o StopThread("led") \o ReleaseRest
    \o Save("password") \o Save("pattern") \o Save("settings")
    \o StopThread("menu") \o << <<"cleanup", "http">> >>

\* Slip: the buzzer goes first.
ShutDownBuzzerFirst ==
    << <<"cleanup", "server">>, <<"cleanup", "camera">>, <<"cleanup", "buzzer">> >>
    \o StopThread("stream") \o StopThread("mfa") \o StopThread("menu")
    \o StopThread("analyzer") \o StopThread("led")
    \o << <<"cleanup", "display">> >>
    \o Save("password") \o Save("pattern") \o Save("settings")
    \o << <<"cleanup", "http">> >>

ShutDown ==
    ReleaseCamera \o StopThread("stream") \o StopThread("mfa")
    \o StopThread("menu") \o StopThread("analyzer") \o StopThread("led")
    \o ReleaseRest \o Save("password") \o Save("pattern") \o Save("settings")
    \o << <<"cleanup", "http">> >>

Program == StartUp \o ShutDown
Serving == Len(StartUp)

\* What the threads call in their loops, and main for its clients: the modules
\* that are cleaned up again.  Joystick and motion sensor never are.
Uses == [led |-> {"display"},
         analyzer |-> {"settings", "buzzer", "http"},
         menu |-> {"pattern", "settings", "camera"},
         mfa |-> {},
         stream |-> {"camera"},
         main |-> {"settings", "password", "pattern", "camera"}]
Sets == [menu |-> {"settings"}, main |-> Items]

TypeOK ==
    /\ at \in 0..Len(Program)
    /\ up \subseteq Modules
    /\ running \subseteq Threads
    /\ told \subseteq Threads
    /\ calls \in [Threads \cup {"main"} -> Modules \cup {"none"}]
    /\ mem \in [Items -> Values \cup {Unset}]
    /\ file \in [Items -> Values \cup {Unset, "absent", "empty"}]
    /\ last \in [Items -> Values \cup {Unset}]

\* fscanf and fgets leave the variable alone when there is nothing to read.
AsLoaded(content) == IF content \in {"absent", "empty"} THEN Unset ELSE content

Init ==
    /\ at = 0
    /\ up = {}
    /\ running = {}
    /\ told = {}
    /\ calls = [t \in Threads \cup {"main"} |-> "none"]
    /\ mem = [i \in Items |-> Unset]
    /\ file \in [Items -> Values \cup {"absent"}]
    /\ last = [i \in Items |-> AsLoaded(file[i])]

----------------------------------------------------------------------------
(* The main thread. *)

Doing(op, x) == at > 0 /\ Program[at] = <<op, x>>
\* The program returns from main after its last step.
Advance == at' = IF at = Len(Program) THEN 0 ELSE at + 1

InitModule(m) ==
    /\ Doing("init", m)
    /\ Advance
    /\ up' = up \cup {m}
    /\ UNCHANGED <<running, told, calls, mem, file, last>>

\* Slip: takes for content what says that there is none.
LoadAnything(i) ==
    /\ Doing("load", i)
    /\ Advance
    /\ up' = up \cup {i}
    /\ mem' = [mem EXCEPT ![i] = file[i]]
    /\ UNCHANGED <<running, told, calls, file, last>>

\* Slip: reads into a copy.
LoadNothing(i) ==
    /\ Doing("load", i)
    /\ Advance
    /\ up' = up \cup {i}
    /\ UNCHANGED <<running, told, calls, mem, file, last>>

Load(i) ==
    /\ Doing("load", i)
    /\ Advance
    /\ up' = up \cup {i}
    /\ mem' = [mem EXCEPT ![i] = AsLoaded(file[i])]
    /\ UNCHANGED <<running, told, calls, file, last>>

Start(t) ==
    /\ Doing("start", t)
    /\ Advance
    /\ running' = running \cup {t}
    /\ UNCHANGED <<up, told, calls, mem, file, last>>

\* A remote admin's stop, between two requests.
Stop ==
    /\ Doing("serve", "server")
    /\ calls["main"] = "none"
    /\ Advance
    /\ UNCHANGED <<up, running, told, calls, mem, file, last>>

Cleanup(m) ==
    /\ Doing("cleanup", m)
    /\ Advance
    /\ up' = up \ {m}
    /\ UNCHANGED <<running, told, calls, mem, file, last>>

\* Slip: the signal is not sent.
TellNobody(t) ==
    /\ Doing("tell", t)
    /\ Advance
    /\ UNCHANGED <<up, running, told, calls, mem, file, last>>

Tell(t) ==
    /\ Doing("tell", t)
    /\ Advance
    /\ told' = told \cup {t}
    /\ UNCHANGED <<up, running, calls, mem, file, last>>

Join(t) ==
    /\ Doing("join", t)
    /\ t \notin running
    /\ Advance
    /\ UNCHANGED <<up, running, told, calls, mem, file, last>>

\* fopen for writing empties the file.
Open(i) ==
    /\ Doing("open", i)
    /\ Advance
    /\ file' = [file EXCEPT ![i] = "empty"]
    /\ UNCHANGED <<up, running, told, calls, mem, last>>

Write(i) ==
    /\ Doing("write", i)
    /\ Advance
    /\ file' = [file EXCEPT ![i] = mem[i]]
    /\ up' = up \ {i}
    /\ UNCHANGED <<running, told, calls, mem, last>>

Die ==
    /\ at' = 0
    /\ up' = {}
    /\ running' = {}
    /\ told' = {}
    /\ calls' = [t \in DOMAIN calls |-> "none"]
    /\ mem' = [i \in Items |-> Unset]
    /\ last' = [i \in Items |-> AsLoaded(file[i])]
    /\ UNCHANGED file

\* Settings that cannot be saved are given up; a password that cannot be saved
\* ends the program, with nothing saved after it.
OpenFails(i) ==
    /\ "disk" \in Faults
    /\ Doing("open", i)
    /\ IF i = "settings"
       THEN /\ at' = at + 2
            /\ up' = up \ {i}
            /\ last' = [last EXCEPT ![i] = AsLoaded(file[i])]
            /\ UNCHANGED <<running, told, calls, mem, file>>
       ELSE Die

----------------------------------------------------------------------------
(* The threads, main among them while it serves. *)

Active(t) == t \in running \/ (t = "main" /\ Doing("serve", "server"))

Call(t) ==
    /\ Active(t)
    /\ calls[t] = "none"
    /\ \E m \in Uses[t] : calls' = [calls EXCEPT ![t] = m]
    /\ UNCHANGED <<at, up, running, told, mem, file, last>>

\* A call returns; a setter has set what it was called to set.
Return(t) ==
    /\ Active(t)
    /\ calls[t] # "none"
    /\ calls' = [calls EXCEPT ![t] = "none"]
    /\ \/ UNCHANGED <<mem, last>>
       \/ /\ t \in DOMAIN Sets
          /\ calls[t] \in Sets[t]
          /\ \E v \in Values :
                /\ mem' = [mem EXCEPT ![calls[t]] = v]
                /\ last' = [last EXCEPT ![calls[t]] = v]
    /\ UNCHANGED <<at, up, running, told, file>>

\* At the top of its loop.
End(t) ==
    /\ t \in running \cap told
    /\ calls[t] = "none"
    /\ running' = running \ {t}
    /\ UNCHANGED <<at, up, told, calls, mem, file, last>>

Crash == "crash" \in Faults /\ at > 0 /\ Die

\* A new process: static variables are as the compiler left them.
Restart ==
    /\ at = 0
    /\ at' = 1
    /\ up' = {}
    /\ told' = {}
    /\ mem' = [i \in Items |-> Unset]
    /\ UNCHANGED <<running, calls, file, last>>

MainStep ==
    \/ \E m \in Modules : InitModule(m) \/ Cleanup(m)
    \/ \E i \in Items : Load(i) \/ Open(i) \/ Write(i) \/ OpenFails(i)
    \/ \E t \in Threads : Start(t) \/ Tell(t) \/ Join(t)

Next ==
    \/ MainStep \/ Stop \/ Crash \/ Restart
    \/ \E t \in Threads \cup {"main"} : Call(t) \/ Return(t)
    \/ \E t \in Threads : End(t)

\* Calls return, except that the analyzer's post may take for ever (http.c sets no
\* timeout); a thread that has been told looks at its flag, and main is scheduled;
\* nobody is obliged to stop the system.
Fairness ==
    /\ WF_vars(MainStep)
    /\ \A t \in Threads \cup {"main"} : WF_vars(calls[t] # "http" /\ Return(t))
    /\ \A t \in Threads : SF_vars(End(t))

Spec == Init /\ [][Next]_vars /\ Fairness

----------------------------------------------------------------------------
(* Properties. *)

\* No thread is in a module that is not up: controller.c starts and stops them in
\* an order that takes care of that.  The camera is the exception: the menu and
\* the stream thread start before Camera_init and outlive Camera_cleanup.
UsedWhileReady ==
    \A t \in DOMAIN calls :
        \/ calls[t] \in up \cup {"none"}
        \/ calls[t] = "camera" /\ t \in {"menu", "stream"}

\* What was last set, by whichever thread, is what the program works with, also
\* after it has been stopped and started again; where a run has died or could
\* not save, what its files held then (Settings_init, PasswordManager_init).
WhatWasSetLasts == \A i \in up \cap Items : mem[i] = last[i]

\* A file is touched only when no thread is left that could change what it is to
\* hold, and none is serving.
SavedAlone == [][file' # file => running = {} /\ at > Serving]_vars

\* Controller_stop comes to its end if the analyzer's posts do: no other call of a
\* thread it waits for keeps it waiting.
StopEnds == []<>(calls["analyzer"] # "http") => (at > Serving ~> at = 0)
=============================================================================

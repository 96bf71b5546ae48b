--------------------------- MODULE RemoteSession ---------------------------
(***************************************************************************)
(* Remote access to the security system: the clients that run when someone *)
(* logs into the board over ssh (RemoteLoginClient), the one server thread *)
(* that answers them (ResponseHandler, on the program's main thread), and  *)
(* the second factor it checks (LEDMFA).                                   *)
(*                                                                         *)
(* All the session there is lies in the client: isLoggedIn, and how far    *)
(* its user has come in a dialogue.  The server keeps nothing about anyone *)
(* and does what a datagram says.  A client sends one request, waits ten   *)
(* seconds for the answer and leaves when none comes.  Its exit code says  *)
(* whether the shell of the host opens (launch.sh closes the connection    *)
(* only for exit code 1, so "aborted" opens it too, and so does "killed",  *)
(* the end of a client by a signal it does not catch: SIGINT is the only   *)
(* one it does).                                                           *)
(*                                                                         *)
(* A request waits in the server's socket until its handler has answered   *)
(* it.  All handlers but that of "toggle cam", which calls the camera and  *)
(* may block there, run in one step.                                       *)
(***************************************************************************)
EXTENDS Naturals, Sequences

CONSTANTS
    Clients,       \* the sessions, each a process of its own
    Knows,         \* Knows[c]: the passwords the user of c may type
    Does,          \* Does[c]: the commands with a dialogue or an effect on c
    Asks,          \* Asks[c]: the one-line commands <<kind, argument>>
    Patterns,      \* the joystick patterns a user may type
    LongPatterns,  \* those that do not fit the system's buffer
    Unmatched,     \* a stored pattern that no input matches
    Codes,         \* the codes of the second factor, "0000" among them
    MenuSets,      \* the settings the menu changes meanwhile
    Faults         \* "lose": datagrams get lost; "late": answers take longer
                   \* than a client waits; "kill": signals end clients

Commands == {"login", "logout", "exit", "haccess", "stop", "chpassword",
             "chjpattern"}

\* What a guest may ask and what takes an admin.
GuestAsks == {"gdanger", "gtrigger"}
AdminAsks == {"toggle", "sdanger", "rdthresh", "rdlevel", "conf"}

Policies == {"nomfa", "enmfa", "noremote"}
AutoLogouts == {"short", "medium", "long"}
Thresholds == {"20", "50"}       \* some that are accepted
DEFAULT_THRESHOLD == "50"
Devices == {"pir", "log", "trigger"}
ValuesOf(s) ==
    CASE s = "policy" -> Policies [] s = "autoLogout" -> AutoLogouts
      [] s = "threshold" -> Thresholds [] OTHER -> BOOLEAN
Settings == [policy : Policies, autoLogout : AutoLogouts, threshold : Thresholds,
             pir : BOOLEAN, log : BOOLEAN, trigger : BOOLEAN]

ASSUME RemoteAssumption ==
    /\ Knows \in [Clients -> SUBSET STRING]
    /\ Does \in [Clients -> SUBSET Commands]
    /\ Asks \in [Clients -> SUBSET ((GuestAsks \cup AdminAsks) \X STRING)]
    /\ LongPatterns \subseteq Patterns
    /\ Patterns \subseteq STRING
    /\ Unmatched \notin Patterns
    /\ "0000" \in Codes
    /\ Codes \subseteq STRING
    /\ MenuSets \subseteq {"policy", "autoLogout", "threshold"} \cup Devices
    /\ Faults \subseteq {"lose", "late", "kill"}

VARIABLES
    pc,          \* where each client is; see Waiting and Over
    isLoggedIn,  \* each client's flag
    answers,     \* the answers in each client's socket
    server,      \* "receiving", "toggling" (in a camera call) or "stopped"
    requests,    \* the requests in the server's socket, the first in its hands
    config,      \* the settings, and the switches "toggle" turns
    password,    \* PasswordManager's login password
    pattern,     \* PasswordManager's pattern for the menu
    code,        \* LEDMFA's current code
    rangeError   \* errno is ERANGE in the server's thread

clientVars == <<pc, isLoggedIn>>
stored == <<config, password, pattern, rangeError>>
vars == <<clientVars, answers, server, requests, stored, code>>

\* Waiting for the answer to a request, by what was asked; "auth" and "jauth",
\* "code" and "jcode" belong to the two dialogues of login and of a change of
\* the pattern.
Waiting == {"ping", "login", "code", "ask", "stop", "auth", "setp", "jauth",
            "jcode", "jsetp"}
\* Waiting for the user.
Typing == {"prompt", "enterCode", "newPassword", "jenterCode", "newPattern"}
\* Exit codes 1 and 0, a failed assertion, and a signal from outside.
Over == {"closed", "shell", "aborted", "killed"}

Arguments ==
    {"none"} \cup Patterns \cup Codes \cup (UNION {Knows[c] : c \in Clients})
    \cup {a[2] : a \in UNION {Asks[c] : c \in Clients}}
Requests == [from : Clients, kind : {":ping", ":login", ":mfa", ":auth", ":setp",
                 ":jsetp", "stop"} \cup GuestAsks \cup AdminAsks,
             arg : Arguments]
\* "code": the prompt for the second factor; "text": what is only printed.
Answers == {"ok", "bad", "code", "text"}

TypeOK ==
    /\ pc \in [Clients -> {"start"} \cup Waiting \cup Typing \cup Over]
    /\ isLoggedIn \in [Clients -> BOOLEAN]
    /\ answers \in [Clients -> Seq(Answers)]
    /\ server \in {"receiving", "toggling", "stopped"}
    /\ requests \in Seq(Requests)
    /\ config \in Settings
    /\ password \in UNION {Knows[c] : c \in Clients}
    /\ pattern \in (Patterns \ LongPatterns) \cup {Unmatched}
    /\ code \in Codes
    /\ rangeError \in BOOLEAN

Init ==
    /\ pc = [c \in Clients |-> "start"]
    /\ isLoggedIn = [c \in Clients |-> FALSE]
    /\ answers = [c \in Clients |-> <<>>]
    /\ server = "receiving"
    /\ requests = <<>>
    /\ config \in {s \in Settings : s.threshold = "50" /\ s.autoLogout = "short"
                                    /\ s.pir /\ s.log /\ ~s.trigger}
    /\ password \in UNION {Knows[c] : c \in Clients}
    /\ pattern \in Patterns \ LongPatterns
    /\ code = "0000"
    /\ rangeError = FALSE

----------------------------------------------------------------------------
(* The client. *)

Goto(c, place) == pc' = [pc EXCEPT ![c] = place]

\* A datagram may be lost, and finds no socket once the server has stopped.
Send(c, kind, arg, place) ==
    /\ Goto(c, place)
    /\ \/ /\ server # "stopped"
          /\ requests' = Append(requests, [from |-> c, kind |-> kind, arg |-> arg])
       \/ /\ server = "stopped" \/ "lose" \in Faults
          /\ UNCHANGED requests
    /\ UNCHANGED <<isLoggedIn, answers, server, stored, code>>

Connect(c) == pc[c] = "start" /\ Send(c, ":ping", "none", "ping")

At(c, command) == pc[c] = "prompt" /\ command \in Does[c]

\* Commands that need no server.
Decide(c, place, logged) ==
    /\ Goto(c, place)
    /\ isLoggedIn' = [isLoggedIn EXCEPT ![c] = logged]
    /\ UNCHANGED <<answers, server, requests, stored, code>>

Exit(c) == At(c, "exit") /\ Decide(c, "closed", isLoggedIn[c])

Logout(c) == At(c, "logout") /\ isLoggedIn[c] /\ Decide(c, "prompt", FALSE)

AccessHost(c) == At(c, "haccess") /\ isLoggedIn[c] /\ Decide(c, "shell", TRUE)

Login(c) ==
    /\ At(c, "login")
    /\ ~isLoggedIn[c]
    /\ \E p \in Knows[c] : Send(c, ":login", p, "login")

Ask(c) ==
    /\ pc[c] = "prompt"
    /\ \E a \in Asks[c] :
        /\ a[1] \in GuestAsks \/ isLoggedIn[c]
        /\ Send(c, a[1], a[2], "ask")

StopSystem(c) == At(c, "stop") /\ isLoggedIn[c] /\ Send(c, "stop", "none", "stop")

ChangePassword(c) ==
    /\ At(c, "chpassword")
    /\ isLoggedIn[c]
    /\ \E p \in Knows[c] : Send(c, ":auth", p, "auth")

ChangePattern(c) ==
    /\ At(c, "chjpattern")
    /\ isLoggedIn[c]
    /\ \E p \in Knows[c] : Send(c, ":auth", p, "jauth")

\* Entries that are malformed, or not the same twice, end the dialogue.
Fumble(c) ==
    /\ pc[c] \in Typing \ {"prompt"}
    /\ Decide(c, "prompt", isLoggedIn[c])

EnterCode(c) ==
    \E x \in Codes :
        \/ pc[c] = "enterCode" /\ Send(c, ":mfa", x, "code")
        \/ pc[c] = "jenterCode" /\ Send(c, ":mfa", x, "jcode")

EnterPassword(c) ==
    /\ pc[c] = "newPassword"
    /\ \E p \in Knows[c] : Send(c, ":setp", p, "setp")

EnterPattern(c) ==
    /\ pc[c] = "newPattern"
    /\ \E p \in Patterns : Send(c, ":jsetp", p, "jsetp")

\* An answer of one of these kinds, taken while waiting there.
Take(c, at, kinds, place) ==
    /\ pc[c] = at
    /\ answers[c] # <<>>
    /\ Head(answers[c]) \in kinds
    /\ Goto(c, place)
    /\ answers' = [answers EXCEPT ![c] = Tail(@)]
    /\ UNCHANGED <<server, requests, stored, code>>

LoggedIn(c) ==
    /\ \/ Take(c, "login", {"ok"}, "prompt")
       \/ Take(c, "code", {"ok"}, "prompt")
    /\ isLoggedIn' = [isLoggedIn EXCEPT ![c] = TRUE]

\* "bad" ends a dialogue; whatever else comes lets the later ones go on.
Answered(c) ==
    /\ \/ Take(c, "ping", {"bad"}, "closed")
       \/ Take(c, "ping", Answers \ {"bad"}, "prompt")
       \/ Take(c, "login", {"bad"}, "prompt")
       \/ Take(c, "login", Answers \ {"ok", "bad"}, "enterCode")
       \/ Take(c, "code", {"bad"}, "prompt")
       \/ Take(c, "code", Answers \ {"ok", "bad"}, "aborted")
       \/ Take(c, "ask", Answers, "prompt")
       \/ Take(c, "stop", Answers, "shell")
       \/ Take(c, "auth", {"bad"}, "prompt")
       \/ Take(c, "auth", Answers \ {"bad"}, "newPassword")
       \/ Take(c, "setp", Answers, "prompt")
       \/ Take(c, "jauth", {"bad"}, "prompt")
       \/ Take(c, "jauth", Answers \ {"bad"}, "jenterCode")
       \/ Take(c, "jcode", {"bad"}, "prompt")
       \/ Take(c, "jcode", Answers \ {"bad"}, "newPattern")
       \/ Take(c, "jsetp", Answers, "prompt")
    /\ UNCHANGED isLoggedIn

UnderWay(c) ==
    /\ server # "stopped"
    /\ \E i \in DOMAIN requests : requests[i].from = c

\* Slip: gives up and asks for the next command.
TimeoutStays(c) ==
    /\ pc[c] \in Waiting
    /\ answers[c] = <<>>
    /\ "late" \in Faults \/ ~UnderWay(c)
    /\ Decide(c, "prompt", isLoggedIn[c])

\* Slip: the two exit codes are one.
TimeoutOpens(c) ==
    /\ pc[c] \in Waiting
    /\ answers[c] = <<>>
    /\ "late" \in Faults \/ ~UnderWay(c)
    /\ Decide(c, "shell", isLoggedIn[c])

\* Slip: the socket has no timeout once the user is logged in.
TimeoutOfGuests(c) ==
    /\ pc[c] \in Waiting
    /\ answers[c] = <<>>
    /\ "late" \in Faults \/ ~UnderWay(c)
    /\ ~isLoggedIn[c]
    /\ Decide(c, "closed", FALSE)

\* recvFromServ gives up and ends the client.  Ten seconds are long enough for
\* whatever is not lost, unless answers may be late.
Timeout(c) ==
    /\ pc[c] \in Waiting
    /\ answers[c] = <<>>
    /\ "late" \in Faults \/ ~UnderWay(c)
    /\ Decide(c, IF isLoggedIn[c] THEN "shell" ELSE "closed", isLoggedIn[c])

\* A signal that main does not catch (only SIGINT is) ends the client wherever it
\* is, and its socket with it.
Killed(c) ==
    /\ "kill" \in Faults
    /\ pc[c] \notin Over
    /\ Goto(c, "killed")
    /\ answers' = [answers EXCEPT ![c] = <<>>]
    /\ UNCHANGED <<isLoggedIn, server, requests, stored, code>>

----------------------------------------------------------------------------
(* The server. *)

Handling(kind) ==
    /\ server = "receiving"
    /\ requests # <<>>
    /\ Head(requests).kind = kind

Arg == Head(requests).arg

\* The answer to the request in hand; it finds no socket when the client has
\* given up.
Answer(a) ==
    LET c == Head(requests).from
    IN  /\ requests' = Tail(requests)
        /\ \/ /\ pc[c] \notin Over
              /\ answers' = [answers EXCEPT ![c] = Append(@, a)]
           \/ /\ pc[c] \in Over \/ "lose" \in Faults
              /\ UNCHANGED answers
        /\ UNCHANGED <<clientVars, code>>

Verdict(right) == Answer(IF right THEN "ok" ELSE "bad")

Ping ==
    /\ Handling(":ping")
    /\ Verdict(config.policy # "noremote")
    /\ UNCHANGED <<server, stored>>

\* Slip: the policy is looked at before the password.
HandleLoginPolicyFirst ==
    /\ Handling(":login")
    /\ Answer(CASE config.policy = "enmfa" -> "code"
                [] Arg = password -> "ok"
                [] OTHER -> "bad")
    /\ UNCHANGED <<server, stored>>

HandleLogin ==
    /\ Handling(":login")
    /\ Answer(CASE Arg # password -> "bad"
                [] Arg = password /\ config.policy = "enmfa" -> "code"
                [] OTHER -> "ok")
    /\ UNCHANGED <<server, stored>>

LoginMFA ==
    /\ Handling(":mfa")
    /\ Verdict(Arg = code)
    /\ UNCHANGED <<server, stored>>

VerifyIdentity ==
    /\ Handling(":auth")
    /\ Verdict(Arg = password)
    /\ UNCHANGED <<server, stored>>

SetPassword ==
    /\ Handling(":setp")
    /\ password' = Arg
    /\ Answer("ok")
    /\ UNCHANGED <<server, config, pattern, rangeError>>

\* A pattern that does not fit is cut, and its length kept: no input is equal to
\* it then.
SetPattern ==
    /\ Handling(":jsetp")
    /\ pattern' = IF Arg \in LongPatterns THEN Unmatched ELSE Arg
    /\ Answer("ok")
    /\ UNCHANGED <<server, config, password, rangeError>>

\* Levels and counts are only reported; so are arguments nobody knows.
Report ==
    /\ \/ \E kind \in GuestAsks : Handling(kind)
       \/ Handling("toggle") /\ Arg \notin Devices \cup {"cam"}
       \/ Handling("conf") /\ Arg \notin AutoLogouts \cup Policies
       \/ Handling("rdlevel")
    /\ Answer("text")
    /\ UNCHANGED <<server, stored>>

Configure(s, value) ==
    /\ config' = [config EXCEPT ![s] = value]
    /\ Answer("text")
    /\ UNCHANGED <<server, password, pattern, rangeError>>

ToggleDevice ==
    /\ Handling("toggle")
    /\ Arg \in Devices
    /\ Configure(Arg, ~config[Arg])

ResetThreshold ==
    /\ Handling("rdthresh")
    /\ Configure("threshold", DEFAULT_THRESHOLD)

\* Slip: writes the wrong setting.
ConfigureAutoLogoutAsPolicy ==
    /\ Handling("conf")
    /\ Arg \in AutoLogouts
    /\ Configure("policy", Arg)

ConfigureAutoLogout ==
    /\ Handling("conf")
    /\ Arg \in AutoLogouts
    /\ Configure("autoLogout", Arg)

ConfigureRemoteAccess ==
    /\ Handling("conf")
    /\ Arg \in Policies
    /\ Configure("policy", Arg)

\* "overflow": a number strtol cannot represent, which sets errno; numbers are
\* refused from then on, until another call sets errno to something else.
SetThreshold ==
    /\ Handling("sdanger")
    /\ rangeError' = (rangeError \/ Arg = "overflow")
    /\ config' = IF Arg \in Thresholds /\ ~rangeError
                 THEN [config EXCEPT !.threshold = Arg]
                 ELSE config
    /\ Answer("text")
    /\ UNCHANGED <<server, password, pattern>>

\* The camera is called only when it is not on trigger, which may have changed
\* by the time the call is made.
ToggleCamera ==
    /\ Handling("toggle")
    /\ Arg = "cam"
    /\ IF config.trigger
       THEN Answer("text") /\ UNCHANGED <<server, stored>>
       ELSE /\ server' = "toggling"
            /\ UNCHANGED <<clientVars, answers, requests, stored, code>>

\* A camera call that times out leaves errno at EAGAIN.
CameraReturns ==
    /\ server = "toggling"
    /\ server' = "receiving"
    /\ rangeError' \in {rangeError, FALSE}
    /\ Answer("text")
    /\ UNCHANGED <<config, password, pattern>>

\* What is still in the socket is never read.
Stop ==
    /\ Handling("stop")
    /\ server' = "stopped"
    /\ Answer("text")
    /\ UNCHANGED stored

----------------------------------------------------------------------------
(* The rest of the system. *)

\* LEDMFA's thread: a new code, on the LEDs before it is the current one.
Refresh ==
    /\ server # "stopped"
    /\ code' \in Codes
    /\ UNCHANGED <<clientVars, answers, server, requests, stored>>

\* The menu at the device.
AtDevice ==
    /\ \E s \in MenuSets : \E v \in ValuesOf(s) :
            config' = [config EXCEPT ![s] = v]
    /\ UNCHANGED <<clientVars, answers, server, requests, password, pattern,
                    rangeError, code>>

User(c) ==
    \/ Connect(c) \/ Exit(c) \/ Logout(c) \/ AccessHost(c) \/ Login(c) \/ Ask(c)
    \/ StopSystem(c) \/ ChangePassword(c) \/ ChangePattern(c) \/ Fumble(c)
    \/ EnterCode(c) \/ EnterPassword(c) \/ EnterPattern(c)

Receive(c) == LoggedIn(c) \/ Answered(c)

Serve ==
    \/ Ping \/ HandleLogin \/ LoginMFA \/ VerifyIdentity \/ SetPassword
    \/ SetPattern \/ Report \/ ToggleDevice \/ ResetThreshold \/ SetThreshold
    \/ ConfigureAutoLogout \/ ConfigureRemoteAccess \/ ToggleCamera
    \/ CameraReturns \/ Stop

Next ==
    \/ \E c \in Clients : User(c) \/ Receive(c) \/ Timeout(c) \/ Killed(c)
    \/ Serve \/ Refresh \/ AtDevice

\* A datagram that has arrived is read, and a receive gives up in the end
\* (SO_RCVTIMEO).  Nothing is asked of users or of the server.
Fairness == \A c \in Clients : WF_vars(Receive(c) \/ Timeout(c))

Spec == Init /\ [][Next]_vars /\ Fairness

----------------------------------------------------------------------------
(* Properties. *)

\* The answer a client finds is the one to the request it waits for, although
\* neither names the other: at most one datagram of each client is under way
\* (remoteLoginClient.c login asserts it of the answer to a code).
AnswerFits(c) ==
    CASE pc[c] \in {"code", "auth", "jauth", "jcode", "ping"} ->
            Head(answers[c]) \in {"ok", "bad"}
      [] pc[c] = "login" -> Head(answers[c]) \in {"ok", "bad", "code"}
      [] pc[c] \in {"setp", "jsetp"} -> Head(answers[c]) = "ok"
      [] pc[c] \in {"ask", "stop"} -> Head(answers[c]) = "text"
      [] OTHER -> FALSE
AnswersBelong ==
    \A c \in Clients :
        /\ pc[c] # "aborted"
        /\ Len(answers[c]) <= 1
        /\ answers[c] # <<>> => AnswerFits(c) /\ ~UnderWay(c)

\* A client that ends by itself, by a command, an answer, a timeout or a failed
\* assertion, leaves the shell of the host to nobody who was not logged in then
\* (howtocreateuser.md: "you will not be able to access the os if you are not
\* logged in").  Of clients killed by a signal this is not true: "killed" is not
\* among the ends it speaks of.
HostAccessOnlyForAdmins ==
    \A c \in Clients : pc[c] \in {"shell", "aborted"} => isLoggedIn[c]

\* No client waits for ever, whatever is lost (clientNet.c TIMEOUT_S): each is
\* again and again, or from some time on, waiting for nothing.
EveryRequestEnds == \A c \in Clients : []<>(pc[c] \notin Waiting)

Has(c, answer) == answers[c] = <<answer>>
Requested(c, kind) ==
    \E i \in DOMAIN requests : requests[i].from = c /\ requests[i].kind = kind

\* What a session has proved: the verdict counts from when the server gives it,
\* and a change asked for under it keeps it until it is made.
Session(c) ==
    CASE pc[c] = "start" -> "absent"
      [] pc[c] = "ping" -> IF Has(c, "ok") THEN "guest" ELSE "connecting"
      [] pc[c] = "login" -> CASE Has(c, "ok") -> "admin"
                              [] Has(c, "code") -> "half"
                              [] OTHER -> "guest"
      [] pc[c] = "enterCode" -> "half"
      [] pc[c] = "code" -> CASE Has(c, "ok") -> "admin"
                             [] Has(c, "bad") -> "guest"
                             [] OTHER -> "half"
      [] pc[c] \in {"prompt", "ask", "stop"} -> IF isLoggedIn[c] THEN "admin" ELSE "guest"
      [] pc[c] \in {"auth", "jauth"} -> IF Has(c, "ok") THEN "verified" ELSE "admin"
      [] pc[c] \in {"newPassword", "jenterCode"} -> "verified"
      [] pc[c] = "jcode" -> CASE Has(c, "ok") -> "cleared"
                              [] Has(c, "bad") -> "admin"
                              [] OTHER -> "verified"
      [] pc[c] = "newPattern" -> "cleared"
      [] pc[c] \in {"setp", "jsetp", "shell"} ->
            CASE Requested(c, ":setp") -> "verified"
              [] Requested(c, ":jsetp") -> "cleared"
              [] OTHER -> IF pc[c] = "shell" THEN "host" ELSE "admin"
      [] pc[c] = "killed" ->
            CASE Requested(c, ":setp") -> "verified"
              [] Requested(c, ":jsetp") -> "cleared"
              [] OTHER -> IF isLoggedIn[c] THEN "host" ELSE "cut"
      [] pc[c] = "aborted" -> "host"
      [] pc[c] = "closed" -> "left"

Access == INSTANCE RemoteAccess WITH
    session <- [c \in Clients |-> Session(c)],
    serving <- server # "stopped",
    Patterns <- (Patterns \ LongPatterns) \cup {Unmatched},
    Configs <- Settings

\* A server that keeps no sessions still gives everyone only what they have
\* proved: passwords, patterns, settings and the stop change by the requests of
\* those who may, also when datagrams are lost, late, or outlive their sender.
ImplementsAccess == Access!Spec
=============================================================================

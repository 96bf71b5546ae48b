---------------------------- MODULE RemoteAccess ----------------------------
(***************************************************************************)
(* What remote access to the security system promises, without datagrams:  *)
(* what each user's session has proved, and what may be done from there.   *)
(* A guest who enters the password, and the code on the LEDs when the      *)
(* policy asks for it, becomes admin; an admin configures and stops the    *)
(* system and leaves into the host's shell; the password changes only for  *)
(* an admin who has entered it once more, the joystick pattern only for    *)
(* one who has entered a code as well.  RemoteSession implements this      *)
(* module with a client per session and one server over datagrams.         *)
(***************************************************************************)
CONSTANTS
    Clients,    \* the sessions
    Knows,      \* Knows[c]: the passwords its user may type
    Patterns,   \* what the joystick pattern may become
    Configs,    \* the values of the configuration
    MenuSets    \* the parts of it the menu at the device sets as well

VARIABLES
    session,    \* what each session has proved so far
    password,   \* the login password
    pattern,    \* the joystick pattern of the menu
    config,     \* settings and switches
    serving      \* the system has not been stopped

vars == <<session, password, pattern, config, serving>>

Stages == {"absent", "connecting", "guest", "half", "admin", "verified",
           "cleared", "host", "left", "cut"}

Init ==
    /\ session = [c \in Clients |-> "absent"]
    /\ password \in UNION {Knows[c] : c \in Clients}
    /\ pattern \in Patterns
    /\ config \in Configs
    /\ serving = TRUE

Move(c, from, to) ==
    /\ session[c] \in from
    /\ \E s \in to : session' = [session EXCEPT ![c] = s]

Unchanged == UNCHANGED <<password, pattern, config, serving>>

Arrive(c) == Move(c, {"absent"}, {"connecting"}) /\ Unchanged

Connect(c) ==
    /\ serving
    /\ config.policy # "noremote"
    /\ Move(c, {"connecting"}, {"guest"})
    /\ Unchanged

\* By the policy, or because nobody answers.
Refuse(c) == Move(c, {"connecting"}, {"left"}) /\ Unchanged

\* The right password is half the way in when a second factor is asked for.
Enter(c) ==
    /\ serving
    /\ password \in Knows[c]
    /\ Move(c, {"guest"}, IF config.policy = "enmfa" THEN {"half"} ELSE {"admin"})
    /\ Unchanged

Admit(c) == serving /\ Move(c, {"half"}, {"admin"}) /\ Unchanged

GiveUp(c) == Move(c, {"half"}, {"guest"}) /\ Unchanged

Logout(c) == Move(c, {"admin"}, {"guest"}) /\ Unchanged

Verify(c) ==
    /\ serving
    /\ password \in Knows[c]
    /\ Move(c, {"admin"}, {"verified"})
    /\ Unchanged

Clear(c) == serving /\ Move(c, {"verified"}, {"cleared"}) /\ Unchanged

Relax(c) == Move(c, {"verified", "cleared"}, {"admin"}) /\ Unchanged

ChangePassword(c) ==
    /\ serving
    /\ Move(c, {"verified"}, {"admin", "host"})
    /\ password' \in Knows[c]
    /\ UNCHANGED <<pattern, config, serving>>

ChangePattern(c) ==
    /\ serving
    /\ Move(c, {"cleared"}, {"admin", "host"})
    /\ pattern' \in Patterns
    /\ UNCHANGED <<password, config, serving>>

\* Also for a user who has meanwhile left for the host's shell.
Configure(c) ==
    /\ serving
    /\ session[c] \in {"admin", "host"}
    /\ config' \in Configs
    /\ UNCHANGED <<session, password, pattern, serving>>

Stop(c) ==
    /\ session[c] \in {"admin", "host"}
    /\ serving' = FALSE
    /\ UNCHANGED <<session, password, pattern, config>>

TakeHost(c) == Move(c, {"admin", "verified", "cleared"}, {"host"}) /\ Unchanged

Leave(c) == Move(c, {"guest", "half", "admin"}, {"left"}) /\ Unchanged

\* A session that is cut off may change nothing any more.  What its user finds
\* then is not this policy's to say.
CutOff(c) ==
    /\ Move(c, {"absent", "connecting", "guest", "half", "admin"}, {"cut"})
    /\ Unchanged

\* Someone at the device, through the menu.
AtDevice ==
    /\ config' \in Configs
    /\ \A s \in DOMAIN config \ MenuSets : config'[s] = config[s]
    /\ UNCHANGED <<session, password, pattern, serving>>

Next ==
    \/ AtDevice
    \/ \E c \in Clients :
        \/ Arrive(c) \/ Connect(c) \/ Refuse(c) \/ Enter(c) \/ Admit(c) \/ GiveUp(c)
        \/ Logout(c) \/ Verify(c) \/ Clear(c) \/ Relax(c)
        \/ ChangePassword(c) \/ ChangePattern(c) \/ Configure(c)
        \/ Stop(c) \/ TakeHost(c) \/ Leave(c) \/ CutOff(c)

\* Nobody is kept waiting at the door.
Fairness == \A c \in Clients : WF_vars(Connect(c) \/ Refuse(c))

Spec == Init /\ [][Next]_vars /\ Fairness
=============================================================================

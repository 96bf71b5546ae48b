------------------------ MODULE RemoteSessionProofs ------------------------
(***************************************************************************)
(* Theorems about RemoteSession, for any set of clients, passwords,        *)
(* patterns and codes, and whatever datagrams are lost or late.            *)
(***************************************************************************)
EXTENDS RemoteSession, TLAPS

-----------------------------------------------------------------------------
(* The invariant *)

\* What a client at a place may have asked, and what it may be told there.
KindsAt(place) ==
    CASE place = "ping" -> {":ping"}
      [] place = "login" -> {":login"}
      [] place \in {"code", "jcode"} -> {":mfa"}
      [] place \in {"auth", "jauth"} -> {":auth"}
      [] place = "setp" -> {":setp"}
      [] place = "jsetp" -> {":jsetp"}
      [] place = "stop" -> {"stop"}
      [] place = "ask" -> GuestAsks \cup AdminAsks
      [] OTHER -> {}
AnswersAt(place) ==
    CASE place \in {"ping", "code", "jcode", "auth", "jauth"} -> {"ok", "bad"}
      [] place = "login" -> {"ok", "bad", "code"}
      [] place \in {"setp", "jsetp"} -> {"ok"}
      [] place \in {"ask", "stop"} -> {"text"}
      [] OTHER -> {}

\* A request in the server's socket is the only one of its client, which has no
\* answer yet, and waits for this one if it has not left.
RequestsInv ==
    /\ \A i \in DOMAIN requests :
        /\ answers[requests[i].from] = <<>>
        /\ pc[requests[i].from] \in Over \/ requests[i].kind \in KindsAt(pc[requests[i].from])
    /\ \A i, j \in DOMAIN requests : requests[i].from = requests[j].from => i = j

\* An answer is the only one of its client, and one for the place it waits at.
AnswersInv ==
    \A c \in Clients :
        answers[c] = <<>> \/ \E a \in AnswersAt(pc[c]) : answers[c] = <<a>>

\* Who stops the system or is in the shell has logged in.
AdminInv ==
    \A c \in Clients : /\ pc[c] # "aborted"
                       /\ pc[c] \in {"stop", "shell"} => isLoggedIn[c]

\* What the server is told to store may be stored, and in a camera call it is at
\* a request to toggle.
ServerInv ==
    /\ \A i \in DOMAIN requests :
        /\ requests[i].kind = ":setp" => requests[i].arg \in UNION {Knows[c] : c \in Clients}
        /\ requests[i].kind = ":jsetp" => requests[i].arg \in Patterns
    /\ server = "toggling" => requests # <<>> /\ requests[1].kind = "toggle"

QueuesOK ==
    /\ pc \in [Clients -> {"start"} \cup Waiting \cup Typing \cup Over]
    /\ isLoggedIn \in [Clients -> BOOLEAN]
    /\ answers \in [Clients -> Seq(Answers)]
    /\ server \in {"receiving", "toggling", "stopped"}
    /\ requests \in Seq(Requests)
StoredOK ==
    /\ config \in Settings
    /\ password \in UNION {Knows[c] : c \in Clients}
    /\ pattern \in (Patterns \ LongPatterns) \cup {Unmatched}
    /\ rangeError \in BOOLEAN

SessionInv == QueuesOK /\ RequestsInv /\ AnswersInv /\ AdminInv /\ ServerInv
IInv == SessionInv /\ StoredOK /\ code \in Codes

-----------------------------------------------------------------------------
(* Places *)

\* Who has asked for nothing waits for nothing.
LEMMA QuietPlaces ==
    ASSUME NEW place \in {"start"} \cup Typing \cup Over
    PROVE  KindsAt(place) = {} /\ AnswersAt(place) = {}
  BY DEF Typing, Over, KindsAt, AnswersAt

\* A client that waits for nothing has neither a request nor an answer.
LEMMA QuietClients ==
    ASSUME SessionInv, NEW c \in Clients, pc[c] \in {"start"} \cup Typing
    PROVE  /\ answers[c] = <<>>
           /\ \A i \in DOMAIN requests : requests[i].from # c
<1>1. KindsAt(pc[c]) = {} /\ AnswersAt(pc[c]) = {}
  BY QuietPlaces
<1>2. pc[c] \notin Over
  BY DEF Typing, Over
<1> QED
  BY <1>1, <1>2 DEF SessionInv, RequestsInv, AnswersInv

\* A client that has an answer has no request.
LEMMA AnsweredClients ==
    ASSUME SessionInv, NEW c \in Clients, answers[c] # <<>>
    PROVE  \A i \in DOMAIN requests : requests[i].from # c
  BY DEF SessionInv, RequestsInv

\* Appending a request.
LEMMA Appended ==
    ASSUME SessionInv, NEW r \in Requests
    PROVE  /\ Append(requests, r) \in Seq(Requests)
           /\ DOMAIN Append(requests, r) = DOMAIN requests \cup {Len(requests) + 1}
           /\ Append(requests, r)[Len(requests) + 1] = r
           /\ \A i \in DOMAIN requests : Append(requests, r)[i] = requests[i]
           /\ Len(requests) + 1 \notin DOMAIN requests
  BY DEF SessionInv, QueuesOK

-----------------------------------------------------------------------------
(* Steps of a client *)

\* Sending.
LEMMA SendKeeps ==
    ASSUME SessionInv, NEW c \in Clients, NEW place \in Waiting,
           NEW kind \in KindsAt(place), NEW arg \in Arguments,
           pc[c] \in {"start"} \cup Typing,
           place = "stop" => isLoggedIn[c],
           kind = ":setp" => arg \in UNION {Knows[k] : k \in Clients},
           kind = ":jsetp" => arg \in Patterns,
           Send(c, kind, arg, place)
    PROVE  SessionInv'
<1> DEFINE r == [from |-> c, kind |-> kind, arg |-> arg]
<1>1. r \in Requests
  BY DEF Requests, KindsAt, Waiting, GuestAsks, AdminAsks
<1>2. answers[c] = <<>> /\ \A i \in DOMAIN requests : requests[i].from # c
  BY QuietClients
<1>3. pc' = [pc EXCEPT ![c] = place] /\ UNCHANGED <<isLoggedIn, answers, server>>
  BY DEF Send, Goto
<1>4. requests' \in {requests, Append(requests, r)}
  BY DEF Send
<1>5. \A i \in DOMAIN requests' :
        \/ i \in DOMAIN requests /\ requests'[i] = requests[i]
        \/ i = Len(requests) + 1 /\ requests'[i] = r
  BY <1>1, <1>4, Appended
<1>6. QueuesOK'
  BY <1>1, <1>3, <1>4, Appended DEF SessionInv, QueuesOK
<1>7. RequestsInv'
  <2>1. ASSUME NEW i \in DOMAIN requests'
        PROVE  /\ answers'[requests'[i].from] = <<>>
               /\ \/ pc'[requests'[i].from] \in Over
                  \/ requests'[i].kind \in KindsAt(pc'[requests'[i].from])
    <3>1. CASE i \in DOMAIN requests /\ requests'[i] = requests[i]
      BY <1>2, <1>3, <3>1 DEF SessionInv, QueuesOK, RequestsInv
    <3>2. CASE requests'[i] = r
      BY <1>2, <1>3, <3>2 DEF SessionInv, QueuesOK
    <3> QED
      BY <1>5, <2>1, <3>1, <3>2
  <2>2. ASSUME NEW i \in DOMAIN requests', NEW j \in DOMAIN requests',
               requests'[i].from = requests'[j].from
        PROVE  i = j
    BY <1>2, <1>5, <2>2 DEF SessionInv, RequestsInv
  <2> QED
    BY <2>1, <2>2 DEF RequestsInv
<1>8. AnswersInv'
  BY <1>2, <1>3 DEF SessionInv, QueuesOK, AnswersInv
<1>9. AdminInv'
  BY <1>3 DEF SessionInv, QueuesOK, AdminInv, Waiting
<1>10. ServerInv'
  <2>1. ASSUME NEW i \in DOMAIN requests'
        PROVE  /\ requests'[i].kind = ":setp" =>
                    requests'[i].arg \in UNION {Knows[k] : k \in Clients}
               /\ requests'[i].kind = ":jsetp" => requests'[i].arg \in Patterns
    BY <1>5, <2>1 DEF SessionInv, ServerInv
  <2>2. ASSUME server' = "toggling"
        PROVE  requests' # <<>> /\ requests'[1].kind = "toggle"
    <3>1. requests # <<>> /\ requests[1].kind = "toggle"
      BY <1>3, <2>2 DEF SessionInv, ServerInv
    <3>2. 1 \in DOMAIN requests
      BY <3>1 DEF SessionInv, QueuesOK
    <3>3. requests'[1] = requests[1]
      BY <1>1, <1>4, <3>2, Appended
    <3>4. Append(requests, r) # <<>>
      BY <1>1 DEF SessionInv, QueuesOK
    <3> QED
      BY <1>4, <3>1, <3>3, <3>4
  <2> QED
    BY <2>1, <2>2 DEF ServerInv
<1> QED
  BY <1>6, <1>7, <1>8, <1>9, <1>10 DEF SessionInv

\* A decision without the server.
LEMMA DecideKeeps ==
    ASSUME SessionInv, NEW c \in Clients, NEW place \in {"prompt", "closed", "shell"},
           NEW logged \in BOOLEAN,
           answers[c] = <<>>,
           pc[c] \in Typing \/ place # "prompt",
           place = "shell" => logged,
           Decide(c, place, logged)
    PROVE  SessionInv'
<1>1. /\ pc' = [pc EXCEPT ![c] = place]
      /\ isLoggedIn' = [isLoggedIn EXCEPT ![c] = logged]
      /\ UNCHANGED <<answers, server, requests>>
  BY DEF Decide, Goto
<1>2. QueuesOK'
  BY <1>1 DEF SessionInv, QueuesOK, Typing, Over
<1>3. RequestsInv'
  <2>1. place \in Over \/ \A i \in DOMAIN requests : requests[i].from # c
    BY QuietClients DEF Over
  <2> QED
    BY <1>1, <2>1 DEF SessionInv, QueuesOK, RequestsInv
<1>4. AnswersInv'
  BY <1>1 DEF SessionInv, QueuesOK, AnswersInv
<1>5. AdminInv'
  BY <1>1 DEF SessionInv, QueuesOK, AdminInv
<1>6. ServerInv'
  BY <1>1 DEF SessionInv, ServerInv
<1> QED
  BY <1>2, <1>3, <1>4, <1>5, <1>6 DEF SessionInv

\* Taking an answer.
LEMMA TakeKeeps ==
    ASSUME SessionInv, NEW c \in Clients, NEW at, NEW kinds,
           NEW place \in Typing \cup {"closed", "shell"},
           place = "shell" => isLoggedIn[c],
           Take(c, at, kinds, place),
           isLoggedIn' \in {isLoggedIn, [isLoggedIn EXCEPT ![c] = TRUE]}
    PROVE  SessionInv'
<1>1. /\ pc' = [pc EXCEPT ![c] = place]
      /\ answers[c] # <<>>
      /\ answers' = [answers EXCEPT ![c] = Tail(answers[c])]
      /\ UNCHANGED <<server, requests>>
  BY DEF Take, Goto
<1>2. Tail(answers[c]) = <<>>
  <2>1. PICK a \in AnswersAt(pc[c]) : answers[c] = <<a>>
    BY <1>1 DEF SessionInv, AnswersInv
  <2>2. Tail(<<a>>) = <<>>
    OBVIOUS
  <2> QED
    BY <2>1, <2>2
<1>3. \A i \in DOMAIN requests : requests[i].from # c
  BY <1>1, AnsweredClients
<1>4. QueuesOK'
  <2>1. <<>> \in Seq(Answers)
    OBVIOUS
  <2> QED
    BY <1>1, <1>2, <2>1 DEF SessionInv, QueuesOK, Typing, Over
<1>5. RequestsInv'
  BY <1>1, <1>3 DEF SessionInv, QueuesOK, RequestsInv
<1>6. AnswersInv'
  BY <1>1, <1>2 DEF SessionInv, QueuesOK, AnswersInv
<1>7. AdminInv'
  BY <1>1 DEF SessionInv, QueuesOK, AdminInv, Typing
<1>8. ServerInv'
  BY <1>1 DEF SessionInv, ServerInv
<1> QED
  BY <1>4, <1>5, <1>6, <1>7, <1>8 DEF SessionInv

-----------------------------------------------------------------------------
(* Steps of the server *)

\* The request in hand is done with.
LEMMA Handled ==
    ASSUME SessionInv, requests # <<>>
    PROVE  /\ 1 \in DOMAIN requests /\ requests[1] \in Requests
           /\ Head(requests) = requests[1]
           /\ Tail(requests) \in Seq(Requests)
           /\ \A i \in DOMAIN Tail(requests) :
                /\ i \in Nat /\ i + 1 \in DOMAIN requests
                /\ Tail(requests)[i] = requests[i + 1]
                /\ requests[i + 1].from \in Clients \ {requests[1].from}
<1>1. /\ requests[1] \in Requests /\ 1 \in DOMAIN requests
      /\ Head(requests) = requests[1]
      /\ Tail(requests) \in Seq(Requests)
  BY DEF SessionInv, QueuesOK
<1>2. ASSUME NEW i \in DOMAIN Tail(requests)
      PROVE  /\ i \in Nat /\ i + 1 \in DOMAIN requests /\ i + 1 # 1
             /\ requests[i + 1] \in Requests
             /\ Tail(requests)[i] = requests[i + 1]
  BY DEF SessionInv, QueuesOK
<1> QED
  BY <1>1, <1>2 DEF SessionInv, RequestsInv, Requests

\* Answering what may be answered to the request in hand.
LEMMA AnswerKeeps ==
    ASSUME SessionInv, requests # <<>>, NEW a \in Answers,
           LET r == requests[1]
           IN  r.kind \in KindsAt(pc[r.from]) => a \in AnswersAt(pc[r.from]),
           Answer(a),
           server' \in {"receiving", "stopped"}
    PROVE  SessionInv'
<1> DEFINE c == requests[1].from
<1>1. /\ requests' = Tail(requests)
      /\ UNCHANGED <<pc, isLoggedIn>>
      /\ \/ answers' = answers
         \/ pc[c] \notin Over /\ answers' = [answers EXCEPT ![c] = Append(answers[c], a)]
  BY Handled DEF Answer, clientVars
<1>2. c \in Clients /\ answers[c] = <<>>
  BY Handled DEF SessionInv, QueuesOK, RequestsInv, Requests
<1>3. Append(<<>>, a) = <<a>>
  OBVIOUS
<1>4. answers' \in {answers, [answers EXCEPT ![c] = <<a>>]}
  BY <1>1, <1>2, <1>3
<1>5. QueuesOK'
  <2>1. <<a>> \in Seq(Answers)
    OBVIOUS
  <2>2. answers' \in [Clients -> Seq(Answers)]
    BY <1>4, <2>1 DEF SessionInv, QueuesOK
  <2>3. requests' \in Seq(Requests)
    BY <1>1, Handled
  <2> QED
    BY <1>1, <2>2, <2>3 DEF SessionInv, QueuesOK
<1>6. RequestsInv'
  <2>1. ASSUME NEW i \in DOMAIN requests'
        PROVE  /\ answers'[requests'[i].from] = <<>>
               /\ \/ pc'[requests'[i].from] \in Over
                  \/ requests'[i].kind \in KindsAt(pc'[requests'[i].from])
    <3>1. /\ i + 1 \in DOMAIN requests /\ requests'[i] = requests[i + 1]
          /\ requests[i + 1].from \in Clients \ {c}
      BY <1>1, <2>1, Handled
    <3>2. answers'[requests[i + 1].from] = answers[requests[i + 1].from]
      BY <1>2, <1>4, <3>1 DEF SessionInv, QueuesOK
    <3> QED
      BY <1>1, <3>1, <3>2 DEF SessionInv, RequestsInv
  <2>2. ASSUME NEW i \in DOMAIN requests', NEW j \in DOMAIN requests',
               requests'[i].from = requests'[j].from
        PROVE  i = j
    <3>1. i + 1 = j + 1
      BY <1>1, <2>2, Handled DEF SessionInv, RequestsInv
    <3>2. i \in Nat /\ j \in Nat
      BY <1>1, Handled
    <3> QED
      BY <3>1, <3>2
  <2> QED
    BY <2>1, <2>2 DEF RequestsInv
<1>7. AnswersInv'
  <2>1. pc[c] \in Over \/ a \in AnswersAt(pc[c])
    <3>1. pc[c] \in Over \/ requests[1].kind \in KindsAt(pc[c])
      BY Handled DEF SessionInv, RequestsInv
    <3> QED
      BY <3>1
  <2>2. \/ answers' = answers
        \/ a \in AnswersAt(pc[c]) /\ answers' = [answers EXCEPT ![c] = <<a>>]
    BY <1>1, <1>2, <1>3, <2>1
  <2>3. SUFFICES ASSUME NEW k \in Clients
                 PROVE  answers'[k] = <<>> \/ \E x \in AnswersAt(pc[k]) : answers'[k] = <<x>>
    BY <1>1 DEF AnswersInv
  <2>4. CASE answers' = answers
    BY <2>4 DEF SessionInv, AnswersInv
  <2>5. CASE a \in AnswersAt(pc[c]) /\ answers' = [answers EXCEPT ![c] = <<a>>]
    BY <1>2, <2>5 DEF SessionInv, QueuesOK, AnswersInv
  <2> QED
    BY <2>2, <2>4, <2>5
<1>8. AdminInv'
  BY <1>1 DEF SessionInv, AdminInv
<1>9. ServerInv'
  BY <1>1, Handled DEF SessionInv, ServerInv
<1> QED
  BY <1>5, <1>6, <1>7, <1>8, <1>9 DEF SessionInv

\* What a handler answers fits wherever its request may come from.
LEMMA AnswersFit ==
    ASSUME NEW kind, NEW place, kind \in KindsAt(place)
    PROVE  /\ kind \in {":ping", ":mfa", ":auth"} => {"ok", "bad"} \subseteq AnswersAt(place)
           /\ kind = ":login" => {"ok", "bad", "code"} \subseteq AnswersAt(place)
           /\ kind \in {":setp", ":jsetp"} => "ok" \in AnswersAt(place)
           /\ kind \in {"stop"} \cup GuestAsks \cup AdminAsks => "text" \in AnswersAt(place)
  BY DEF KindsAt, AnswersAt, GuestAsks, AdminAsks

-----------------------------------------------------------------------------
(* The invariant, action by action *)

LEMMA InvInit ==
    ASSUME Init
    PROVE  IInv
<1>1. <<>> \in Seq(Answers) /\ <<>> \in Seq(Requests) /\ DOMAIN <<>> = {}
  OBVIOUS
<1>2. QueuesOK
  BY <1>1 DEF Init, QueuesOK
<1>3. RequestsInv /\ AnswersInv /\ AdminInv /\ ServerInv
  BY <1>1 DEF Init, RequestsInv, AnswersInv, AdminInv, ServerInv
<1>4. StoredOK /\ code \in Codes
  BY RemoteAssumption DEF Init, StoredOK
<1> QED
  BY <1>2, <1>3, <1>4 DEF IInv, SessionInv

\* What users do.
LEMMA UserKeeps ==
    ASSUME SessionInv, NEW c \in Clients, User(c)
    PROVE  SessionInv'
<1> USE DEF Typing, Waiting
<1>0. "none" \in Arguments
  BY DEF Arguments
<1>1. CASE Connect(c)
  <2>1. PICK arg \in Arguments : Send(c, ":ping", arg, "ping")
    BY <1>0, <1>1 DEF Connect
  <2> QED
    BY <1>1, <2>1, SendKeeps DEF Connect, KindsAt
<1>2. ASSUME pc[c] \in Typing
      PROVE  answers[c] = <<>>
  BY <1>2, QuietClients
<1>3. isLoggedIn[c] \in BOOLEAN
  BY DEF SessionInv, QueuesOK
<1>4. CASE Exit(c)
  BY <1>2, <1>3, <1>4, DecideKeeps DEF Exit, At
<1>5. CASE Logout(c)
  BY <1>2, <1>5, DecideKeeps DEF Logout, At
<1>6. CASE AccessHost(c)
  BY <1>2, <1>6, DecideKeeps DEF AccessHost, At
<1>7. CASE Fumble(c)
  BY <1>2, <1>3, <1>7, DecideKeeps DEF Fumble
<1>8. \A p \in Knows[c] : p \in Arguments /\ p \in UNION {Knows[k] : k \in Clients}
  BY DEF Arguments
<1>9. CASE Login(c)
  BY <1>8, <1>9, SendKeeps DEF Login, At, KindsAt
<1>10. CASE Ask(c)
  <2>1. PICK a \in Asks[c] : Send(c, a[1], a[2], "ask") /\ pc[c] = "prompt"
    BY <1>10 DEF Ask
  <2>2. a[1] \in GuestAsks \cup AdminAsks
    BY <2>1, RemoteAssumption
  <2>3. a[2] \in Arguments
    BY <2>1 DEF Arguments
  <2> QED
    BY <2>1, <2>2, <2>3, SendKeeps DEF KindsAt, GuestAsks, AdminAsks
<1>11. CASE StopSystem(c)
  <2>1. PICK arg \in Arguments : Send(c, "stop", arg, "stop")
    BY <1>0, <1>11 DEF StopSystem
  <2> QED
    BY <1>11, <2>1, SendKeeps DEF StopSystem, At, KindsAt
<1>12. CASE ChangePassword(c)
  BY <1>8, <1>12, SendKeeps DEF ChangePassword, At, KindsAt
<1>13. CASE ChangePattern(c)
  BY <1>8, <1>13, SendKeeps DEF ChangePattern, At, KindsAt
<1>14. CASE EnterCode(c)
  <2>1. PICK x \in Codes :
            \/ pc[c] = "enterCode" /\ Send(c, ":mfa", x, "code")
            \/ pc[c] = "jenterCode" /\ Send(c, ":mfa", x, "jcode")
    BY <1>14 DEF EnterCode
  <2>2. x \in Arguments
    BY DEF Arguments
  <2> QED
    BY <2>1, <2>2, SendKeeps DEF KindsAt
<1>15. CASE EnterPassword(c)
  BY <1>8, <1>15, SendKeeps DEF EnterPassword, KindsAt
<1>16. CASE EnterPattern(c)
  <2>1. PICK p \in Patterns : pc[c] = "newPattern" /\ Send(c, ":jsetp", p, "jsetp")
    BY <1>16 DEF EnterPattern
  <2>2. p \in Arguments
    BY DEF Arguments
  <2> QED
    BY <2>1, <2>2, SendKeeps DEF KindsAt
<1> QED
  BY <1>1, <1>4, <1>5, <1>6, <1>7, <1>9, <1>10, <1>11, <1>12, <1>13, <1>14, <1>15,
     <1>16 DEF User

\* What clients receive.  No answer to a code is neither yes nor no: nothing
\* aborts.
LEMMA ReceiveKeeps ==
    ASSUME SessionInv, NEW c \in Clients, Receive(c)
    PROVE  SessionInv'
<1> USE DEF Typing
<1>1. CASE LoggedIn(c)
  BY <1>1, TakeKeeps DEF LoggedIn
<1>2. CASE Answered(c)
  <2>1. UNCHANGED isLoggedIn
    BY <1>2 DEF Answered
  <2>2. ~Take(c, "code", Answers \ {"ok", "bad"}, "aborted")
    <3>1. ASSUME pc[c] = "code", answers[c] # <<>>
          PROVE  Head(answers[c]) \in {"ok", "bad"}
      <4>1. PICK a \in {"ok", "bad"} : answers[c] = <<a>>
        BY <3>1 DEF SessionInv, AnswersInv, AnswersAt
      <4>2. Head(<<a>>) = a
        OBVIOUS
      <4> QED
        BY <4>1, <4>2
    <3> QED
      BY <3>1 DEF Take
  <2>3. CASE Take(c, "stop", Answers, "shell")
    <3>1. isLoggedIn[c]
      BY <2>3 DEF Take, SessionInv, AdminInv
    <3> QED
      BY <2>1, <2>3, <3>1, TakeKeeps
  <2>4. \/ Take(c, "stop", Answers, "shell")
        \/ \E at, kinds, place : /\ place \in Typing \cup {"closed"}
                                /\ Take(c, at, kinds, place)
    BY <1>2, <2>2 DEF Answered
  <2> QED
    BY <2>1, <2>3, <2>4, TakeKeeps
<1> QED
  BY <1>1, <1>2 DEF Receive

LEMMA TimeoutKeeps ==
    ASSUME SessionInv, NEW c \in Clients, Timeout(c)
    PROVE  SessionInv'
<1>1. isLoggedIn[c] \in BOOLEAN
  BY DEF SessionInv, QueuesOK
<1>2. CASE isLoggedIn[c]
  BY <1>1, <1>2, DecideKeeps DEF Timeout
<1>3. CASE ~isLoggedIn[c]
  BY <1>1, <1>3, DecideKeeps DEF Timeout
<1> QED
  BY <1>2, <1>3

LEMMA KilledKeeps ==
    ASSUME SessionInv, NEW c \in Clients, Killed(c)
    PROVE  SessionInv'
<1>1. /\ pc' = [pc EXCEPT ![c] = "killed"]
      /\ answers' = [answers EXCEPT ![c] = <<>>]
      /\ UNCHANGED <<isLoggedIn, server, requests>>
  BY DEF Killed, Goto
<1>2. QueuesOK'
  <2>1. <<>> \in Seq(Answers)
    OBVIOUS
  <2> QED
    BY <1>1, <2>1 DEF SessionInv, QueuesOK, Over
<1>3. RequestsInv'
  BY <1>1 DEF SessionInv, QueuesOK, RequestsInv, Over
<1>4. AnswersInv'
  BY <1>1 DEF SessionInv, QueuesOK, AnswersInv
<1>5. AdminInv'
  BY <1>1 DEF SessionInv, QueuesOK, AdminInv
<1>6. ServerInv'
  BY <1>1 DEF SessionInv, ServerInv
<1> QED
  BY <1>2, <1>3, <1>4, <1>5, <1>6 DEF SessionInv

\* What the server does.
LEMMA ServeKeeps ==
    ASSUME SessionInv, Serve
    PROVE  SessionInv'
<1> DEFINE r == requests[1]
           place == pc[r.from]
<1>1. ASSUME NEW kind, Handling(kind)
      PROVE  requests # <<>> /\ r.kind = kind /\ server = "receiving"
  BY <1>1, Handled DEF Handling
<1>2. ASSUME NEW kind, Handling(kind), NEW right \in BOOLEAN,
             kind \in {":ping", ":mfa", ":auth"}, Verdict(right), server' = server
      PROVE  SessionInv'
  <2>1. \E a \in {"ok", "bad"} : Answer(a)
    BY <1>2 DEF Verdict
  <2>2. {"ok", "bad"} \subseteq Answers
    BY DEF Answers
  <2> QED
    BY <1>1, <1>2, <2>1, <2>2, AnswersFit, AnswerKeeps
<1>3. ASSUME NEW kind, Handling(kind), kind \in {"stop"} \cup GuestAsks \cup AdminAsks,
             Answer("text"), server' \in {"receiving", "stopped"}
      PROVE  SessionInv'
  BY <1>1, <1>3, AnswersFit, AnswerKeeps DEF Answers
<1>4. ASSUME NEW kind, Handling(kind), kind \in {":setp", ":jsetp"},
             Answer("ok"), server' = server
      PROVE  SessionInv'
  BY <1>1, <1>4, AnswersFit, AnswerKeeps DEF Answers
<1>5. CASE Ping
  BY <1>2, <1>5 DEF Ping
<1>6. CASE HandleLogin
  <2>1. PICK a \in {"ok", "bad", "code"} : Answer(a)
    BY <1>6 DEF HandleLogin
  <2> QED
    BY <1>1, <1>6, <2>1, AnswersFit, AnswerKeeps DEF HandleLogin, Answers
<1>7. CASE LoginMFA
  BY <1>2, <1>7 DEF LoginMFA
<1>8. CASE VerifyIdentity
  BY <1>2, <1>8 DEF VerifyIdentity
<1>9. CASE SetPassword
  BY <1>4, <1>9 DEF SetPassword
<1>10. CASE SetPattern
  BY <1>4, <1>10 DEF SetPattern
<1>11. CASE Report
  <2>1. PICK kind \in GuestAsks \cup AdminAsks : Handling(kind)
    BY <1>11 DEF Report, AdminAsks
  <2> QED
    BY <1>1, <1>3, <1>11, <2>1 DEF Report
<1> USE DEF AdminAsks
<1>12. CASE ToggleDevice
  BY <1>1, <1>3, <1>12 DEF ToggleDevice, Configure
<1>13. CASE ResetThreshold
  BY <1>1, <1>3, <1>13 DEF ResetThreshold, Configure
<1>14. CASE SetThreshold
  BY <1>1, <1>3, <1>14 DEF SetThreshold
<1>15. CASE ConfigureAutoLogout
  BY <1>1, <1>3, <1>15 DEF ConfigureAutoLogout, Configure
<1>16. CASE ConfigureRemoteAccess
  BY <1>1, <1>3, <1>16 DEF ConfigureRemoteAccess, Configure
<1>17. CASE ToggleCamera
  <2>1. CASE config.trigger
    BY <1>1, <1>3, <1>17, <2>1 DEF ToggleCamera
  <2>2. CASE ~config.trigger
    <3>1. server' = "toggling" /\ UNCHANGED <<pc, isLoggedIn, answers, requests>>
      BY <1>17, <2>2 DEF ToggleCamera, clientVars
    <3>2. requests # <<>> /\ requests[1].kind = "toggle"
      BY <1>1, <1>17 DEF ToggleCamera
    <3> QED
      BY <3>1, <3>2 DEF SessionInv, QueuesOK, RequestsInv, AnswersInv, AdminInv, ServerInv
  <2> QED
    BY <2>1, <2>2
<1>18. CASE CameraReturns
  <2>1. requests # <<>> /\ r.kind = "toggle"
    BY <1>18 DEF CameraReturns, SessionInv, ServerInv
  <2> QED
    BY <1>18, <2>1, AnswersFit, AnswerKeeps DEF CameraReturns, Answers
<1>19. CASE Stop
  BY <1>1, <1>3, <1>19 DEF Stop
<1> QED
  BY <1>5, <1>6, <1>7, <1>8, <1>9, <1>10, <1>11, <1>12, <1>13, <1>14, <1>15, <1>16,
     <1>17, <1>18, <1>19 DEF Serve

\* Setting one of the settings to a value of its own.
LEMMA SettingKept ==
    ASSUME config \in Settings, NEW s \in {"policy", "autoLogout", "threshold"} \cup Devices,
           NEW v \in ValuesOf(s)
    PROVE  [config EXCEPT ![s] = v] \in Settings
<1>1. CASE s = "policy"
  BY <1>1 DEF Settings, ValuesOf
<1>2. CASE s = "autoLogout"
  BY <1>2 DEF Settings, ValuesOf
<1>3. CASE s = "threshold"
  BY <1>3 DEF Settings, ValuesOf
<1>4. CASE s = "pir"
  BY <1>4 DEF Settings, ValuesOf
<1>5. CASE s = "log"
  BY <1>5 DEF Settings, ValuesOf
<1>6. CASE s = "trigger"
  BY <1>6 DEF Settings, ValuesOf
<1> QED
  BY <1>1, <1>2, <1>3, <1>4, <1>5, <1>6 DEF Devices

\* What is stored changes in the server and at the device only.
LEMMA StoredKept ==
    ASSUME IInv, Next
    PROVE  StoredOK'
<1>1. ASSUME UNCHANGED stored
      PROVE  StoredOK'
  BY <1>1 DEF IInv, StoredOK, stored
<1>2. ASSUME NEW kind, Handling(kind)
      PROVE  /\ requests[1].kind = kind /\ Arg = requests[1].arg
             /\ 1 \in DOMAIN requests
  BY <1>2, Handled DEF IInv, Handling, Arg
<1>3. ASSUME config' \in Settings, UNCHANGED <<password, pattern>>, rangeError' \in BOOLEAN
      PROVE  StoredOK'
  BY <1>3 DEF IInv, StoredOK
<1>4. config \in Settings /\ rangeError \in BOOLEAN
  BY DEF IInv, StoredOK
<1>5. ASSUME NEW s \in {"policy", "autoLogout", "threshold"} \cup Devices,
             NEW v \in ValuesOf(s), Configure(s, v)
      PROVE  StoredOK'
  BY <1>3, <1>4, <1>5, SettingKept DEF Configure
<1>6. ASSUME NEW c \in Clients, User(c) \/ Receive(c) \/ Timeout(c) \/ Killed(c)
      PROVE  StoredOK'
  <2>1. UNCHANGED stored
    <3>1. CASE User(c)
      BY <3>1 DEF User, Connect, Exit, Logout, AccessHost, Login, Ask, StopSystem,
                  ChangePassword, ChangePattern, Fumble, EnterCode, EnterPassword,
                  EnterPattern, Send, Decide
    <3>2. CASE Receive(c)
      BY <3>2 DEF Receive, LoggedIn, Answered, Take
    <3>3. CASE Timeout(c)
      BY <3>3 DEF Timeout, Decide
    <3>4. CASE Killed(c)
      BY <3>4 DEF Killed
    <3> QED
      BY <1>6, <3>1, <3>2, <3>3, <3>4
  <2> QED
    BY <1>1, <2>1
<1>7. CASE Serve
  <2>1. CASE SetPassword
    <3>1. Arg \in UNION {Knows[c] : c \in Clients}
      BY <1>2, <2>1 DEF SetPassword, IInv, SessionInv, ServerInv
    <3> QED
      BY <2>1, <3>1 DEF SetPassword, IInv, StoredOK
  <2>2. CASE SetPattern
    <3>1. Arg \in Patterns
      BY <1>2, <2>2 DEF SetPattern, IInv, SessionInv, ServerInv
    <3> QED
      BY <2>2, <3>1 DEF SetPattern, IInv, StoredOK
  <2>3. CASE ToggleDevice
    <3>1. Arg \in Devices /\ (~config[Arg]) \in BOOLEAN
      BY <2>3 DEF ToggleDevice
    <3>2. ValuesOf(Arg) = BOOLEAN
      BY <3>1 DEF Devices, ValuesOf
    <3> QED
      BY <1>5, <2>3, <3>1, <3>2 DEF ToggleDevice
  <2>4. CASE ResetThreshold
    <3>1. DEFAULT_THRESHOLD \in ValuesOf("threshold")
      BY DEF DEFAULT_THRESHOLD, ValuesOf, Thresholds
    <3> QED
      BY <1>5, <2>4, <3>1 DEF ResetThreshold
  <2>5. CASE ConfigureAutoLogout
    <3>1. Arg \in ValuesOf("autoLogout")
      BY <2>5 DEF ConfigureAutoLogout, ValuesOf
    <3> QED
      BY <1>5, <2>5, <3>1 DEF ConfigureAutoLogout
  <2>6. CASE ConfigureRemoteAccess
    <3>1. Arg \in ValuesOf("policy")
      BY <2>6 DEF ConfigureRemoteAccess, ValuesOf
    <3> QED
      BY <1>5, <2>6, <3>1 DEF ConfigureRemoteAccess
  <2>7. CASE SetThreshold
    <3>1. Arg \in Thresholds => [config EXCEPT !.threshold = Arg] \in Settings
      BY <1>4 DEF Settings
    <3>2. config' \in {config, [config EXCEPT !.threshold = Arg]}
      BY <2>7 DEF SetThreshold
    <3> QED
      BY <1>3, <1>4, <2>7, <3>1, <3>2 DEF SetThreshold
  <2>8. CASE CameraReturns
    BY <1>3, <1>4, <2>8 DEF CameraReturns
  <2>9. CASE \/ Ping \/ HandleLogin \/ LoginMFA \/ VerifyIdentity \/ Report
             \/ ToggleCamera \/ Stop
    <3>1. UNCHANGED stored
      BY <2>9 DEF Ping, HandleLogin, LoginMFA, VerifyIdentity, Report, ToggleCamera,
                  Stop, Answer
    <3> QED
      BY <1>1, <3>1
  <2> QED
    BY <1>7, <2>1, <2>2, <2>3, <2>4, <2>5, <2>6, <2>7, <2>8, <2>9 DEF Serve
<1>8. CASE Refresh
  BY <1>1, <1>8 DEF Refresh
<1>9. CASE AtDevice
  <2>1. PICK s \in MenuSets : \E v \in ValuesOf(s) : config' = [config EXCEPT ![s] = v]
    BY <1>9 DEF AtDevice
  <2>2. s \in {"policy", "autoLogout", "threshold"} \cup Devices
    BY RemoteAssumption
  <2>3. config' \in Settings
    BY <1>4, <2>1, <2>2, SettingKept
  <2> QED
    BY <1>3, <1>4, <1>9, <2>3 DEF AtDevice
<1> QED
  BY <1>6, <1>7, <1>8, <1>9 DEF Next

LEMMA InvStep ==
    ASSUME IInv, [Next]_vars
    PROVE  IInv'
<1>1. CASE Next
  <2>1. SessionInv'
    <3>1. SessionInv
      BY DEF IInv
    <3>2. CASE Refresh \/ AtDevice
      <4>1. UNCHANGED <<pc, isLoggedIn, answers, server, requests>>
        BY <3>2 DEF Refresh, AtDevice, clientVars
      <4> QED
        BY <3>1, <4>1 DEF SessionInv, QueuesOK, RequestsInv, AnswersInv, AdminInv, ServerInv
    <3> QED
      BY <1>1, <3>1, <3>2, UserKeeps, ReceiveKeeps, TimeoutKeeps, KilledKeeps, ServeKeeps
         DEF Next
  <2>2. code' \in Codes
    <3>1. ASSUME UNCHANGED code
          PROVE  code' \in Codes
      BY <3>1 DEF IInv
    <3>2. CASE Refresh
      BY <3>2 DEF Refresh
    <3>3. CASE Serve \/ AtDevice
      BY <3>1, <3>3 DEF Serve, Ping, HandleLogin, LoginMFA, VerifyIdentity, SetPassword,
            SetPattern, Report, ToggleDevice, ResetThreshold, SetThreshold,
            ConfigureAutoLogout, ConfigureRemoteAccess, ToggleCamera, CameraReturns,
            Stop, Configure, Verdict, Answer, AtDevice
    <3>4. ASSUME NEW c \in Clients, User(c) \/ Receive(c) \/ Timeout(c) \/ Killed(c)
          PROVE  UNCHANGED code
      BY <3>4 DEF User, Connect, Exit, Logout, AccessHost, Login, Ask, StopSystem,
            ChangePassword, ChangePattern, Fumble, EnterCode, EnterPassword, EnterPattern,
            Send, Decide, Receive, LoggedIn, Answered, Take, Timeout, Killed
    <3> QED
      BY <1>1, <3>1, <3>2, <3>3, <3>4 DEF Next
  <2> QED
    BY <1>1, <2>1, <2>2, StoredKept DEF IInv
<1>2. CASE UNCHANGED vars
  BY <1>2 DEF vars, clientVars, stored, IInv, SessionInv, QueuesOK, RequestsInv,
              AnswersInv, AdminInv, ServerInv, StoredOK
<1> QED
  BY <1>1, <1>2

-----------------------------------------------------------------------------
(* Theorems *)

LEMMA Invariant == Spec => []IInv
<1>1. Init => IInv
  BY InvInit
<1>2. IInv /\ [Next]_vars => IInv'
  BY InvStep
<1> QED
  BY <1>1, <1>2, PTL DEF Spec

\* Every variable keeps its type: in particular only what fits becomes the
\* pattern, and only what someone typed the password, of whatever requests
\* arrive.
THEOREM TypeCorrect == Spec => []TypeOK
<1>1. IInv => TypeOK
  BY DEF IInv, SessionInv, QueuesOK, StoredOK, TypeOK
<1> QED
  BY <1>1, Invariant, PTL

\* The answer a client finds is the one to the request it waits for, for any
\* number of clients and whatever is lost or late (recvFromServ, execute in
\* responseHandler.c).
THEOREM AnswersRight == Spec => []AnswersBelong
<1>1. IInv => AnswersBelong
  <2> SUFFICES ASSUME IInv, NEW c \in Clients
               PROVE  /\ pc[c] # "aborted"
                      /\ Len(answers[c]) <= 1
                      /\ answers[c] # <<>> => AnswerFits(c) /\ ~UnderWay(c)
    BY DEF AnswersBelong
  <2>1. Len(<<>>) <= 1
    OBVIOUS
  <2>2. pc[c] # "aborted"
    BY DEF IInv, SessionInv, AdminInv
  <2>3. CASE answers[c] = <<>>
    BY <2>1, <2>2, <2>3
  <2>4. CASE answers[c] # <<>>
    <3>1. PICK a \in AnswersAt(pc[c]) : answers[c] = <<a>>
      BY <2>4 DEF IInv, SessionInv, AnswersInv
    <3>2. Head(<<a>>) = a /\ Len(<<a>>) = 1
      OBVIOUS
    <3>3. AnswerFits(c)
      BY <3>1, <3>2 DEF AnswerFits, AnswersAt
    <3>4. ~UnderWay(c)
      BY <2>4, AnsweredClients DEF IInv, UnderWay
    <3> QED
      BY <2>2, <3>1, <3>2, <3>3, <3>4
  <2> QED
    BY <2>3, <2>4
<1> QED
  BY <1>1, Invariant, PTL

\* When a client ends by itself, by a command, an answer or a timeout, who gets to
\* the shell of the host is logged in (recvFromServ, stop and accessHost in
\* remoteLoginClient.c), also while signals end other clients.
THEOREM ShellForAdmins == Spec => []HostAccessOnlyForAdmins
<1>1. IInv => HostAccessOnlyForAdmins
  BY DEF IInv, SessionInv, AdminInv, HostAccessOnlyForAdmins
<1> QED
  BY <1>1, Invariant, PTL
=============================================================================

------------------------- MODULE RemoteAccessProofs -------------------------
(***************************************************************************)
(* RemoteSession implements RemoteAccess: every step of clients and server *)
(* is a step of what remote access promises, or changes nothing of it, for *)
(* any set of clients and whatever datagrams are lost or late.             *)
(***************************************************************************)
EXTENDS RemoteSessionProofs

-----------------------------------------------------------------------------
(* The invariant *)

\* Places of those who have not logged in, and of those who have.
Outside == {"start", "ping", "login", "enterCode", "code"}
Inside == {"stop", "auth", "newPassword", "setp", "jauth", "jenterCode", "jcode",
           "newPattern", "jsetp", "shell"}

\* What takes an admin.
Privileged == AdminAsks \cup {"stop", ":auth", ":setp", ":jsetp"}

\* Where a client is and whether it is logged in go together; what takes an
\* admin is asked by admins, who have at most left for the shell; and passwords
\* are typed by users who know them.
StageInv ==
    /\ \A c \in Clients : /\ pc[c] \in Outside => ~isLoggedIn[c]
                          /\ pc[c] \in Inside => isLoggedIn[c]
    /\ \A i \in DOMAIN requests :
        /\ requests[i].kind \in Privileged =>
                isLoggedIn[requests[i].from] /\ pc[requests[i].from] # "closed"
        /\ requests[i].kind \in {":login", ":auth", ":setp"} =>
                requests[i].arg \in Knows[requests[i].from]

AInv == IInv /\ StageInv

-----------------------------------------------------------------------------
(* What a session is made of *)

LEMMA Senders ==
    ASSUME SessionInv
    PROVE  \A i \in DOMAIN requests : requests[i] \in Requests /\ requests[i].from \in Clients
<1>1. \A i \in DOMAIN requests : requests[i] \in Requests
  BY DEF SessionInv, QueuesOK
<1> QED
  BY <1>1 DEF Requests

LEMMA Told ==
    /\ \A a : <<>> # <<a>>
    /\ \A a, b : <<a>> = <<b>> => a = b
  OBVIOUS

\* Nothing else tells what a session has proved.
LEMMA SameSession ==
    ASSUME NEW c \in Clients,
           pc'[c] = pc[c], isLoggedIn'[c] = isLoggedIn[c], answers'[c] = answers[c],
           Requested(c, ":setp")' <=> Requested(c, ":setp"),
           Requested(c, ":jsetp")' <=> Requested(c, ":jsetp")
    PROVE  Session(c)' = Session(c)
  BY DEF Session, Has

\* The sessions of the others.
OthersKept(c) == \A k \in Clients \ {c} : Session(k)' = Session(k)

\* Sending changes only what its client has asked.
LEMMA SendSession ==
    ASSUME AInv, NEW c \in Clients, NEW place \in Waiting,
           NEW kind \in KindsAt(place), NEW arg \in Arguments,
           pc[c] \in {"start"} \cup Typing, Send(c, kind, arg, place)
    PROVE  /\ pc'[c] = place /\ isLoggedIn'[c] = isLoggedIn[c] /\ answers'[c] = <<>>
           /\ \A k : ~Requested(c, k)
           /\ \/ \A k : ~Requested(c, k)'
              \/ \A k : Requested(c, k)' <=> k = kind
           /\ OthersKept(c)
<1> DEFINE r == [from |-> c, kind |-> kind, arg |-> arg]
<1>1. SessionInv
  BY DEF AInv, IInv
<1>2. r \in Requests
  BY DEF Requests, KindsAt, Waiting, GuestAsks, AdminAsks
<1>3. answers[c] = <<>> /\ \A i \in DOMAIN requests : requests[i].from # c
  BY <1>1, QuietClients
<1>4. /\ pc' = [pc EXCEPT ![c] = place] /\ UNCHANGED <<isLoggedIn, answers>>
      /\ requests' \in {requests, Append(requests, r)}
  BY DEF Send, Goto
<1>5. \A i \in DOMAIN requests : i \in DOMAIN requests' /\ requests'[i] = requests[i]
  BY <1>1, <1>2, <1>4, Appended
<1>6. \A k : ~Requested(c, k)
  BY <1>3 DEF Requested
<1>7. CASE requests' = requests
  <2>1. \A k, x : Requested(k, x)' <=> Requested(k, x)
    BY <1>7 DEF Requested
  <2>2. OthersKept(c)
    BY <1>4, <2>1, SameSession DEF OthersKept, AInv, IInv, SessionInv, QueuesOK
  <2> QED
    BY <1>1, <1>3, <1>4, <1>6, <2>1, <2>2 DEF SessionInv, QueuesOK
<1>8. CASE requests' = Append(requests, r)
  <2>1. \A i \in DOMAIN requests' : \/ i \in DOMAIN requests /\ requests'[i] = requests[i]
                                   \/ requests'[i] = r
    BY <1>1, <1>2, <1>8, Appended
  <2>2. \E i \in DOMAIN requests' : requests'[i] = r
    BY <1>1, <1>2, <1>8, Appended
  <2>3. \A k : Requested(c, k)' <=> k = kind
    BY <1>3, <2>1, <2>2 DEF Requested
  <2>4. \A k \in Clients \ {c} : \A x : Requested(k, x)' <=> Requested(k, x)
    BY <1>5, <2>1 DEF Requested
  <2>5. OthersKept(c)
    BY <1>4, <2>4, SameSession DEF OthersKept, AInv, IInv, SessionInv, QueuesOK
  <2> QED
    BY <1>1, <1>3, <1>4, <1>6, <2>3, <2>5 DEF SessionInv, QueuesOK
<1> QED
  BY <1>4, <1>7, <1>8

\* Deciding changes only where its client is and whether it is logged in.
LEMMA DecideSession ==
    ASSUME AInv, NEW c \in Clients, NEW place, NEW logged, Decide(c, place, logged)
    PROVE  /\ pc'[c] = place /\ isLoggedIn'[c] = logged /\ answers'[c] = answers[c]
           /\ \A k : Requested(c, k)' <=> Requested(c, k)
           /\ OthersKept(c)
<1>1. /\ pc' = [pc EXCEPT ![c] = place] /\ isLoggedIn' = [isLoggedIn EXCEPT ![c] = logged]
      /\ UNCHANGED <<answers, requests>>
  BY DEF Decide, Goto
<1>2. \A k, x : Requested(k, x)' <=> Requested(k, x)
  BY <1>1 DEF Requested
<1>3. OthersKept(c)
  BY <1>1, <1>2, SameSession DEF OthersKept, AInv, IInv, SessionInv, QueuesOK
<1> QED
  BY <1>1, <1>2, <1>3 DEF AInv, IInv, SessionInv, QueuesOK

\* Taking an answer uses it up.
LEMMA TakeSession ==
    ASSUME AInv, NEW c \in Clients, NEW at, NEW kinds, NEW place, Take(c, at, kinds, place),
           isLoggedIn' \in {isLoggedIn, [isLoggedIn EXCEPT ![c] = TRUE]}
    PROVE  /\ pc'[c] = place
           /\ \E a \in kinds \cap AnswersAt(at) : Has(c, a)
           /\ \A k : ~Requested(c, k) /\ ~Requested(c, k)'
           /\ OthersKept(c)
<1>1. /\ pc[c] = at /\ pc' = [pc EXCEPT ![c] = place]
      /\ answers[c] # <<>> /\ Head(answers[c]) \in kinds
      /\ answers' = [answers EXCEPT ![c] = Tail(answers[c])]
      /\ UNCHANGED requests
  BY DEF Take, Goto
<1>2. \E a \in kinds \cap AnswersAt(at) : Has(c, a)
  <2>1. PICK a \in AnswersAt(at) : answers[c] = <<a>>
    BY <1>1 DEF AInv, IInv, SessionInv, AnswersInv
  <2>2. Head(<<a>>) = a
    OBVIOUS
  <2> QED
    BY <1>1, <2>1, <2>2 DEF Has
<1>3. \A k, x : Requested(k, x)' <=> Requested(k, x)
  BY <1>1 DEF Requested
<1>4. \A k : ~Requested(c, k)
  BY <1>1, AnsweredClients DEF AInv, IInv, Requested
<1>5. OthersKept(c)
  BY <1>1, <1>3, SameSession DEF OthersKept, AInv, IInv, SessionInv, QueuesOK
<1> QED
  BY <1>1, <1>2, <1>3, <1>4, <1>5 DEF AInv, IInv, SessionInv, QueuesOK

\* Answering uses up the request.
LEMMA AnswerSession ==
    ASSUME AInv, requests # <<>>, NEW a, Answer(a),
           NEW c \in Clients, c = requests[1].from
    PROVE  /\ pc'[c] = pc[c] /\ isLoggedIn'[c] = isLoggedIn[c]
           /\ answers[c] = <<>> /\ answers'[c] \in {<<>>, <<a>>}
           /\ \A k : Requested(c, k) <=> k = requests[1].kind
           /\ \A k : ~Requested(c, k)'
           /\ OthersKept(c)
           /\ pc[c] \in Over => answers'[c] = <<>>
<1>0. SessionInv
  BY DEF AInv, IInv
<1>1. /\ requests' = Tail(requests)
      /\ UNCHANGED <<pc, isLoggedIn>>
      /\ \/ answers' = answers
         \/ pc[c] \notin Over /\ answers' = [answers EXCEPT ![c] = Append(answers[c], a)]
  BY <1>0, Handled DEF Answer, clientVars
<1>2. answers[c] = <<>>
  BY <1>0, Handled DEF SessionInv, RequestsInv
<1>3. Append(<<>>, a) = <<a>>
  OBVIOUS
<1>4. \/ answers' = answers
      \/ pc[c] \notin Over /\ answers' = [answers EXCEPT ![c] = <<a>>]
  BY <1>1, <1>2, <1>3
<1>5. \A k : Requested(c, k) <=> k = requests[1].kind
  BY <1>0, Handled DEF Requested, SessionInv, RequestsInv
<1>6. \A k : ~Requested(c, k)'
  BY <1>0, <1>1, Handled DEF Requested
<1>7. ASSUME NEW k \in Clients \ {c}, NEW x
      PROVE  Requested(k, x)' <=> Requested(k, x)
  <2>1. ASSUME Requested(k, x)'
        PROVE  Requested(k, x)
    BY <1>0, <1>1, <2>1, Handled DEF Requested
  <2>2. ASSUME Requested(k, x)
        PROVE  Requested(k, x)'
    <3>1. PICK i \in DOMAIN requests : requests[i].from = k /\ requests[i].kind = x
      BY <2>2 DEF Requested
    <3>2. i \in Nat \ {0, 1} /\ i <= Len(requests)
      BY <1>0, <3>1 DEF SessionInv, QueuesOK
    <3>3. i - 1 \in DOMAIN Tail(requests) /\ Tail(requests)[i - 1] = requests[i]
      BY <1>0, <3>2 DEF SessionInv, QueuesOK
    <3> QED
      BY <1>1, <3>1, <3>3 DEF Requested
  <2> QED
    BY <2>1, <2>2
<1>8. OthersKept(c)
  BY <1>1, <1>2, <1>4, <1>7, SameSession DEF OthersKept, AInv, IInv, SessionInv, QueuesOK
<1> QED
  BY <1>1, <1>2, <1>4, <1>5, <1>6, <1>8 DEF AInv, IInv, SessionInv, QueuesOK

-----------------------------------------------------------------------------
(* The invariant is kept *)

LEMMA SendStage ==
    ASSUME AInv, NEW c \in Clients, NEW place \in Waiting,
           NEW kind \in KindsAt(place), NEW arg \in Arguments,
           place \in Outside => ~isLoggedIn[c],
           place \in Inside => isLoggedIn[c],
           kind \in Privileged => isLoggedIn[c],
           kind \in {":login", ":auth", ":setp"} => arg \in Knows[c],
           pc[c] \in {"start"} \cup Typing, Send(c, kind, arg, place)
    PROVE  StageInv'
<1> DEFINE r == [from |-> c, kind |-> kind, arg |-> arg]
<1>1. SessionInv /\ StageInv
  BY DEF AInv, IInv
<1>2. r \in Requests
  BY DEF Requests, KindsAt, Waiting, GuestAsks, AdminAsks
<1>3. /\ pc' = [pc EXCEPT ![c] = place] /\ UNCHANGED isLoggedIn
      /\ requests' \in {requests, Append(requests, r)}
  BY DEF Send, Goto
<1>4. \A i \in DOMAIN requests' :
        \/ i \in DOMAIN requests /\ requests'[i] = requests[i]
        \/ requests'[i] = r
  BY <1>1, <1>2, <1>3, Appended
<1>5. \A i \in DOMAIN requests : requests[i].from # c /\ requests[i].from \in Clients
  BY <1>1, QuietClients, Senders
<1>6. place # "closed"
  BY DEF Waiting
<1>7. \A k \in Clients : /\ pc'[k] \in Outside => ~isLoggedIn'[k]
                         /\ pc'[k] \in Inside => isLoggedIn'[k]
  BY <1>1, <1>3 DEF StageInv, SessionInv, QueuesOK
<1>8. ASSUME NEW i \in DOMAIN requests'
      PROVE  /\ requests'[i].kind \in Privileged =>
                    isLoggedIn'[requests'[i].from] /\ pc'[requests'[i].from] # "closed"
             /\ requests'[i].kind \in {":login", ":auth", ":setp"} =>
                    requests'[i].arg \in Knows[requests'[i].from]
  <2>1. CASE i \in DOMAIN requests /\ requests'[i] = requests[i]
    BY <1>1, <1>3, <1>5, <2>1 DEF StageInv, SessionInv, QueuesOK
  <2>2. CASE requests'[i] = r
    BY <1>1, <1>3, <1>6, <2>2 DEF SessionInv, QueuesOK
  <2> QED
    BY <1>4, <1>8, <2>1, <2>2
<1> QED
  BY <1>7, <1>8 DEF StageInv

\* Moving a client elsewhere.
LEMMA MoveStage ==
    ASSUME AInv, NEW c \in Clients, NEW place, NEW logged,
           pc' = [pc EXCEPT ![c] = place], isLoggedIn' = [isLoggedIn EXCEPT ![c] = logged],
           UNCHANGED requests,
           place \in Outside => ~logged,
           place \in Inside => logged,
           \/ \A i \in DOMAIN requests : requests[i].from # c
           \/ logged = isLoggedIn[c] /\ (place # "closed" \/ ~isLoggedIn[c])
    PROVE  StageInv'
<1>1. SessionInv /\ StageInv
  BY DEF AInv, IInv
<1>2. \A i \in DOMAIN requests : requests[i].from \in Clients
  BY <1>1, Senders
<1>3. \A k \in Clients : /\ pc'[k] \in Outside => ~isLoggedIn'[k]
                         /\ pc'[k] \in Inside => isLoggedIn'[k]
  BY <1>1 DEF StageInv, SessionInv, QueuesOK
<1>4. ASSUME NEW i \in DOMAIN requests
      PROVE  /\ requests[i].kind \in Privileged =>
                    isLoggedIn'[requests[i].from] /\ pc'[requests[i].from] # "closed"
             /\ requests[i].kind \in {":login", ":auth", ":setp"} =>
                    requests[i].arg \in Knows[requests[i].from]
  BY <1>1, <1>2, <1>4 DEF StageInv, SessionInv, QueuesOK
<1> QED
  BY <1>3, <1>4 DEF StageInv

LEMMA AnswerStage ==
    ASSUME AInv, requests # <<>>, NEW a, Answer(a)
    PROVE  StageInv'
<1>1. requests' = Tail(requests) /\ UNCHANGED <<pc, isLoggedIn>>
  BY DEF Answer, clientVars
<1>2. \A i \in DOMAIN requests' : \E j \in DOMAIN requests : requests'[i] = requests[j]
  BY <1>1, Handled DEF AInv, IInv
<1> QED
  BY <1>1, <1>2 DEF AInv, StageInv

-----------------------------------------------------------------------------
(* Steps of remote access *)

Step == Access!Next \/ UNCHANGED Access!vars

\* One session moves, or none.
LEMMA MoveOne ==
    ASSUME NEW c \in Clients, OthersKept(c), NEW from, NEW to,
           Session(c) \in from, Session(c)' \in to
    PROVE  Access!Move(c, from, to)
<1>1. \A k \in Clients : Session(k)' = IF k = c THEN Session(c)' ELSE Session(k)
  BY DEF OthersKept
<1> QED
  BY <1>1 DEF Access!Move

LEMMA MoveNone ==
    ASSUME NEW c \in Clients, OthersKept(c), Session(c)' = Session(c)
    PROVE  UNCHANGED [k \in Clients |-> Session(k)]
<1>1. \A k \in Clients : Session(k)' = Session(k)
  BY DEF OthersKept
<1> QED
  BY <1>1

\* Nothing else changes of what remote access is about.
Else == UNCHANGED <<server, config, password, pattern>>

LEMMA Stutters ==
    ASSUME NEW c \in Clients, OthersKept(c), Session(c)' = Session(c), Else
    PROVE  Step
<1>1. UNCHANGED [k \in Clients |-> Session(k)]
  BY MoveNone
<1> QED
  BY <1>1 DEF Step, Else, Access!vars

LEMMA Moves ==
    ASSUME NEW c \in Clients, OthersKept(c), NEW from, NEW to,
           Session(c) \in from, Session(c)' \in to, Else
    PROVE  Access!Move(c, from, to) /\ Access!Unchanged
  BY MoveOne DEF Else, Access!Unchanged

-----------------------------------------------------------------------------
(* Every step is one of remote access, and keeps the invariant *)

\* What users do.
LEMMA UserSteps ==
    ASSUME AInv, NEW c \in Clients, User(c)
    PROVE  Step /\ StageInv'
<1> USE DEF Typing, Waiting, Outside, Inside
<1>1. SessionInv /\ StageInv
  BY DEF AInv, IInv
<1>2. isLoggedIn[c] \in BOOLEAN
  BY <1>1 DEF SessionInv, QueuesOK
<1>3. \A a : <<>> # <<a>>
  BY Told
<1>4. \A p \in Knows[c] : p \in Arguments
  BY DEF Arguments
<1>5. ASSUME NEW place \in Waiting, NEW kind \in KindsAt(place), NEW arg \in Arguments,
             pc[c] \in {"start"} \cup Typing, Send(c, kind, arg, place)
      PROVE  /\ Else
             /\ pc'[c] = place /\ isLoggedIn'[c] = isLoggedIn[c] /\ answers'[c] = <<>>
             /\ \A k : ~Requested(c, k)
             /\ \/ \A k : ~Requested(c, k)'
                \/ \A k : Requested(c, k)' <=> k = kind
             /\ OthersKept(c)
  <2>1. Else
    BY <1>5 DEF Else, Send, stored
  <2> QED
    BY <1>5, <2>1, SendSession
<1>6. ASSUME NEW place \in {"prompt", "closed", "shell"}, NEW logged \in BOOLEAN,
             pc[c] \in Typing, Decide(c, place, logged), place = "shell" => logged
      PROVE  /\ Else
             /\ pc'[c] = place /\ isLoggedIn'[c] = logged
             /\ \A k : ~Requested(c, k)
             /\ \A k : ~Requested(c, k)'
             /\ OthersKept(c)
             /\ StageInv'
  <2>1. \A i \in DOMAIN requests : requests[i].from # c
    BY <1>1, <1>6, QuietClients
  <2>2. \A k : ~Requested(c, k)
    BY <2>1 DEF Requested
  <2>3. Else
    BY <1>6 DEF Else, Decide, stored
  <2>4. StageInv'
    BY <1>6, <2>1, MoveStage DEF Decide, Goto
  <2> QED
    BY <1>6, <2>2, <2>3, <2>4, DecideSession
<1>7. CASE Connect(c)
  <2>1. PICK arg \in Arguments : pc[c] = "start" /\ Send(c, ":ping", arg, "ping")
    BY <1>7 DEF Connect, Arguments
  <2>2. StageInv'
    BY <1>1, <2>1, SendStage DEF StageInv, KindsAt, Privileged, AdminAsks
  <2>3. Session(c) \in {"absent"} /\ Session(c)' \in {"connecting"}
    BY <1>3, <1>5, <2>1 DEF KindsAt, Session, Has
  <2>4. Access!Arrive(c)
    BY <1>5, <2>1, <2>3, Moves DEF KindsAt, Access!Arrive
  <2> QED
    BY <2>2, <2>4 DEF Step, Access!Next
<1>8. CASE Exit(c)
  <2>1. Session(c) \in {"guest", "half", "admin"} /\ Session(c)' \in {"left"}
    BY <1>2, <1>6, <1>8 DEF Exit, At, Session
  <2>2. Access!Leave(c)
    BY <1>2, <1>6, <1>8, <2>1, Moves DEF Exit, At, Access!Leave
  <2> QED
    BY <1>2, <1>6, <1>8, <2>2 DEF Exit, At, Step, Access!Next
<1>9. CASE Logout(c)
  <2>1. Session(c) \in {"admin"} /\ Session(c)' \in {"guest"}
    BY <1>6, <1>9 DEF Logout, At, Session
  <2>2. Else /\ OthersKept(c) /\ StageInv'
    BY <1>6, <1>9 DEF Logout, At
  <2>3. Access!Logout(c)
    BY <2>1, <2>2, Moves DEF Access!Logout
  <2> QED
    BY <2>2, <2>3 DEF Step, Access!Next
<1>10. CASE AccessHost(c)
  <2>1. Session(c) \in {"admin", "verified", "cleared"} /\ Session(c)' \in {"host"}
    BY <1>6, <1>10 DEF AccessHost, At, Session
  <2>2. Else /\ OthersKept(c) /\ StageInv'
    BY <1>6, <1>10 DEF AccessHost, At
  <2>3. Access!TakeHost(c)
    BY <2>1, <2>2, Moves DEF Access!TakeHost
  <2> QED
    BY <2>2, <2>3 DEF Step, Access!Next
<1>11. CASE Fumble(c)
  <2>1. CASE pc[c] = "enterCode"
    <3>1. ~isLoggedIn[c]
      BY <1>1, <2>1 DEF StageInv
    <3>2. Session(c) \in {"half"} /\ Session(c)' \in {"guest"}
      BY <1>2, <1>6, <1>11, <2>1, <3>1 DEF Fumble, Session
    <3>3. Access!GiveUp(c)
      BY <1>2, <1>6, <1>11, <3>2, Moves DEF Fumble, Access!GiveUp
    <3> QED
      BY <1>2, <1>6, <1>11, <3>3 DEF Fumble, Step, Access!Next
  <2>2. CASE pc[c] # "enterCode"
    <3>1. isLoggedIn[c]
      BY <1>1, <1>11, <2>2 DEF StageInv, Fumble
    <3>2. Session(c) \in {"verified", "cleared"} /\ Session(c)' \in {"admin"}
      BY <1>2, <1>6, <1>11, <2>2, <3>1 DEF Fumble, Session
    <3>3. Access!Relax(c)
      BY <1>2, <1>6, <1>11, <3>2, Moves DEF Fumble, Access!Relax
    <3> QED
      BY <1>2, <1>6, <1>11, <3>3 DEF Fumble, Step, Access!Next
  <2> QED
    BY <2>1, <2>2
<1>12. CASE Login(c)
  <2>1. PICK p \in Knows[c] :
            pc[c] = "prompt" /\ ~isLoggedIn[c] /\ Send(c, ":login", p, "login")
    BY <1>12 DEF Login, At
  <2>2. StageInv'
    BY <1>4, <2>1, SendStage DEF KindsAt, Privileged, AdminAsks
  <2>3. Session(c)' = Session(c)
    BY <1>3, <1>4, <1>5, <2>1 DEF KindsAt, Session, Has
  <2> QED
    BY <1>4, <1>5, <2>1, <2>2, <2>3, Stutters DEF KindsAt
<1>13. CASE Ask(c)
  <2>1. PICK a \in Asks[c] : /\ pc[c] = "prompt"
                             /\ a[1] \in GuestAsks \/ isLoggedIn[c]
                             /\ Send(c, a[1], a[2], "ask")
    BY <1>13 DEF Ask
  <2>2. a[1] \in KindsAt("ask") /\ a[2] \in Arguments
    BY <2>1, RemoteAssumption DEF KindsAt, Arguments
  <2>3. StageInv'
    BY <2>1, <2>2, SendStage DEF KindsAt, Privileged, AdminAsks, GuestAsks
  <2>4. Session(c)' = Session(c)
    BY <1>5, <2>1, <2>2 DEF Session
  <2> QED
    BY <1>5, <2>1, <2>2, <2>3, <2>4, Stutters
<1>14. CASE StopSystem(c)
  <2>1. PICK arg \in Arguments :
            pc[c] = "prompt" /\ isLoggedIn[c] /\ Send(c, "stop", arg, "stop")
    BY <1>14 DEF StopSystem, At, Arguments
  <2>2. StageInv'
    BY <2>1, SendStage DEF KindsAt
  <2>3. Session(c)' = Session(c)
    BY <1>5, <2>1 DEF KindsAt, Session
  <2> QED
    BY <1>5, <2>1, <2>2, <2>3, Stutters DEF KindsAt
<1>15. CASE ChangePassword(c) \/ ChangePattern(c)
  <2>1. PICK p \in Knows[c], place \in {"auth", "jauth"} :
            pc[c] = "prompt" /\ isLoggedIn[c] /\ Send(c, ":auth", p, place)
    BY <1>15 DEF ChangePassword, ChangePattern, At
  <2>2. StageInv'
    BY <1>4, <2>1, SendStage DEF KindsAt
  <2>3. Session(c)' = Session(c)
    BY <1>3, <1>4, <1>5, <2>1 DEF KindsAt, Session, Has
  <2> QED
    BY <1>4, <1>5, <2>1, <2>2, <2>3, Stutters DEF KindsAt
<1>16. CASE EnterCode(c)
  <2>1. PICK x \in Codes :
            \/ pc[c] = "enterCode" /\ Send(c, ":mfa", x, "code")
            \/ pc[c] = "jenterCode" /\ Send(c, ":mfa", x, "jcode")
    BY <1>16 DEF EnterCode
  <2>2. x \in Arguments
    BY DEF Arguments
  <2>3. StageInv'
    BY <1>1, <2>1, <2>2, SendStage DEF StageInv, KindsAt, Privileged, AdminAsks
  <2>4. Session(c)' = Session(c)
    BY <1>3, <1>5, <2>1, <2>2 DEF KindsAt, Session, Has
  <2> QED
    BY <1>5, <2>1, <2>2, <2>3, <2>4, Stutters DEF KindsAt
<1>17. CASE EnterPassword(c)
  <2>1. PICK p \in Knows[c] : pc[c] = "newPassword" /\ Send(c, ":setp", p, "setp")
    BY <1>17 DEF EnterPassword
  <2>2. isLoggedIn[c]
    BY <1>1, <2>1 DEF StageInv
  <2>3. StageInv'
    BY <1>4, <2>1, <2>2, SendStage DEF KindsAt
  <2>4. CASE \A k : ~Requested(c, k)'
    <3>1. Session(c) \in {"verified", "cleared"} /\ Session(c)' \in {"admin"}
      BY <1>4, <1>5, <2>1, <2>4 DEF KindsAt, Session
    <3>2. Access!Relax(c)
      BY <1>4, <1>5, <2>1, <3>1, Moves DEF KindsAt, Access!Relax
    <3> QED
      BY <2>3, <3>2 DEF Step, Access!Next
  <2>5. CASE \A k : Requested(c, k)' <=> k = ":setp"
    <3>1. Session(c)' = Session(c)
      BY <1>4, <1>5, <2>1, <2>5 DEF KindsAt, Session
    <3> QED
      BY <1>4, <1>5, <2>1, <2>3, <3>1, Stutters DEF KindsAt
  <2> QED
    BY <1>4, <1>5, <2>1, <2>4, <2>5 DEF KindsAt
<1>18. CASE EnterPattern(c)
  <2>1. PICK p \in Patterns : pc[c] = "newPattern" /\ Send(c, ":jsetp", p, "jsetp")
    BY <1>18 DEF EnterPattern
  <2>2. isLoggedIn[c] /\ p \in Arguments
    BY <1>1, <2>1 DEF StageInv, Arguments
  <2>3. StageInv'
    BY <2>1, <2>2, SendStage DEF KindsAt
  <2>4. CASE \A k : ~Requested(c, k)'
    <3>1. Session(c) \in {"verified", "cleared"} /\ Session(c)' \in {"admin"}
      BY <1>5, <2>1, <2>2, <2>4 DEF KindsAt, Session
    <3>2. Else /\ OthersKept(c)
      BY <1>5, <2>1, <2>2 DEF KindsAt
    <3>3. Access!Relax(c)
      BY <3>1, <3>2, Moves DEF Access!Relax
    <3> QED
      BY <2>3, <3>3 DEF Step, Access!Next
  <2>5. CASE \A k : Requested(c, k)' <=> k = ":jsetp"
    <3>1. Session(c)' = Session(c)
      BY <1>5, <2>1, <2>2, <2>5 DEF KindsAt, Session
    <3> QED
      BY <1>5, <2>1, <2>2, <2>3, <3>1, Stutters DEF KindsAt
  <2> QED
    BY <1>5, <2>1, <2>2, <2>4, <2>5 DEF KindsAt
<1> QED
  BY <1>7, <1>8, <1>9, <1>10, <1>11, <1>12, <1>13, <1>14, <1>15, <1>16, <1>17, <1>18
     DEF User

\* What clients receive.
LEMMA ReceiveSteps ==
    ASSUME AInv, NEW c \in Clients, Receive(c)
    PROVE  Step /\ StageInv'
<1> USE DEF Outside, Inside
<1>1. SessionInv /\ StageInv
  BY DEF AInv, IInv
<1>2. isLoggedIn[c] \in BOOLEAN /\ isLoggedIn \in [Clients -> BOOLEAN]
  BY <1>1 DEF SessionInv, QueuesOK
<1>3. ASSUME NEW at, NEW kinds, NEW place, Take(c, at, kinds, place), UNCHANGED isLoggedIn
      PROVE  /\ pc[c] = at
             /\ \E a \in kinds \cap AnswersAt(at) : Has(c, a)
             /\ pc'[c] = place /\ isLoggedIn'[c] = isLoggedIn[c]
             /\ \A k : ~Requested(c, k) /\ ~Requested(c, k)'
             /\ OthersKept(c)
             /\ Else
  <2>1. Else /\ pc[c] = at
    BY <1>3 DEF Else, Take, stored
  <2> QED
    BY <1>3, <2>1, TakeSession
<1>4. ASSUME NEW at, NEW kinds, NEW place, Take(c, at, kinds, place), UNCHANGED isLoggedIn,
             place \in Outside => at \in Outside, place \in Inside => at \in Inside
      PROVE  StageInv'
  <2>1. isLoggedIn' = [isLoggedIn EXCEPT ![c] = isLoggedIn[c]]
    BY <1>2, <1>4
  <2>2. pc[c] = at /\ pc' = [pc EXCEPT ![c] = place] /\ UNCHANGED requests /\ answers[c] # <<>>
    BY <1>4 DEF Take, Goto
  <2>3. \A i \in DOMAIN requests : requests[i].from # c
    BY <1>1, <2>2, AnsweredClients
  <2> QED
    BY <1>1, <1>4, <2>1, <2>2, <2>3, MoveStage DEF StageInv
<1>5. \A x, a : Has(c, x) /\ Has(c, a) => x = a
  BY Told DEF Has
<1>6. CASE LoggedIn(c)
  <2>1. PICK at \in {"login", "code"} : Take(c, at, {"ok"}, "prompt")
    BY <1>6 DEF LoggedIn
  <2>2. isLoggedIn' = [isLoggedIn EXCEPT ![c] = TRUE]
    BY <1>6 DEF LoggedIn
  <2>3. /\ pc'[c] = "prompt" /\ Has(c, "ok") /\ OthersKept(c)
        /\ pc[c] \in {"login", "code"} /\ isLoggedIn'[c]
    <3>1. isLoggedIn'[c]
      BY <1>2, <2>2
    <3>2. pc[c] = at
      BY <2>1 DEF Take
    <3>3. pc'[c] = "prompt" /\ Has(c, "ok") /\ OthersKept(c)
      <4> DEFINE kinds == {"ok"}
      <4>1. Take(c, at, kinds, "prompt")
        BY <2>1
      <4>2. \A a \in kinds : a = "ok"
        OBVIOUS
      <4> HIDE DEF kinds
      <4>3. /\ pc'[c] = "prompt" /\ OthersKept(c)
            /\ \E a \in kinds \cap AnswersAt(at) : Has(c, a)
        BY <2>2, <4>1, TakeSession
      <4> QED
        BY <4>2, <4>3
    <3> QED
      BY <3>1, <3>2, <3>3
  <2>4. Session(c)' = Session(c)
    <3>1. Session(c) = "admin"
      BY <1>5, <2>3 DEF Session
    <3>2. Session(c)' = "admin"
      BY <2>3 DEF Session
    <3> QED
      BY <3>1, <3>2
  <2>5. Else
    BY <2>1 DEF Else, Take, stored
  <2>6. pc' = [pc EXCEPT ![c] = "prompt"] /\ UNCHANGED requests /\ answers[c] # <<>>
    BY <2>1 DEF Take, Goto
  <2>7. \A i \in DOMAIN requests : requests[i].from # c
    BY <1>1, <2>6, AnsweredClients
  <2>8. StageInv'
    BY <2>2, <2>6, <2>7, MoveStage
  <2> QED
    BY <2>3, <2>4, <2>5, <2>8, Stutters
<1>7. CASE Answered(c)
  <2>1. UNCHANGED isLoggedIn
    BY <1>7 DEF Answered
  <2>2. ASSUME NEW at, NEW kinds, NEW place, Take(c, at, kinds, place),
               place \in Outside => at \in Outside, place \in Inside => at \in Inside,
               Session(c)' = Session(c)
        PROVE  Step /\ StageInv'
    BY <1>3, <1>4, <2>1, <2>2, Stutters
  <2>3. CASE Take(c, "ping", {"bad"}, "closed")
    <3>1. pc[c] = "ping" /\ Has(c, "bad") /\ pc'[c] = "closed"
      BY <1>3, <2>1, <2>3
    <3>2. Session(c) \in {"connecting"} /\ Session(c)' \in {"left"}
      BY <1>5, <3>1 DEF Session
    <3>3. Else /\ OthersKept(c)
      BY <1>3, <2>1, <2>3
    <3>4. Access!Refuse(c)
      BY <3>2, <3>3, Moves DEF Access!Refuse
    <3> QED
      BY <1>4, <2>1, <2>3, <3>4 DEF Step, Access!Next
  <2>4. CASE Take(c, "ping", Answers \ {"bad"}, "prompt")
    <3>1. pc[c] = "ping" /\ Has(c, "ok") /\ pc'[c] = "prompt" /\ isLoggedIn'[c] = isLoggedIn[c]
      BY <1>3, <2>1, <2>4 DEF AnswersAt
    <3>2. Session(c)' = Session(c)
      BY <1>1, <3>1 DEF Session, StageInv
    <3> QED
      BY <2>2, <2>4, <3>2
  <2>5. CASE Take(c, "login", {"bad"}, "prompt")
    <3>1. pc[c] = "login" /\ Has(c, "bad") /\ pc'[c] = "prompt" /\ isLoggedIn'[c] = isLoggedIn[c]
      BY <1>3, <2>1, <2>5
    <3>2. Session(c)' = Session(c)
      BY <1>1, <1>5, <3>1 DEF Session, StageInv
    <3> QED
      BY <2>2, <2>5, <3>2
  <2>6. CASE Take(c, "login", Answers \ {"ok", "bad"}, "enterCode")
    <3>1. pc[c] = "login" /\ Has(c, "code") /\ pc'[c] = "enterCode"
      BY <1>3, <2>1, <2>6 DEF AnswersAt
    <3>2. Session(c)' = Session(c)
      BY <1>5, <3>1 DEF Session
    <3> QED
      BY <2>2, <2>6, <3>2
  <2>7. CASE Take(c, "code", {"bad"}, "prompt")
    <3>1. pc[c] = "code" /\ Has(c, "bad") /\ pc'[c] = "prompt" /\ isLoggedIn'[c] = isLoggedIn[c]
      BY <1>3, <2>1, <2>7
    <3>2. Session(c)' = Session(c)
      BY <1>1, <1>5, <3>1 DEF Session, StageInv
    <3> QED
      BY <2>2, <2>7, <3>2
  <2>8. ~Take(c, "code", Answers \ {"ok", "bad"}, "aborted")
    BY <1>3, <2>1 DEF AnswersAt
  <2>9. CASE Take(c, "ask", Answers, "prompt")
    <3>1. pc[c] = "ask" /\ pc'[c] = "prompt" /\ isLoggedIn'[c] = isLoggedIn[c]
      BY <1>3, <2>1, <2>9
    <3>2. Session(c)' = Session(c)
      BY <3>1 DEF Session
    <3> QED
      BY <2>2, <2>9, <3>2
  <2>10. CASE Take(c, "stop", Answers, "shell")
    <3>1. /\ pc[c] = "stop" /\ pc'[c] = "shell" /\ isLoggedIn'[c] = isLoggedIn[c]
          /\ \A k : ~Requested(c, k)'
      BY <1>3, <2>1, <2>10
    <3>2. Session(c) \in {"admin", "verified", "cleared"} /\ Session(c)' \in {"host"}
      BY <1>1, <3>1 DEF Session, StageInv
    <3>3. Else /\ OthersKept(c)
      BY <1>3, <2>1, <2>10
    <3>4. Access!TakeHost(c)
      BY <3>2, <3>3, Moves DEF Access!TakeHost
    <3> QED
      BY <1>4, <2>1, <2>10, <3>4 DEF Step, Access!Next
  <2>11. ASSUME NEW at \in {"auth", "jauth"}, Take(c, at, {"bad"}, "prompt")
         PROVE  Step /\ StageInv'
    <3>1. pc[c] = at /\ Has(c, "bad") /\ pc'[c] = "prompt" /\ isLoggedIn'[c] = isLoggedIn[c]
      BY <1>3, <2>1, <2>11
    <3>2. Session(c)' = Session(c)
      BY <1>1, <1>5, <3>1 DEF Session, StageInv
    <3> QED
      BY <2>2, <2>11, <3>2
  <2>12. ASSUME NEW at \in {"auth", "jauth"}, NEW place \in {"newPassword", "jenterCode"},
                Take(c, at, Answers \ {"bad"}, place)
         PROVE  Step /\ StageInv'
    <3>1. pc[c] = at /\ Has(c, "ok") /\ pc'[c] = place
      BY <1>3, <2>1, <2>12 DEF AnswersAt
    <3>2. Session(c)' = Session(c)
      BY <3>1 DEF Session
    <3> QED
      BY <2>2, <2>12, <3>2
  <2>13. ASSUME NEW at \in {"setp", "jsetp"}, Take(c, at, Answers, "prompt")
         PROVE  Step /\ StageInv'
    <3>1. /\ pc[c] = at /\ pc'[c] = "prompt" /\ isLoggedIn'[c] = isLoggedIn[c]
          /\ \A k : ~Requested(c, k)
      BY <1>3, <2>1, <2>13
    <3>2. Session(c)' = Session(c)
      BY <1>1, <3>1 DEF Session, StageInv
    <3> QED
      BY <2>2, <2>13, <3>2
  <2>14. CASE Take(c, "jcode", {"bad"}, "prompt")
    <3>1. pc[c] = "jcode" /\ Has(c, "bad") /\ pc'[c] = "prompt" /\ isLoggedIn'[c] = isLoggedIn[c]
      BY <1>3, <2>1, <2>14
    <3>2. Session(c)' = Session(c)
      BY <1>1, <1>5, <3>1 DEF Session, StageInv
    <3> QED
      BY <2>2, <2>14, <3>2
  <2>15. CASE Take(c, "jcode", Answers \ {"bad"}, "newPattern")
    <3>1. pc[c] = "jcode" /\ Has(c, "ok") /\ pc'[c] = "newPattern"
      BY <1>3, <2>1, <2>15 DEF AnswersAt
    <3>2. Session(c)' = Session(c)
      BY <3>1 DEF Session
    <3> QED
      BY <2>2, <2>15, <3>2
  <2> QED
    BY <1>7, <2>3, <2>4, <2>5, <2>6, <2>7, <2>8, <2>9, <2>10, <2>11, <2>12, <2>13,
       <2>14, <2>15 DEF Answered
<1> QED
  BY <1>6, <1>7 DEF Receive

\* A client that gives up leaves, or takes the shell it has a right to; the change
\* it has asked for may still come.
LEMMA TimeoutSteps ==
    ASSUME AInv, NEW c \in Clients, Timeout(c)
    PROVE  Step /\ StageInv'
<1> USE DEF Outside, Inside
<1> DEFINE place == IF isLoggedIn[c] THEN "shell" ELSE "closed"
<1>1. SessionInv /\ StageInv
  BY DEF AInv, IInv
<1>2. Decide(c, place, isLoggedIn[c]) /\ pc[c] \in Waiting /\ answers[c] = <<>>
  BY DEF Timeout
<1>3. /\ pc'[c] = place /\ isLoggedIn'[c] = isLoggedIn[c]
      /\ \A k : Requested(c, k)' <=> Requested(c, k)
      /\ OthersKept(c)
  BY <1>2, DecideSession
<1>4. Else
  BY <1>2 DEF Else, Decide, stored
<1>5. StageInv'
  <2>1. UNCHANGED requests
    BY <1>2 DEF Decide
  <2> QED
    BY <1>2, <2>1, MoveStage DEF Decide, Goto
<1>6. \A x : ~Has(c, x)
  BY <1>2, Told DEF Has
<1>7. /\ Requested(c, ":setp") => pc[c] = "setp"
      /\ Requested(c, ":jsetp") => pc[c] = "jsetp"
  <2>1. pc[c] \notin Over
    BY <1>2 DEF Waiting, Over
  <2>2. \A k : Requested(c, k) => k \in KindsAt(pc[c])
    BY <1>1, <2>1 DEF Requested, SessionInv, RequestsInv
  <2> QED
    BY <1>2, <2>2 DEF KindsAt, Waiting, GuestAsks, AdminAsks
<1>8. CASE pc[c] = "ping"
  <2>1. Session(c) \in {"connecting"} /\ Session(c)' \in {"left"}
    BY <1>1, <1>3, <1>6, <1>8 DEF Session, StageInv
  <2>2. Access!Refuse(c)
    BY <1>3, <1>4, <2>1, Moves DEF Access!Refuse
  <2> QED
    BY <1>5, <2>2 DEF Step, Access!Next
<1>9. CASE pc[c] # "ping" /\ ~isLoggedIn[c]
  <2>1. pc[c] \in {"login", "code", "ask"}
    BY <1>1, <1>2, <1>9 DEF StageInv, Waiting
  <2>2. Session(c) \in {"guest", "half", "admin"} /\ Session(c)' \in {"left"}
    BY <1>3, <1>6, <1>9, <2>1 DEF Session
  <2>3. Access!Leave(c)
    BY <1>3, <1>4, <2>2, Moves DEF Access!Leave
  <2> QED
    BY <1>5, <2>3 DEF Step, Access!Next
<1>10. CASE isLoggedIn[c] /\ (Requested(c, ":setp") \/ Requested(c, ":jsetp"))
  <2>1. Session(c)' = Session(c)
    BY <1>3, <1>7, <1>10 DEF Session
  <2> QED
    BY <1>3, <1>4, <1>5, <2>1, Stutters
<1>11. CASE isLoggedIn[c] /\ ~Requested(c, ":setp") /\ ~Requested(c, ":jsetp")
  <2>1. pc[c] \in {"ask", "stop", "auth", "setp", "jauth", "jcode", "jsetp"}
    BY <1>1, <1>2, <1>11 DEF StageInv, Waiting
  <2>2. Session(c) \in {"admin", "verified", "cleared"}
    BY <1>6, <1>11, <2>1 DEF Session
  <2>3. Session(c)' \in {"host"}
    BY <1>3, <1>11 DEF Session
  <2>4. Access!TakeHost(c)
    BY <1>3, <1>4, <2>2, <2>3, Moves DEF Access!TakeHost
  <2> QED
    BY <1>5, <2>4 DEF Step, Access!Next
<1> QED
  BY <1>8, <1>9, <1>10, <1>11

\* A session that a signal cuts off has no more rights than it had; the change its
\* user has asked for may still come.
LEMMA KilledSteps ==
    ASSUME AInv, NEW c \in Clients, Killed(c)
    PROVE  Step /\ StageInv'
<1> USE DEF Outside, Inside
<1>1. SessionInv /\ StageInv
  BY DEF AInv, IInv
<1>2. /\ pc' = [pc EXCEPT ![c] = "killed"] /\ answers' = [answers EXCEPT ![c] = <<>>]
      /\ UNCHANGED <<isLoggedIn, requests>> /\ pc[c] \notin Over
  BY DEF Killed, Goto
<1>3. /\ pc'[c] = "killed" /\ isLoggedIn'[c] = isLoggedIn[c]
      /\ isLoggedIn' = [isLoggedIn EXCEPT ![c] = isLoggedIn[c]]
  BY <1>1, <1>2 DEF SessionInv, QueuesOK
<1>4. \A k, x : Requested(k, x)' <=> Requested(k, x)
  BY <1>2 DEF Requested
<1>5. OthersKept(c)
  BY <1>1, <1>2, <1>4, SameSession DEF OthersKept, SessionInv, QueuesOK
<1>6. Else
  BY DEF Killed, Else, stored
<1>7. StageInv'
  BY <1>2, <1>3, MoveStage
<1>8. /\ Requested(c, ":setp") => pc[c] = "setp"
      /\ Requested(c, ":jsetp") => pc[c] = "jsetp"
  <2>1. \A k : Requested(c, k) => k \in KindsAt(pc[c])
    BY <1>1, <1>2 DEF Requested, SessionInv, RequestsInv
  <2> QED
    <3>1. pc[c] \in {"start"} \cup Waiting \cup Typing
      BY <1>1, <1>2 DEF SessionInv, QueuesOK
    <3>2. pc[c] \in Waiting
        => /\ ":setp" \in KindsAt(pc[c]) => pc[c] = "setp"
           /\ ":jsetp" \in KindsAt(pc[c]) => pc[c] = "jsetp"
      BY DEF KindsAt, Waiting, GuestAsks, AdminAsks
    <3>3. pc[c] \in {"start"} \cup Typing => KindsAt(pc[c]) = {}
      BY QuietPlaces
    <3> QED
      BY <2>1, <3>1, <3>2, <3>3
<1>9. CASE Requested(c, ":setp") \/ Requested(c, ":jsetp")
  <2>1. Session(c)' = Session(c)
    BY <1>3, <1>4, <1>8, <1>9 DEF Session
  <2> QED
    BY <1>5, <1>6, <1>7, <2>1, Stutters
<1>10. CASE isLoggedIn[c] /\ ~Requested(c, ":setp") /\ ~Requested(c, ":jsetp")
  <2>1. pc[c] \in {"prompt", "ask", "stop", "auth", "newPassword", "setp", "jauth",
                   "jenterCode", "jcode", "newPattern", "jsetp"}
    BY <1>1, <1>2, <1>10 DEF SessionInv, QueuesOK, StageInv, Waiting, Typing
  <2>2. Session(c) \in {"admin", "verified", "cleared"}
    BY <1>10, <2>1 DEF Session
  <2>3. Session(c)' \in {"host"}
    BY <1>3, <1>4, <1>10 DEF Session
  <2>4. Access!TakeHost(c)
    BY <1>5, <1>6, <2>2, <2>3, Moves DEF Access!TakeHost
  <2> QED
    BY <1>7, <2>4 DEF Step, Access!Next
<1>11. CASE ~isLoggedIn[c] /\ ~Requested(c, ":setp") /\ ~Requested(c, ":jsetp")
  <2>1. pc[c] \in {"start", "ping", "login", "enterCode", "code", "prompt", "ask"}
    BY <1>1, <1>2, <1>11 DEF SessionInv, QueuesOK, StageInv, Waiting, Typing
  <2>2. Session(c) \in {"absent", "connecting", "guest", "half", "admin"}
    BY <1>11, <2>1 DEF Session
  <2>3. Session(c)' \in {"cut"}
    BY <1>3, <1>4, <1>11 DEF Session
  <2>4. Access!CutOff(c)
    BY <1>5, <1>6, <2>2, <2>3, Moves DEF Access!CutOff
  <2> QED
    BY <1>7, <2>4 DEF Step, Access!Next
<1> QED
  BY <1>9, <1>10, <1>11

\* What the server does, to the client c whose request is in its hands.
LEMMA ServeSteps ==
    ASSUME AInv, Serve
    PROVE  Step /\ StageInv'
<1> USE DEF Outside, Inside
<1> DEFINE r == requests[1]
<1>1. SessionInv /\ StageInv
  BY DEF AInv, IInv
<1>2. ASSUME NEW kind, Handling(kind)
      PROVE  requests # <<>> /\ r.kind = kind /\ Arg = r.arg /\ server = "receiving"
  BY <1>1, <1>2, Handled DEF Handling, Arg
<1>3. requests # <<>> /\ server # "stopped"
  <2>1. CASE CameraReturns
    BY <1>1, <2>1 DEF CameraReturns, SessionInv, ServerInv
  <2>2. CASE ~CameraReturns
    BY <1>2, <2>2 DEF Serve, Ping, HandleLogin, LoginMFA, VerifyIdentity, SetPassword,
        SetPattern, Report, ToggleDevice, ResetThreshold, SetThreshold,
        ConfigureAutoLogout, ConfigureRemoteAccess, ToggleCamera, Stop
  <2> QED
    BY <2>1, <2>2
<1>4. PICK c \in Clients : c = r.from
  BY <1>1, <1>3, Handled, Senders
<1>5. 1 \in DOMAIN requests
  BY <1>1, <1>3, Handled
<1>6. /\ pc[c] \in Over \/ r.kind \in KindsAt(pc[c])
      /\ r.kind \in Privileged => isLoggedIn[c] /\ pc[c] # "closed"
      /\ r.kind \in {":login", ":auth", ":setp"} => r.arg \in Knows[c]
      /\ pc[c] # "aborted"
  BY <1>1, <1>4, <1>5 DEF SessionInv, RequestsInv, StageInv, AdminInv
<1>7. ASSUME NEW a, Answer(a)
      PROVE  /\ StageInv'
             /\ pc'[c] = pc[c] /\ isLoggedIn'[c] = isLoggedIn[c]
             /\ answers[c] = <<>> /\ answers'[c] \in {<<>>, <<a>>}
             /\ \A k : Requested(c, k) <=> k = r.kind
             /\ \A k : ~Requested(c, k)'
             /\ OthersKept(c)
             /\ pc[c] \in Over => answers'[c] = <<>>
             /\ \A x : ~Has(c, x)
             /\ \A x : Has(c, x)' => x = a
  <2>1. StageInv'
    BY <1>3, <1>7, AnswerStage
  <2>2. /\ answers[c] = <<>> /\ answers'[c] \in {<<>>, <<a>>}
    BY <1>3, <1>4, <1>7, AnswerSession
  <2>3. (\A x : ~Has(c, x)) /\ (\A x : Has(c, x)' => x = a)
    BY <2>2, Told DEF Has
  <2> QED
    BY <1>3, <1>4, <1>7, <2>1, <2>3, AnswerSession
<1>8. ASSUME NEW a, Answer(a), Session(c)' = Session(c), Else
      PROVE  Step /\ StageInv'
  BY <1>7, <1>8, Stutters
\* Who has left hears nothing, and what does not change the password or the pattern
\* takes nothing from a session.
<1>9. ASSUME NEW a, Answer(a), pc[c] \in Over, r.kind \notin {":setp", ":jsetp"}
      PROVE  Session(c)' = Session(c)
  BY <1>6, <1>7, <1>9 DEF Over, Session
<1>10. CASE Ping
  <2>1. PICK a \in {"ok", "bad"} : /\ Answer(a)
                                   /\ a = "ok" => config.policy # "noremote"
    BY <1>10 DEF Ping, Verdict
  <2>2. r.kind = ":ping" /\ Else
    BY <1>2, <1>10 DEF Ping, Else, stored
  <2>3. CASE pc[c] \in Over
    BY <1>8, <1>9, <2>1, <2>2, <2>3
  <2>4. CASE pc[c] \notin Over
    <3>1. pc[c] = "ping"
      BY <1>6, <2>2, <2>4 DEF KindsAt, GuestAsks, AdminAsks
    <3>2. CASE Has(c, "ok")'
      <4>1. Session(c) \in {"connecting"} /\ Session(c)' \in {"guest"}
        BY <1>7, <2>1, <3>1, <3>2 DEF Session
      <4>2. config.policy # "noremote"
        BY <1>7, <2>1, <3>2
      <4>3. Access!Connect(c)
        BY <1>3, <1>7, <2>1, <2>2, <4>1, <4>2, Moves DEF Access!Connect
      <4> QED
        BY <1>7, <2>1, <4>3 DEF Step, Access!Next
    <3>3. CASE ~Has(c, "ok")'
      <4>1. Session(c)' = Session(c)
        BY <1>7, <2>1, <3>1, <3>3 DEF Session
      <4> QED
        BY <1>8, <2>1, <2>2, <4>1
    <3> QED
      BY <3>2, <3>3
  <2> QED
    BY <2>3, <2>4
<1>11. CASE HandleLogin
  <2>1. PICK a \in {"ok", "bad", "code"} :
            /\ Answer(a)
            /\ a \in {"ok", "code"} => Arg = password
            /\ a = "ok" => config.policy # "enmfa"
            /\ a = "code" => config.policy = "enmfa"
    BY <1>11 DEF HandleLogin
  <2>2. r.kind = ":login" /\ Arg = r.arg /\ Else
    BY <1>2, <1>11 DEF HandleLogin, Else, stored
  <2>3. CASE pc[c] \in Over
    BY <1>8, <1>9, <2>1, <2>2, <2>3
  <2>4. CASE pc[c] \notin Over
    <3>1. pc[c] = "login"
      BY <1>6, <2>2, <2>4 DEF KindsAt, GuestAsks, AdminAsks
    <3>2. CASE Has(c, "ok")' \/ Has(c, "code")'
      <4>1. a \in {"ok", "code"} /\ Has(c, a)'
        BY <1>7, <2>1, <3>2
      <4>2. password \in Knows[c]
        BY <1>6, <2>1, <2>2, <4>1
      <4> DEFINE to == IF config.policy = "enmfa" THEN {"half"} ELSE {"admin"}
      <4>3. Session(c) \in {"guest"}
        BY <1>7, <2>1, <3>1 DEF Session
      <4>4. Session(c)' \in to
        <5>1. CASE a = "ok"
          BY <1>7, <2>1, <3>1, <4>1, <5>1 DEF Session
        <5>2. CASE a = "code"
          <6>1. ~Has(c, "ok")'
            BY <1>7, <2>1, <5>2
          <6> QED
            BY <1>7, <2>1, <3>1, <4>1, <5>2, <6>1 DEF Session
        <5> QED
          BY <4>1, <5>1, <5>2
      <4>5. Access!Move(c, {"guest"}, to) /\ Access!Unchanged
        <5> HIDE DEF to
        <5> QED
          BY <1>7, <2>1, <2>2, <4>3, <4>4, Moves
      <4>6. Access!Enter(c)
        BY <1>3, <4>2, <4>5 DEF Access!Enter
      <4> QED
        BY <1>7, <2>1, <4>6 DEF Step, Access!Next
    <3>3. CASE ~Has(c, "ok")' /\ ~Has(c, "code")'
      <4>1. Session(c)' = Session(c)
        BY <1>7, <2>1, <3>1, <3>3 DEF Session
      <4> QED
        BY <1>8, <2>1, <2>2, <4>1
    <3> QED
      BY <3>2, <3>3
  <2> QED
    BY <2>3, <2>4
<1>12. CASE LoginMFA
  <2>1. PICK a \in {"ok", "bad"} : Answer(a)
    BY <1>12 DEF LoginMFA, Verdict
  <2>2. r.kind = ":mfa" /\ Else
    BY <1>2, <1>12 DEF LoginMFA, Else, stored
  <2>3. OthersKept(c) /\ StageInv'
    BY <1>7, <2>1
  <2>4. CASE pc[c] \in Over
    BY <1>8, <1>9, <2>1, <2>2, <2>4
  <2>5. CASE pc[c] = "code"
    <3>1. CASE Has(c, "ok")'
      <4>1. Session(c) \in {"half"} /\ Session(c)' \in {"admin"}
        BY <1>7, <2>1, <2>5, <3>1 DEF Session
      <4>2. Access!Admit(c)
        BY <1>3, <2>2, <2>3, <4>1, Moves DEF Access!Admit
      <4> QED
        BY <2>3, <4>2 DEF Step, Access!Next
    <3>2. CASE Has(c, "bad")'
      <4>1. ~Has(c, "ok")'
        BY <1>7, <2>1, <3>2
      <4>2. Session(c) \in {"half"} /\ Session(c)' \in {"guest"}
        BY <1>7, <2>1, <2>5, <3>2, <4>1 DEF Session
      <4>3. Access!GiveUp(c)
        BY <2>2, <2>3, <4>2, Moves DEF Access!GiveUp
      <4> QED
        BY <2>3, <4>3 DEF Step, Access!Next
    <3>3. CASE ~Has(c, "ok")' /\ ~Has(c, "bad")'
      <4>1. Session(c)' = Session(c)
        BY <1>7, <2>1, <2>5, <3>3 DEF Session
      <4> QED
        BY <1>8, <2>1, <2>2, <4>1
    <3> QED
      BY <3>1, <3>2, <3>3
  <2>6. CASE pc[c] = "jcode"
    <3>1. CASE Has(c, "ok")'
      <4>1. Session(c) \in {"verified"} /\ Session(c)' \in {"cleared"}
        BY <1>7, <2>1, <2>6, <3>1 DEF Session
      <4>2. Access!Clear(c)
        BY <1>3, <2>2, <2>3, <4>1, Moves DEF Access!Clear
      <4> QED
        BY <2>3, <4>2 DEF Step, Access!Next
    <3>2. CASE Has(c, "bad")'
      <4>1. ~Has(c, "ok")'
        BY <1>7, <2>1, <3>2
      <4>2. Session(c) \in {"verified", "cleared"} /\ Session(c)' \in {"admin"}
        BY <1>7, <2>1, <2>6, <3>2, <4>1 DEF Session
      <4>3. Access!Relax(c)
        BY <2>2, <2>3, <4>2, Moves DEF Access!Relax
      <4> QED
        BY <2>3, <4>3 DEF Step, Access!Next
    <3>3. CASE ~Has(c, "ok")' /\ ~Has(c, "bad")'
      <4>1. Session(c)' = Session(c)
        BY <1>7, <2>1, <2>6, <3>3 DEF Session
      <4> QED
        BY <1>8, <2>1, <2>2, <4>1
    <3> QED
      BY <3>1, <3>2, <3>3
  <2>7. pc[c] \in Over \cup {"code", "jcode"}
    BY <1>6, <2>2 DEF KindsAt, GuestAsks, AdminAsks
  <2> QED
    BY <2>4, <2>5, <2>6, <2>7
<1>13. CASE VerifyIdentity
  <2>1. PICK a \in {"ok", "bad"} : Answer(a) /\ (a = "ok" => Arg = password)
    BY <1>13 DEF VerifyIdentity, Verdict
  <2>2. r.kind = ":auth" /\ Arg = r.arg /\ Else
    BY <1>2, <1>13 DEF VerifyIdentity, Else, stored
  <2>3. CASE pc[c] \in Over
    BY <1>8, <1>9, <2>1, <2>2, <2>3
  <2>4. CASE pc[c] \notin Over
    <3>1. pc[c] \in {"auth", "jauth"}
      BY <1>6, <2>2, <2>4 DEF KindsAt, GuestAsks, AdminAsks
    <3>2. CASE Has(c, "ok")'
      <4>1. password \in Knows[c]
        BY <1>6, <1>7, <2>1, <2>2, <3>2
      <4>2. Session(c) \in {"admin"} /\ Session(c)' \in {"verified"}
        BY <1>7, <2>1, <3>1, <3>2 DEF Session
      <4>3. Access!Verify(c)
        BY <1>3, <1>7, <2>1, <2>2, <4>1, <4>2, Moves DEF Access!Verify
      <4> QED
        BY <1>7, <2>1, <4>3 DEF Step, Access!Next
    <3>3. CASE ~Has(c, "ok")'
      <4>1. Session(c)' = Session(c)
        BY <1>7, <2>1, <3>1, <3>3 DEF Session
      <4> QED
        BY <1>8, <2>1, <2>2, <4>1
    <3> QED
      BY <3>2, <3>3
  <2> QED
    BY <2>3, <2>4
\* The two changes take a session back to what it was before its dialogue.
<1>14. CASE SetPassword
  <2>1. Answer("ok") /\ password' = Arg /\ UNCHANGED <<server, config, pattern>>
    BY <1>14 DEF SetPassword
  <2>2. r.kind = ":setp" /\ Arg = r.arg
    BY <1>2, <1>14 DEF SetPassword
  <2>3. isLoggedIn[c] /\ pc[c] \in {"shell", "killed", "setp"}
    BY <1>6, <2>2 DEF Privileged, Over, KindsAt, GuestAsks, AdminAsks
  <2>4. Session(c) \in {"verified"} /\ Session(c)' \in {"admin", "host"}
    BY <1>7, <2>1, <2>2, <2>3 DEF Session
  <2>5. Access!Move(c, {"verified"}, {"admin", "host"})
    BY <1>7, <2>1, <2>4, MoveOne
  <2>6. Access!ChangePassword(c)
    BY <1>3, <1>6, <2>1, <2>2, <2>5 DEF Access!ChangePassword
  <2> QED
    BY <1>7, <2>1, <2>6 DEF Step, Access!Next
<1>15. CASE SetPattern
  <2>1. /\ Answer("ok") /\ UNCHANGED <<server, config, password>>
        /\ pattern' = IF Arg \in LongPatterns THEN Unmatched ELSE Arg
    BY <1>15 DEF SetPattern
  <2>2. r.kind = ":jsetp" /\ Arg = r.arg
    BY <1>2, <1>15 DEF SetPattern
  <2>3. isLoggedIn[c] /\ pc[c] \in {"shell", "killed", "jsetp"}
    BY <1>6, <2>2 DEF Privileged, Over, KindsAt, GuestAsks, AdminAsks
  <2>4. Session(c) \in {"cleared"} /\ Session(c)' \in {"admin", "host"}
    BY <1>7, <2>1, <2>2, <2>3 DEF Session
  <2>5. Access!Move(c, {"cleared"}, {"admin", "host"})
    BY <1>7, <2>1, <2>4, MoveOne
  <2>6. pattern' \in (Patterns \ LongPatterns) \cup {Unmatched}
    BY <1>1, <1>5, <2>1, <2>2 DEF SessionInv, ServerInv
  <2>7. Access!ChangePattern(c)
    BY <1>3, <2>1, <2>5, <2>6 DEF Access!ChangePattern
  <2> QED
    BY <1>7, <2>1, <2>7 DEF Step, Access!Next
\* What else clients ask for, from the prompt.
<1>16. ASSUME NEW kind \in GuestAsks \cup AdminAsks \cup {"stop"}, r.kind = kind,
              Answer("text")
       PROVE  /\ Session(c)' = Session(c)
              /\ kind \in Privileged => Session(c) \in {"admin", "host"}
  <2>1. pc[c] \in Over \cup {"ask", "stop"}
    BY <1>6, <1>16 DEF KindsAt, GuestAsks, AdminAsks
  <2>2. kind \notin {":setp", ":jsetp"}
    BY <1>16 DEF GuestAsks, AdminAsks
  <2>3. Session(c)' = Session(c)
    <3>1. CASE pc[c] \in Over
      BY <1>9, <1>16, <2>2, <3>1
    <3>2. CASE pc[c] \in {"ask", "stop"}
      BY <1>7, <1>16, <3>2 DEF Session
    <3> QED
      BY <2>1, <3>1, <3>2
  <2>4. ASSUME kind \in Privileged
        PROVE  Session(c) \in {"admin", "host"}
    <3>1. isLoggedIn[c] /\ pc[c] \in {"shell", "killed", "ask", "stop"}
      BY <1>6, <1>16, <2>1, <2>4 DEF Over
    <3> QED
      BY <1>7, <1>16, <2>2, <3>1 DEF Session
  <2> QED
    BY <2>3, <2>4
<1>17. CASE Report
  <2>1. PICK kind \in GuestAsks \cup AdminAsks : Handling(kind)
    BY <1>17 DEF Report, AdminAsks
  <2>2. Answer("text") /\ Else
    BY <1>17 DEF Report, Else, stored
  <2> QED
    BY <1>2, <1>8, <1>16, <2>1, <2>2
<1>18. ASSUME NEW kind \in AdminAsks, Handling(kind), Answer("text"),
              UNCHANGED <<server, password, pattern>>
       PROVE  Step /\ StageInv'
  <2>1. r.kind = kind /\ kind \in Privileged
    BY <1>2, <1>18 DEF Privileged
  <2>2. Session(c)' = Session(c) /\ Session(c) \in {"admin", "host"}
    BY <1>16, <1>18, <2>1
  <2>3. UNCHANGED [k \in Clients |-> Session(k)]
    BY <1>7, <1>18, <2>2, MoveNone
  <2>4. config' \in Settings
    BY StoredKept DEF AInv, Next, StoredOK
  <2>5. Access!Configure(c)
    BY <1>3, <1>18, <2>2, <2>3, <2>4 DEF Access!Configure
  <2> QED
    BY <1>7, <1>18, <2>5 DEF Step, Access!Next
<1>19. CASE ToggleDevice \/ ResetThreshold \/ SetThreshold
  <2>1. PICK kind \in AdminAsks : Handling(kind)
    BY <1>19 DEF ToggleDevice, ResetThreshold, SetThreshold, AdminAsks
  <2>2. Answer("text") /\ UNCHANGED <<server, password, pattern>>
    BY <1>19 DEF ToggleDevice, ResetThreshold, SetThreshold, Configure
  <2> QED
    BY <1>18, <2>1, <2>2
<1>20. CASE ConfigureAutoLogout \/ ConfigureRemoteAccess
  <2>1. Handling("conf") /\ Answer("text") /\ UNCHANGED <<server, password, pattern>>
    BY <1>20 DEF ConfigureAutoLogout, ConfigureRemoteAccess, Configure
  <2> QED
    BY <1>18, <2>1 DEF AdminAsks
<1>21. CASE ToggleCamera
  <2>1. CASE config.trigger
    <3>1. Handling("toggle") /\ Answer("text") /\ UNCHANGED <<server, password, pattern>>
      BY <1>21, <2>1 DEF ToggleCamera, stored
    <3> QED
      BY <1>18, <3>1 DEF AdminAsks
  <2>2. CASE ~config.trigger
    <3>1. /\ server' = "toggling" /\ UNCHANGED <<config, password, pattern>>
          /\ UNCHANGED <<pc, isLoggedIn, answers, requests>>
      BY <1>21, <2>2 DEF ToggleCamera, clientVars, stored
    <3>2. UNCHANGED Access!vars
      BY <1>3, <3>1 DEF Access!vars, Session, Has, Requested
    <3>3. StageInv'
      BY <1>1, <3>1 DEF StageInv
    <3> QED
      BY <3>2, <3>3 DEF Step
  <2> QED
    BY <2>1, <2>2
<1>22. CASE CameraReturns
  <2>1. r.kind = "toggle" /\ Answer("text")
    BY <1>1, <1>22 DEF CameraReturns, SessionInv, ServerInv
  <2>2. Session(c)' = Session(c)
    BY <1>16, <2>1 DEF AdminAsks
  <2>3. UNCHANGED [k \in Clients |-> Session(k)]
    BY <1>7, <2>1, <2>2, MoveNone
  <2>4. server' = "receiving" /\ UNCHANGED <<config, password, pattern>>
    BY <1>22 DEF CameraReturns, stored
  <2>5. UNCHANGED Access!vars
    BY <1>3, <2>3, <2>4 DEF Access!vars
  <2> QED
    BY <1>7, <2>1, <2>5 DEF Step
<1>23. CASE Stop
  <2>1. r.kind = "stop" /\ Answer("text")
    BY <1>2, <1>23 DEF Stop
  <2>2. Session(c)' = Session(c) /\ Session(c) \in {"admin", "host"}
    BY <1>16, <2>1 DEF Privileged
  <2>3. UNCHANGED [k \in Clients |-> Session(k)]
    BY <1>7, <2>1, <2>2, MoveNone
  <2>4. server' = "stopped" /\ UNCHANGED <<config, password, pattern>>
    BY <1>23 DEF Stop, stored
  <2>5. Access!Stop(c)
    BY <2>2, <2>3, <2>4 DEF Access!Stop
  <2> QED
    BY <1>7, <2>1, <2>5 DEF Step, Access!Next
<1> QED
  BY <1>10, <1>11, <1>12, <1>13, <1>14, <1>15, <1>17, <1>19, <1>20, <1>21, <1>22, <1>23
     DEF Serve

\* The second factor and the menu at the device.
LEMMA RestSteps ==
    ASSUME AInv, Refresh \/ AtDevice
    PROVE  Step /\ StageInv'
<1>1. UNCHANGED <<pc, isLoggedIn, answers, server, requests, password, pattern>>
  BY DEF Refresh, AtDevice, clientVars, stored
<1>2. UNCHANGED [k \in Clients |-> Session(k)]
  BY <1>1 DEF Session, Has, Requested
<1>3. StageInv'
  BY <1>1 DEF AInv, StageInv
<1>4. CASE Refresh
  <2>1. UNCHANGED config
    BY <1>4 DEF Refresh, stored
  <2> QED
    BY <1>1, <1>2, <1>3, <2>1 DEF Step, Access!vars
<1>5. CASE AtDevice
  <2>1. PICK s \in MenuSets : \E v \in ValuesOf(s) : config' = [config EXCEPT ![s] = v]
    BY <1>5 DEF AtDevice
  <2>2. config' \in Settings
    BY <1>5, StoredKept DEF AInv, Next, StoredOK
  <2>3. \A x \in DOMAIN config \ MenuSets : config'[x] = config[x]
    BY <2>1
  <2>4. Access!AtDevice
    BY <1>1, <1>2, <2>2, <2>3 DEF Access!AtDevice
  <2> QED
    BY <1>3, <2>4 DEF Step, Access!Next
<1> QED
  BY <1>4, <1>5

LEMMA AccessInit ==
    ASSUME Init
    PROVE  Access!Init /\ AInv
<1>1. <<>> \in Seq(Requests) /\ DOMAIN <<>> = {}
  OBVIOUS
<1>2. AInv
  BY <1>1, InvInit DEF Init, AInv, StageInv, Outside, Inside
<1>3. [c \in Clients |-> Session(c)] = [c \in Clients |-> "absent"]
  BY DEF Init, Session
<1>4. IInv
  BY InvInit
<1> QED
  BY <1>2, <1>3, <1>4 DEF Init, IInv, StoredOK, Access!Init

LEMMA AccessStep ==
    ASSUME AInv, [Next]_vars
    PROVE  Step /\ AInv'
<1>1. IInv'
  BY InvStep DEF AInv
<1>2. CASE Next
  BY <1>1, <1>2, UserSteps, ReceiveSteps, TimeoutSteps, KilledSteps, ServeSteps, RestSteps
     DEF Next, AInv
<1>3. CASE UNCHANGED vars
  <2>1. StageInv'
    BY <1>3 DEF AInv, StageInv, vars, clientVars
  <2>2. UNCHANGED Access!vars
    BY <1>3 DEF vars, clientVars, stored, Access!vars, Session, Has, Requested
  <2> QED
    BY <1>1, <2>1, <2>2 DEF AInv, Step
<1> QED
  BY <1>2, <1>3

-----------------------------------------------------------------------------
(* Theorem *)

\* A server that keeps no sessions gives everyone only what they have proved:
\* each step of clients and server (execute in remoteLoginClient.c,
\* executeCommand in responseHandler.c) is a step of remote access or none, with
\* any number of clients, whatever is lost, late or outlives its sender.
THEOREM GrantsOnlyWhatIsProved ==
    Spec => Access!Init /\ [][Access!Next]_(Access!vars)
<1>1. Init => Access!Init /\ AInv
  BY AccessInit
<1>2. AInv /\ [Next]_vars => AInv' /\ [Access!Next]_(Access!vars)
  BY AccessStep DEF Step
<1> QED
  BY <1>1, <1>2, PTL DEF Spec
=============================================================================

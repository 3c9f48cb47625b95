--------------------------- MODULE DialogueProofs ----------------------------
(***************************************************************************)
(* The dialogue between tabs and sessions implements Core, for every       *)
(* number of tabs, ports, addresses and messages sent ahead; what is       *)
(* proved of Core (CoreProofs) therefore holds of it.                      *)
(***************************************************************************)
EXTENDS Dialogue, SequenceTheorems, TLAPS

P == INSTANCE CoreProofs WITH peer <- Present, has_auth <- HasAuth

LogIns == [kind : {"login", "relogin"}, user : Users]

Announcing == {"init", "logout"}

\* What the tab will know once it has got the answers on their way.
Announced(s) ==
    LET q == outbox[s]
    IN  IF q # <<>> /\ q[Len(q)].kind \in Announcing THEN q[Len(q)].port ELSE told[s]

\* A login is handled for the message that asked for it, with its address and
\* nothing said yet; answers are those of the message handled, the one that
\* announces a port is the last; and that is the port the session has.
Tidy(s) ==
    /\ conn[s] \in {"login", "apply"} =>
           request[s] \in LogIns /\ resolved[s] \in Addrs /\ outbox[s] = <<>>
    /\ request[s] = NoRequest => outbox[s] = <<>>
    /\ \A i \in 1 .. Len(outbox[s]) - 1 : outbox[s][i].kind \notin Announcing
    /\ tab[s] # "closed" => Announced(s) = live_port[s]

IInv ==
    /\ TypeOK
    /\ P!IInv
    /\ \A s \in Sessions : Tidy(s)
------------------------------------------------------------------------------
(***************************************************************************)
(* Core as Dialogue instantiates it is Core as CoreProofs knows it.        *)
(***************************************************************************)

LEMMA SameHandlers ==
    ASSUME NEW s
    PROVE  /\ C!Login(s) => P!Login(s)
           /\ C!LoginRefused(s) => P!LoginRefused(s)
           /\ C!ReusePlane(s) => P!ReusePlane(s)
           /\ C!PoolExhausted(s) => P!PoolExhausted(s)
           /\ C!OpenVideo(s) => P!OpenVideo(s)
           /\ C!Logout(s) => P!Logout(s)
           /\ C!PeerCloses(s) => P!PeerCloses(s)
           /\ C!LeaveLoop(s) => P!LeaveLoop(s)
           /\ C!ReleasePort(s) => P!ReleasePort(s)
<1> USE DEF C!session, P!session, C!locals, P!locals, C!tasks, P!tasks, C!Goto, P!Goto
<1>1. C!Login(s) => P!Login(s)
  BY DEF C!Login, P!Login
<1>2. C!LoginRefused(s) => P!LoginRefused(s)
  BY DEF C!LoginRefused, P!LoginRefused
<1>3. C!ReusePlane(s) => P!ReusePlane(s)
  BY DEF C!ReusePlane, P!ReusePlane
<1>4. C!PoolExhausted(s) => P!PoolExhausted(s)
  BY DEF C!PoolExhausted, P!PoolExhausted, C!Free, P!Free, C!Bound, P!Bound, C!Planes, P!Planes
<1>5. C!OpenVideo(s) => P!OpenVideo(s)
  BY DEF C!OpenVideo, P!OpenVideo
<1>6. C!Logout(s) => P!Logout(s)
  BY DEF C!Logout, P!Logout, C!TakePlane, P!TakePlane
<1>7. C!PeerCloses(s) => P!PeerCloses(s)
  BY DEF C!PeerCloses, P!PeerCloses
<1>8. C!LeaveLoop(s) => P!LeaveLoop(s)
  BY DEF C!LeaveLoop, P!LeaveLoop, C!TakePlane, P!TakePlane
<1>9. C!ReleasePort(s) => P!ReleasePort(s)
  BY DEF C!ReleasePort, P!ReleasePort
<1>10. QED
  BY <1>1, <1>2, <1>3, <1>4, <1>5, <1>6, <1>7, <1>8, <1>9

LEMMA SamePlanes ==
    ASSUME NEW s, NEW v, NEW a, NEW p
    PROVE  /\ C!NewPlane(s, v, p) => P!NewPlane(s, v, p)
           /\ C!ApplyLogin(s, a) => P!ApplyLogin(s, a)
           /\ C!RunStart(v, a) => P!RunStart(v, a)
           /\ C!Listener(v) => P!Listener(v)
           /\ C!Occupy(p) => P!Occupy(p)
           /\ C!Vacate(p) => P!Vacate(p)
<1> USE DEF C!session, P!session, C!locals, P!locals, C!tasks, P!tasks, C!Goto, P!Goto
<1>0. C!Bound = P!Bound
  BY DEF C!Bound, P!Bound, C!Planes, P!Planes
<1>1. C!NewPlane(s, v, p) => P!NewPlane(s, v, p)
  BY <1>0 DEF C!NewPlane, P!NewPlane, C!Free, P!Free
<1>2. C!ApplyLogin(s, a) => P!ApplyLogin(s, a)
  BY DEF C!ApplyLogin, P!ApplyLogin, C!PinnedCamera, P!PinnedCamera
<1>3. C!RunStart(v, a) => P!RunStart(v, a)
  BY DEF C!RunStart, P!RunStart
<1>4. C!Listener(v) => P!Listener(v)
  <2> USE DEF C!SetListener, P!SetListener
  <2>1. C!ListenerPolled(v) => P!ListenerPolled(v)
    BY DEF C!ListenerPolled, P!ListenerPolled
  <2>2. C!ListenerBinds(v) => P!ListenerBinds(v)
    BY <1>0 DEF C!ListenerBinds, P!ListenerBinds
  <2>3. C!ListenerBindFails(v) => P!ListenerBindFails(v)
    BY <1>0 DEF C!ListenerBindFails, P!ListenerBindFails
  <2>4. C!ListenerSurrenders(v) => P!ListenerSurrenders(v)
    BY DEF C!ListenerSurrenders, P!ListenerSurrenders
  <2>5. C!ListenerDropped(v) => P!ListenerDropped(v)
    BY DEF C!ListenerDropped, P!ListenerDropped
  <2>6. QED
    BY <2>1, <2>2, <2>3, <2>4, <2>5 DEF C!Listener, P!Listener
<1>5. C!Occupy(p) => P!Occupy(p)
  BY <1>0, Zenon DEF C!Occupy, P!Occupy, C!Cardinality, P!Cardinality, C!IsFiniteSet, P!IsFiniteSet
<1>6. C!Vacate(p) => P!Vacate(p)
  BY DEF C!Vacate, P!Vacate
<1>7. QED
  BY <1>1, <1>2, <1>3, <1>4, <1>5, <1>6

LEMMA SameStep == [C!Next]_(C!vars) => [P!Next]_(P!vars)
<1>1. ASSUME C!Next
      PROVE  P!Next
  <2>1. CASE \E s \in Sessions : C!Serve(s) \/ C!Tab(s)
    <3>1. PICK s \in Sessions : C!Serve(s) \/ C!Tab(s)
      BY <2>1
    <3>2. C!Serve(s) => P!Serve(s)
      BY SameHandlers, SamePlanes DEF C!Serve, P!Serve, C!Planes, P!Planes
    <3>3. C!Tab(s) => P!Tab(s)
      BY SameHandlers DEF C!Tab, P!Tab
    <3>4. QED
      BY <3>1, <3>2, <3>3 DEF P!Next
  <2>2. CASE \E v \in C!Planes : C!Listener(v) \/ \E a \in Addrs : C!RunStart(v, a)
    BY <2>2, SamePlanes DEF P!Next, C!Planes, P!Planes
  <2>3. CASE \E p \in Ports : C!Occupy(p) \/ C!Vacate(p)
    BY <2>3, SamePlanes DEF P!Next
  <2>4. QED
    BY <1>1, <2>1, <2>2, <2>3 DEF C!Next
<1>2. QED
  BY <1>1 DEF C!vars, P!vars, C!session, P!session, C!locals, P!locals, C!tasks, P!tasks

LEMMA SameSpec == C!Spec => P!Spec
<1>1. C!Init => P!Init
  BY DEF C!Init, P!Init, C!Planes, P!Planes
<1>2. QED
  BY <1>1, SameStep, PTL DEF C!Spec, P!Spec

LEMMA SameTypes == (C!TypeOK <=> P!TypeOK) /\ (C!TypeOK' <=> P!TypeOK')
BY DEF C!TypeOK, P!TypeOK, C!Planes, P!Planes
------------------------------------------------------------------------------
(***************************************************************************)
(* Each step of the dialogue is one of Core, or a stutter.                 *)
(***************************************************************************)

\* A step that leaves Core's own state alone, and moves only the tab, the inbox
\* and the request of s, which it does not bring back from the dead.
Aside(s) ==
    /\ UNCHANGED <<core, user>>
    /\ tab' = [tab EXCEPT ![s] = tab'[s]]
    /\ inbox' = [inbox EXCEPT ![s] = inbox'[s]]
    /\ request' = [request EXCEPT ![s] = request'[s]]
    /\ (~Present[s]) => ~(Present[s])'

LEMMA AsideIsCore ==
    ASSUME TypeOK, NEW s \in Sessions, Aside(s)
    PROVE  [C!Next]_(C!vars)
<1>1. /\ \A t \in Sessions \ {s} : (Present[t])' = Present[t]
      /\ \A t \in Sessions : (Present[t])' = Present'[t]
  BY DEF Aside, Present, TypeOK
<1>2. HasAuth' = HasAuth
  BY DEF Aside, HasAuth
<1>3. CASE (Present[s])' = Present[s]
  <2>1. Present' = Present
    BY <1>1, <1>3 DEF Present
  <2>2. QED
    BY <2>1, <1>2 DEF Aside, core, C!vars, C!session, C!locals, C!tasks
<1>4. CASE (Present[s])' # Present[s]
  <2>1. Present[s] = TRUE /\ (Present[s])' = FALSE
    BY <1>4 DEF Aside, Present
  <2>2. Present' = [Present EXCEPT ![s] = FALSE]
    BY <1>1, <2>1 DEF Present
  <2>3. C!PeerCloses(s)
    BY <2>1, <2>2, <1>2 DEF Aside, core, C!PeerCloses, C!session, C!locals, C!tasks
  <2>4. QED
    BY <2>3 DEF C!Next, C!Tab
<1>5. QED
  BY <1>3, <1>4

LEMMA TabStep ==
    ASSUME IInv, NEW s \in Sessions, Tab(s)
    PROVE  [C!Next]_(C!vars)
<1> USE DEF IInv, TypeOK, Aside, Present, login
<1>1. CASE AskPort(s) \/ Connect(s)
  <2>1. Aside(s)
    BY <1>1 DEF AskPort, Connect
  <2>2. QED
    BY <2>1, AsideIsCore
<1>2. CASE \E r \in Requests : SendMessage(s, r)
  <2>1. Aside(s)
    BY <1>2 DEF SendMessage
  <2>2. QED
    BY <2>1, AsideIsCore
<1>3. CASE Deliver(s)
  <2>1. Aside(s)
    BY <1>3 DEF Deliver, Sent
  <2>2. QED
    BY <2>1, AsideIsCore
<1>4. CASE Close(s)
  <2>1. Aside(s)
    BY <1>4 DEF Close
  <2>2. QED
    BY <2>1, AsideIsCore
<1>5. QED
  BY <1>1, <1>2, <1>3, <1>4 DEF Tab

\* Reading a message that Core does not know of.
LEMMA ReadAside ==
    ASSUME TypeOK, NEW s \in Sessions, NEW r \in Requests, Read(s, r),
           UNCHANGED <<core, user, tab>>,
           request' = [request EXCEPT ![s] = request'[s]]
    PROVE  [C!Next]_(C!vars)
<1>1. Aside(s)
  BY DEF Read, Aside, Present, TypeOK
<1>2. QED
  BY <1>1, AsideIsCore

LEMMA ReadStep ==
    ASSUME IInv, NEW s \in Sessions, NEW r \in Requests,
           \/ ReadIgnored(s, r) \/ ReadStub(s, r) \/ LoginRejected(s, r)
           \/ \E a \in Addrs : LoginClaimed(s, r, a)
           \/ ReadLogout(s, r) \/ ReadOpen(s, r) \/ ReadClose(s, r) \/ ReadCamera(s, r)
    PROVE  [C!Next]_(C!vars)
<1> TypeOK
  BY DEF IInv
<1>1. CASE ReadIgnored(s, r) \/ ReadStub(s, r) \/ LoginRejected(s, r) \/ ReadClose(s, r)
  <2>1. /\ Read(s, r) /\ UNCHANGED <<core, user, tab>>
        /\ request' = [request EXCEPT ![s] = request'[s]]
    BY <1>1 DEF ReadIgnored, ReadStub, LoginRejected, ReadClose, Reply, login, TypeOK
  <2>2. QED
    BY <2>1, ReadAside
<1>2. CASE ReadCamera(s, r)
  <2>1. /\ Read(s, r) /\ UNCHANGED <<core, user, tab>>
        /\ request' = [request EXCEPT ![s] = request'[s]]
    BY <1>2 DEF ReadCamera, Reply, login, TypeOK
  <2>2. QED
    BY <2>1, ReadAside
<1>3. CASE \E a \in Addrs : LoginClaimed(s, r, a)
  <2>1. C!Login(s)
    BY <1>3 DEF LoginClaimed
  <2>2. QED
    BY <2>1 DEF C!Next, C!Tab
<1>4. CASE ReadLogout(s, r)
  <2>1. C!Logout(s)
    BY <1>4 DEF ReadLogout
  <2>2. QED
    BY <2>1 DEF C!Next, C!Tab
<1>5. CASE ReadOpen(s, r) /\ camera[s] # None /\ video[s] # None
  <2>1. C!OpenVideo(s)
    BY <1>5 DEF ReadOpen
  <2>2. QED
    BY <2>1 DEF C!Next, C!Tab
<1>6. CASE ReadOpen(s, r) /\ ~(camera[s] # None /\ video[s] # None)
  <2>1. /\ Read(s, r) /\ UNCHANGED <<core, user, tab>>
        /\ request' = [request EXCEPT ![s] = request'[s]]
    BY <1>6 DEF ReadOpen, Reply, login, TypeOK
  <2>2. QED
    BY <2>1, ReadAside
<1>7. QED
  BY <1>1, <1>2, <1>3, <1>4, <1>5, <1>6

LEMMA HandleStep ==
    ASSUME IInv, NEW s \in Sessions, Handle(s)
    PROVE  [C!Next]_(C!vars)
<1> TypeOK
  BY DEF IInv
<1>1. CASE \E r \in Requests :
              \/ ReadIgnored(s, r) \/ ReadStub(s, r) \/ LoginRejected(s, r)
              \/ \E a \in Addrs : LoginClaimed(s, r, a)
              \/ ReadLogout(s, r) \/ ReadOpen(s, r) \/ ReadClose(s, r) \/ ReadCamera(s, r)
  BY <1>1, ReadStep
<1>2. CASE \E answer \in {Answer("camera"), Failure} : CameraAnswers(s, answer)
  <2>1. Aside(s)
    BY <1>2 DEF CameraAnswers, Aside, Present, login, TypeOK
  <2>2. QED
    BY <2>1, AsideIsCore
<1>3. CASE Unreachable(s)
  BY <1>3 DEF Unreachable, C!Next, C!Serve
<1>4. CASE TooManySessions(s)
  BY <1>4 DEF TooManySessions, C!Next, C!Serve
<1>5. CASE Authenticated(s)
  <2>1. C!Serve(s)
    BY <1>5 DEF Authenticated, C!Serve
  <2>2. QED
    BY <2>1 DEF C!Next
<1>6. CASE \E product \in BOOLEAN : LoginDone(s, product)
  <2>1. C!ApplyLogin(s, resolved[s])
    BY <1>6 DEF LoginDone
  <2>2. resolved[s] \in Addrs
    BY <2>1 DEF C!ApplyLogin, IInv, Tidy
  <2>3. QED
    BY <2>1, <2>2 DEF C!Next, C!Serve
<1>7. CASE DeliverLost(s) \/ SendFails(s)
  <2>1. Aside(s)
    BY <1>7 DEF DeliverLost, Sent, SendFails, Aside, Present, login, TypeOK
  <2>2. QED
    BY <2>1, AsideIsCore
<1>8. CASE LeaveLoop(s) \/ ReleasePort(s)
  BY <1>8 DEF LeaveLoop, ReleasePort, C!Next, C!Serve
<1>9. QED
  BY <1>1, <1>2, <1>3, <1>4, <1>5, <1>6, <1>7, <1>8 DEF Handle

LEMMA StepIsCore == IInv /\ [Next]_vars => [C!Next]_(C!vars)
<1> SUFFICES ASSUME IInv, [Next]_vars
             PROVE  [C!Next]_(C!vars)
  OBVIOUS
<1>1. CASE \E s \in Sessions : Handle(s) \/ Tab(s)
  BY <1>1, HandleStep, TabStep
<1>2. CASE Listeners
  BY <1>2 DEF Listeners, C!Next
<1>3. CASE RunStarts
  BY <1>3 DEF RunStarts, C!Next
<1>4. CASE OtherProcesses
  BY <1>4 DEF OtherProcesses, C!Next
<1>5. CASE UNCHANGED vars
  BY <1>5 DEF vars, core, login, Present, HasAuth, C!vars, C!session, C!locals, C!tasks
<1>6. QED
  BY <1>1, <1>2, <1>3, <1>4, <1>5 DEF Next
------------------------------------------------------------------------------
(***************************************************************************)
(* The invariant.                                                          *)
(***************************************************************************)

LEMMA CoreAssumed == P!CoreAssumption
BY DialogueAssumption DEF P!CoreAssumption

LEMMA InitIInv == Init => IInv
<1> SUFFICES ASSUME Init
             PROVE  IInv
  OBVIOUS
<1>1. P!Init
  BY DEF Init, C!Init, P!Init, C!Planes, P!Planes
<1>2. P!IInv
  BY <1>1, CoreAssumed, P!InitIInv
<1>3. C!TypeOK
  BY <1>2, SameTypes DEF P!IInv
<1>4. TypeOK
  BY <1>3 DEF Init, TypeOK
<1>5. ASSUME NEW s \in Sessions
      PROVE  Tidy(s)
  BY DEF Init, C!Init, Tidy, Announced
<1>6. QED
  BY <1>2, <1>4, <1>5 DEF IInv

LEMMA CoreStep == IInv /\ [Next]_vars => P!IInv'
BY StepIsCore, SameStep, CoreAssumed, P!IInvStep DEF IInv

LEMMA AnswersAreAnswers ==
    /\ \A k \in Plain \cup {"failure", "login", "product"} : Answer(k) \in Answers
    /\ \A p \in Ports \cup {NoPort} : InitInfo(p) \in Answers
BY DEF Answer, InitInfo, Answers

LEMMA TypeStep == IInv /\ [Next]_vars => TypeOK'
<1> SUFFICES ASSUME IInv, [Next]_vars
             PROVE  TypeOK'
  OBVIOUS
<1>1. C!TypeOK'
  BY CoreStep, SameTypes DEF P!IInv
<1>2. ASSUME NEW s \in Sessions, NEW r \in Requests, Read(s, r)
      PROVE  inbox' \in [Sessions -> Seq(Requests)]
  BY <1>2 DEF Read, IInv, TypeOK
<1>3. ASSUME NEW s \in Sessions, NEW r \in Requests, NEW answers \in Seq(Answers),
             Reply(s, r, answers)
      PROVE  /\ request' \in [Sessions -> Requests \cup {NoRequest}]
             /\ outbox' \in [Sessions -> Seq(Answers)]
  BY <1>3 DEF Reply, IInv, TypeOK
<1>4. ASSUME NEW s \in Sessions, NEW r \in Requests,
             \/ ReadIgnored(s, r) \/ ReadStub(s, r) \/ LoginRejected(s, r)
             \/ \E a \in Addrs : LoginClaimed(s, r, a)
             \/ ReadLogout(s, r) \/ ReadOpen(s, r) \/ ReadClose(s, r) \/ ReadCamera(s, r)
      PROVE  TypeOK'
  <2> USE DEF login
  <2>0. <<>> \in Seq(Answers)
        /\ \A k \in Plain \cup {"failure"} : <<Answer(k)>> \in Seq(Answers)
    BY AnswersAreAnswers
  <2>1. CASE ReadIgnored(s, r)
    BY <2>1, <2>0, <1>1, <1>2, <1>3 DEF ReadIgnored, TypeOK, IInv
  <2>2. CASE ReadStub(s, r)
    BY <2>2, <2>0, <1>1, <1>2, <1>3 DEF ReadStub, TypeOK, IInv, Plain
  <2>3. CASE LoginRejected(s, r)
    BY <2>3, <2>0, <1>1, <1>2, <1>3 DEF LoginRejected, TypeOK, IInv, Failure
  <2>4. CASE \E a \in Addrs : LoginClaimed(s, r, a)
    BY <2>4, <1>1, <1>2 DEF LoginClaimed, TypeOK, IInv
  <2>5. CASE ReadLogout(s, r)
    BY <2>5, <2>0, <1>1, <1>2, <1>3 DEF ReadLogout, TypeOK, IInv, Plain
  <2>6. CASE ReadOpen(s, r)
    BY <2>6, <2>0, <1>1, <1>2, <1>3 DEF ReadOpen, TypeOK, IInv, Plain
  <2>7. CASE ReadClose(s, r)
    BY <2>7, <2>0, <1>1, <1>2, <1>3 DEF ReadClose, TypeOK, IInv, Plain
  <2>8. CASE ReadCamera(s, r)
    BY <2>8, <2>0, <1>1, <1>2, <1>3 DEF ReadCamera, TypeOK, IInv, Failure
  <2>9. QED
    BY <1>4, <2>1, <2>2, <2>3, <2>4, <2>5, <2>6, <2>7, <2>8
<1>5. ASSUME NEW s \in Sessions, Handle(s)
      PROVE  TypeOK'
  <2> USE DEF login
  <2>1. CASE \E answer \in {Answer("camera"), Failure} : CameraAnswers(s, answer)
    BY <2>1, <1>1, AnswersAreAnswers DEF CameraAnswers, TypeOK, IInv, Failure, Plain
  <2>2. CASE Unreachable(s) \/ TooManySessions(s)
    <3>1. Refused(s)
      BY <2>2 DEF Unreachable, TooManySessions
    <3>2. QED
      BY <3>1, <1>1, AnswersAreAnswers DEF Refused, TypeOK, IInv, Failure
  <2>3. CASE Authenticated(s)
    BY <2>3, <1>1 DEF Authenticated, TypeOK, IInv
  <2>4. ASSUME NEW product \in BOOLEAN, LoginDone(s, product)
        PROVE  TypeOK'
    <3>1. conn[s] = "apply"
      BY <2>4 DEF LoginDone, C!ApplyLogin
    <3>2. request[s].user \in Users
      BY <3>1 DEF IInv, Tidy, LogIns
    <3>3. LoginPort(s) \in Ports \cup {NoPort}
      BY DEF LoginPort, IInv, TypeOK, C!TypeOK
    <3>4. /\ Answer("login") \in Answers
          /\ Answer("product") \in Answers
          /\ InitInfo(LoginPort(s)) \in Answers
      BY <3>3, AnswersAreAnswers
    <3>5. LoginAnswers(s, product) \in Seq(Answers)
      BY <3>4 DEF LoginAnswers, ProductInfo
    <3>6. QED
      BY <2>4, <3>2, <3>5, <1>1 DEF LoginDone, TypeOK, IInv
  <2>5. CASE DeliverLost(s)
    BY <2>5, <1>1 DEF DeliverLost, Sent, TypeOK, IInv
  <2>6. CASE SendFails(s)
    BY <2>6, <1>1 DEF SendFails, TypeOK, IInv
  <2>7. CASE LeaveLoop(s) \/ ReleasePort(s)
    BY <2>7, <1>1 DEF LeaveLoop, ReleasePort, unmoved, TypeOK, IInv
  <2>8. QED
    BY <1>5, <1>4, <2>1, <2>2, <2>3, <2>4, <2>5, <2>6, <2>7 DEF Handle
<1>6. ASSUME NEW s \in Sessions, Tab(s)
      PROVE  TypeOK'
  <2> USE DEF login
  <2>1. CASE AskPort(s) \/ Connect(s)
    BY <2>1, <1>1 DEF AskPort, Connect, TypeOK, IInv
  <2>2. CASE \E r \in Requests : SendMessage(s, r)
    BY <2>2, <1>1 DEF SendMessage, TypeOK, IInv
  <2>3. CASE Deliver(s)
    <3>1. Head(outbox[s]) \in Answers
      BY <2>3 DEF Deliver, Sent, TypeOK, IInv
    <3>2. Head(outbox[s]).port \in Ports \cup {NoPort}
      BY <3>1 DEF Answers
    <3>3. QED
      BY <2>3, <3>2, <1>1 DEF Deliver, Sent, TypeOK, IInv
  <2>4. CASE Close(s)
    <3>1. <<>> \in Seq(Requests)
      OBVIOUS
    <3>2. inbox' \in [Sessions -> Seq(Requests)]
      BY <2>4, <3>1 DEF Close, TypeOK, IInv
    <3>3. QED
      BY <2>4, <3>2, <1>1 DEF Close, TypeOK, IInv
  <2>5. QED
    BY <1>6, <2>1, <2>2, <2>3, <2>4 DEF Tab
<1>7. CASE Listeners \/ RunStarts \/ OtherProcesses \/ UNCHANGED vars
  BY <1>7, <1>1 DEF Listeners, RunStarts, OtherProcesses, unmoved, vars, login, TypeOK, IInv
<1>8. QED
  BY <1>5, <1>6, <1>7 DEF Next

\* What Tidy says of t reads nothing else.
Untouched(t) ==
    /\ conn'[t] = conn[t] /\ request'[t] = request[t] /\ resolved'[t] = resolved[t]
    /\ outbox'[t] = outbox[t] /\ tab'[t] = tab[t] /\ told'[t] = told[t]
    /\ live_port'[t] = live_port[t]

LEMMA UntouchedTidy ==
    ASSUME NEW t, Tidy(t), Untouched(t)
    PROVE  Tidy(t)'
BY DEF Tidy, Untouched, Announced

\* A handler's step, or a tab's, does not touch other sessions.
LEMMA OthersUntouched ==
    ASSUME TypeOK, NEW s \in Sessions, Handle(s) \/ Tab(s), NEW t \in Sessions \ {s}
    PROVE  Untouched(t)
<1> USE DEF login, core, C!session, C!locals, C!Goto, TypeOK, C!TypeOK, Untouched
<1>1. CASE Tab(s)
  BY <1>1 DEF Tab, AskPort, Connect, SendMessage, Deliver, Sent, Close
<1>2. ASSUME NEW r \in Requests,
             ReadIgnored(s, r) \/ ReadStub(s, r) \/ LoginRejected(s, r) \/ ReadCamera(s, r)
      PROVE  Untouched(t)
  BY <1>2 DEF ReadIgnored, ReadStub, LoginRejected, ReadCamera, Reply
<1>3. ASSUME NEW r \in Requests, NEW a \in Addrs, LoginClaimed(s, r, a)
      PROVE  Untouched(t)
  BY <1>3 DEF LoginClaimed, C!Login
<1>4. ASSUME NEW r \in Requests, ReadLogout(s, r)
      PROVE  Untouched(t)
  BY <1>4 DEF ReadLogout, Reply, C!Logout, C!TakePlane
<1>5. ASSUME NEW r \in Requests, ReadOpen(s, r) \/ ReadClose(s, r)
      PROVE  Untouched(t)
  BY <1>5 DEF ReadOpen, ReadClose, Reply, C!OpenVideo
<1>6. CASE \E answer \in {Answer("camera"), Failure} : CameraAnswers(s, answer)
  BY <1>6 DEF CameraAnswers
<1>7. CASE Unreachable(s) \/ TooManySessions(s)
  BY <1>7 DEF Unreachable, TooManySessions, Refused, C!LoginRefused, C!PoolExhausted
<1>8. CASE Authenticated(s)
  BY <1>8 DEF Authenticated, C!ReusePlane, C!NewPlane
<1>9. CASE \E product \in BOOLEAN : LoginDone(s, product)
  BY <1>9 DEF LoginDone, C!ApplyLogin
<1>10. CASE DeliverLost(s) \/ SendFails(s)
  BY <1>10 DEF DeliverLost, SendFails, Sent
<1>11. CASE LeaveLoop(s) \/ ReleasePort(s)
  BY <1>11 DEF LeaveLoop, ReleasePort, unmoved, C!LeaveLoop, C!ReleasePort, C!TakePlane
<1>12. QED
  BY <1>1, <1>2, <1>3, <1>4, <1>5, <1>6, <1>7, <1>8, <1>9, <1>10, <1>11 DEF Handle

LEMMA ReadTidy ==
    ASSUME IInv, NEW s \in Sessions, NEW r \in Requests,
           \/ ReadIgnored(s, r) \/ ReadStub(s, r) \/ LoginRejected(s, r)
           \/ \E a \in Addrs : LoginClaimed(s, r, a)
           \/ ReadLogout(s, r) \/ ReadOpen(s, r) \/ ReadClose(s, r) \/ ReadCamera(s, r)
    PROVE  Tidy(s)'
<1>1. /\ Tidy(s) /\ conn[s] = "idle" /\ outbox[s] = <<>>
      /\ tab[s] # "closed" => told[s] = live_port[s]
  BY DEF IInv, Tidy, Announced, Read, ReadIgnored, ReadStub, LoginRejected, LoginClaimed,
         ReadLogout, ReadOpen, ReadClose, ReadCamera
<1>2. r # NoRequest /\ r \in [kind : {"login", "relogin"} \cup Plain, user : Users \cup {NoUser}]
  BY DEF Requests, Plain, NoRequest
<1>3. ASSUME NEW k \in Plain \cup {"failure"},
             \/ Reply(s, r, <<Answer(k)>>)
             \/ Reply(s, r, <<>>),
             conn'[s] = "idle" /\ tab' = tab /\ told' = told /\ live_port'[s] = live_port[s],
             k # "logout"
      PROVE  Tidy(s)'
  <2>1. CASE Reply(s, r, <<>>)
    BY <1>1, <1>3, <2>1 DEF Reply, Tidy, Announced, IInv, TypeOK
  <2>2. CASE Reply(s, r, <<Answer(k)>>)
    <3>1. request'[s] = r /\ outbox'[s] = <<Answer(k)>>
      BY <2>2 DEF Reply, IInv, TypeOK
    <3>2. Len(outbox'[s]) = 1 /\ outbox'[s][1].kind \notin Announcing
      BY <3>1, <1>3 DEF Answer, Announcing, Plain
    <3>3. QED
      BY <1>1, <1>2, <1>3, <3>1, <3>2 DEF Tidy, Announced
  <2>3. QED
    BY <1>3, <2>1, <2>2
<1>4. CASE ReadIgnored(s, r) \/ ReadStub(s, r) \/ LoginRejected(s, r) \/ ReadClose(s, r)
  BY <1>1, <1>3, <1>4 DEF ReadIgnored, ReadStub, LoginRejected, ReadClose, core, login,
                          Failure, Plain
<1>5. CASE ReadOpen(s, r)
  BY <1>1, <1>3, <1>5 DEF ReadOpen, C!OpenVideo, C!session, core, login, Plain
<1>6. CASE ReadCamera(s, r)
  <2>1. CASE user[s] # NoUser /\ camera[s] # None
    <3>1. request'[s] = r /\ UNCHANGED <<outbox, told, tab, conn, live_port>>
      BY <1>6, <2>1 DEF ReadCamera, core, IInv, TypeOK
    <3>2. QED
      BY <1>1, <1>2, <3>1 DEF Tidy, Announced
  <2>2. CASE ~(user[s] # NoUser /\ camera[s] # None)
    BY <1>1, <1>3, <1>6, <2>2 DEF ReadCamera, core, login, Failure
  <2>3. QED
    BY <2>1, <2>2
<1>7. ASSUME NEW a \in Addrs, LoginClaimed(s, r, a)
      PROVE  Tidy(s)'
  <2>1. /\ request'[s] = r /\ resolved'[s] = a
        /\ UNCHANGED <<outbox, told, tab, live_port>>
    BY <1>7 DEF LoginClaimed, C!Login, C!session, IInv, TypeOK
  <2>2. r \in LogIns
    BY <1>7 DEF LoginClaimed, IsLogin, Requests, LogIns, Plain
  <2>3. QED
    BY <1>1, <1>2, <2>1, <2>2 DEF Tidy, Announced
<1>8. CASE ReadLogout(s, r)
  <2>1. /\ request'[s] = r /\ outbox'[s] = <<Answer("logout")>>
        /\ UNCHANGED <<told, tab>>
    BY <1>8 DEF ReadLogout, Reply, IInv, TypeOK
  <2>2. conn'[s] \in {"logout", "idle"} /\ live_port'[s] = NoPort
    BY <1>8 DEF ReadLogout, C!Logout, C!TakePlane, C!Goto, IInv, TypeOK, C!TypeOK
  <2>3. Len(outbox'[s]) = 1 /\ outbox'[s][1].kind = "logout" /\ outbox'[s][1].port = NoPort
    BY <2>1 DEF Answer
  <2>4. QED
    BY <1>2, <2>1, <2>2, <2>3 DEF Tidy, Announced, Announcing
<1>9. QED
  BY <1>4, <1>5, <1>6, <1>7, <1>8

LEMMA TailFacts ==
    ASSUME NEW S, NEW q \in Seq(S), q # <<>>
    PROVE  /\ Len(q) \in Nat \ {0} /\ Head(q) = q[1]
           /\ Len(q) = 1 => Tail(q) = <<>>
           /\ Len(q) # 1 => Tail(q) # <<>>
           /\ Len(Tail(q)) = Len(q) - 1
           /\ \A i \in 1 .. Len(q) - 1 : Tail(q)[i] = q[i + 1]
<1>1. /\ Len(q) \in Nat \ {0} /\ Tail(q) \in Seq(S)
      /\ Len(Tail(q)) = Len(q) - 1
      /\ \A i \in 1 .. Len(Tail(q)) : Tail(q)[i] = q[i + 1]
  BY EmptySeq, HeadTailProperties
<1>2. Head(q) = q[1]
  OBVIOUS
<1>3. (Tail(q) = <<>>) <=> (Len(Tail(q)) = 0)
  BY <1>1, EmptySeq
<1>4. QED
  BY <1>1, <1>2, <1>3

\* Taking the first answer off leaves what is announced, or announces it.
LEMMA SentTidy ==
    ASSUME IInv, NEW s \in Sessions, Sent(s), tab' = tab,
           tab[s] # "closed" =>
               told'[s] = IF Head(outbox[s]).kind \in Announcing THEN Head(outbox[s]).port
                                                                 ELSE told[s]
    PROVE  Tidy(s)'
<1> DEFINE q == outbox[s]
<1>1. /\ Tidy(s) /\ conn'[s] = "idle" /\ q # <<>> /\ q \in Seq(Answers)
      /\ outbox'[s] = Tail(q) /\ live_port' = live_port
      /\ request'[s] = IF Len(q) = 1 THEN NoRequest ELSE request[s]
  BY DEF Sent, IInv, TypeOK, core
<1>2. request[s] # NoRequest
  BY <1>1 DEF Tidy
<1>3. CASE Len(q) = 1
  <2>1. Tail(q) = <<>> /\ Head(q) = q[1]
    BY <1>1, <1>3, TailFacts
  <2>2. tab[s] # "closed" => told'[s] = live_port[s]
    BY <1>1, <1>3, <2>1 DEF Tidy, Announced
  <2>3. QED
    BY <1>1, <1>3, <2>1, <2>2 DEF Tidy, Announced
<1>4. CASE Len(q) # 1
  <2>1. /\ Len(q) \in Nat /\ Len(q) > 1 /\ Head(q) = q[1]
        /\ Len(Tail(q)) = Len(q) - 1 /\ Tail(q) # <<>>
        /\ \A i \in 1 .. Len(q) - 1 : Tail(q)[i] = q[i + 1]
    BY <1>1, <1>4, TailFacts
  <2>2. tab[s] # "closed" => told'[s] = told[s]
    BY <1>1, <2>1 DEF Tidy
  <2>3. Tail(q)[Len(Tail(q))] = q[Len(q)]
    BY <2>1
  <2>4. tab[s] # "closed" => Announced(s)' = live_port[s]
    BY <1>1, <2>1, <2>2, <2>3 DEF Tidy, Announced
  <2>5. \A i \in 1 .. Len(Tail(q)) - 1 : Tail(q)[i].kind \notin Announcing
    BY <1>1, <2>1 DEF Tidy
  <2>6. QED
    BY <1>1, <1>2, <1>4, <2>4, <2>5 DEF Tidy
<1>5. QED
  BY <1>3, <1>4

\* The answers of a login announce the port in the last of them.
LEMMA LoginAnswersAnnounce ==
    ASSUME NEW s \in Sessions, NEW product \in BOOLEAN
    PROVE  LET q == LoginAnswers(s, product)
           IN  /\ q # <<>> /\ Len(q) \in {2, 3}
               /\ \A i \in 1 .. Len(q) - 1 : q[i].kind \notin Announcing
               /\ q[Len(q)].kind = "init" /\ q[Len(q)].port = LoginPort(s)
<1>1. CASE product
  <2>1. LoginAnswers(s, product) = <<Answer("login"), ProductInfo, InitInfo(LoginPort(s))>>
    BY <1>1 DEF LoginAnswers
  <2>2. QED
    BY <2>1 DEF Answer, ProductInfo, InitInfo, Announcing
<1>2. CASE ~product
  <2>1. LoginAnswers(s, product) = <<Answer("login"), InitInfo(LoginPort(s))>>
    BY <1>2 DEF LoginAnswers
  <2>2. QED
    BY <2>1 DEF Answer, InitInfo, Announcing
<1>3. QED
  BY <1>1, <1>2

LEMMA HandleTidy ==
    ASSUME IInv, NEW s \in Sessions, Handle(s)
    PROVE  Tidy(s)'
<1>0. Tidy(s) /\ TypeOK /\ C!TypeOK
  BY DEF IInv, TypeOK
<1>1. CASE \E r \in Requests :
              \/ ReadIgnored(s, r) \/ ReadStub(s, r) \/ LoginRejected(s, r)
              \/ \E a \in Addrs : LoginClaimed(s, r, a)
              \/ ReadLogout(s, r) \/ ReadOpen(s, r) \/ ReadClose(s, r) \/ ReadCamera(s, r)
  BY <1>1, ReadTidy
<1>2. ASSUME NEW answer \in {Answer("camera"), Failure}, CameraAnswers(s, answer)
      PROVE  Tidy(s)'
  <2>1. /\ outbox[s] = <<>> /\ outbox'[s] = <<answer>> /\ conn'[s] = "idle"
        /\ UNCHANGED <<request, tab, told, live_port>>
    BY <1>0, <1>2 DEF CameraAnswers, TypeOK, core
  <2>2. Len(outbox'[s]) = 1 /\ outbox'[s][1].kind \notin Announcing
    BY <2>1 DEF Answer, Failure, Announcing
  <2>3. request[s] # NoRequest
    BY <1>2 DEF CameraAnswers, NoRequest
  <2>4. QED
    BY <1>0, <2>1, <2>2, <2>3 DEF Tidy, Announced
<1>3. CASE Unreachable(s) \/ TooManySessions(s)
  <2>1. /\ conn[s] = "login" /\ conn'[s] = "idle" /\ outbox'[s] = <<Failure>>
        /\ UNCHANGED <<request, tab, told, live_port>>
    BY <1>0, <1>3 DEF Unreachable, TooManySessions, Refused, C!LoginRefused,
                      C!PoolExhausted, C!Goto, C!session, TypeOK, C!TypeOK
  <2>2. Len(outbox'[s]) = 1 /\ outbox'[s][1].kind \notin Announcing
    BY <2>1 DEF Answer, Failure, Announcing
  <2>3. request[s] # NoRequest /\ outbox[s] = <<>>
    BY <1>0, <2>1 DEF Tidy, LogIns, NoRequest
  <2>4. QED
    BY <1>0, <2>1, <2>2, <2>3 DEF Tidy, Announced
<1>4. CASE Authenticated(s)
  <2>1. /\ conn[s] = "login" /\ conn'[s] = "apply"
        /\ UNCHANGED <<request, resolved, outbox, tab, told, live_port>>
    BY <1>0, <1>4 DEF Authenticated, login, C!ReusePlane, C!NewPlane, C!Goto, C!session, C!TypeOK
  <2>2. QED
    BY <1>0, <2>1 DEF Tidy, Announced
<1>5. ASSUME NEW product \in BOOLEAN, LoginDone(s, product)
      PROVE  Tidy(s)'
  <2>1. /\ conn[s] = "apply" /\ conn'[s] = "idle"
        /\ outbox'[s] = LoginAnswers(s, product)
        /\ UNCHANGED <<request, tab, told>>
    BY <1>0, <1>5 DEF LoginDone, C!ApplyLogin, C!Goto, TypeOK, C!TypeOK
  <2>2. live_port'[s] = LoginPort(s)
    <3>1. (local_port[s] = NoPort) = (local_plane[s] = None)
      BY <2>1 DEF IInv, P!IInv, P!LocalsFit
    <3>2. live_port'[s] = IF local_plane[s] = None THEN live_port[s] ELSE local_port[s]
      BY <1>0, <1>5 DEF LoginDone, C!ApplyLogin, C!TypeOK
    <3>3. QED
      BY <3>1, <3>2 DEF LoginPort
  <2>3. request[s] # NoRequest
    BY <1>0, <2>1 DEF Tidy, LogIns, NoRequest
  <2>4. outbox'[s] # <<>>
    BY <2>1, LoginAnswersAnnounce
  <2>5. QED
    BY <2>1, <2>2, <2>3, <2>4, LoginAnswersAnnounce DEF Tidy, Announced, Announcing
<1>6. CASE DeliverLost(s)
  <2>1. Sent(s) /\ tab[s] = "closed" /\ tab' = tab
    BY <1>6 DEF DeliverLost, Sent
  <2>2. QED
    BY <2>1, SentTidy
<1>7. CASE SendFails(s)
  BY <1>0, <1>7 DEF SendFails, core, Tidy, TypeOK
<1>8. CASE LeaveLoop(s)
  <2>1. /\ conn'[s] \in {"closing", "gone"} /\ ~Present[s]
        /\ UNCHANGED <<request, outbox, tab>>
    BY <1>0, <1>8 DEF LeaveLoop, unmoved, C!LeaveLoop, C!TakePlane, C!Goto, C!TypeOK
  <2>2. tab[s] = "closed"
    BY <2>1 DEF Present
  <2>3. QED
    BY <1>0, <2>1, <2>2 DEF Tidy
<1>9. CASE ReleasePort(s)
  <2>1. /\ conn'[s] \in {"idle", "gone"}
        /\ UNCHANGED <<request, outbox, tab, told, live_port>>
    BY <1>0, <1>9 DEF ReleasePort, unmoved, C!ReleasePort, C!Goto, C!session, C!TypeOK
  <2>2. QED
    BY <1>0, <2>1 DEF Tidy, Announced
<1>10. QED
  BY <1>1, <1>2, <1>3, <1>4, <1>5, <1>6, <1>7, <1>8, <1>9 DEF Handle

LEMMA TabTidy ==
    ASSUME IInv, NEW s \in Sessions, Tab(s)
    PROVE  Tidy(s)'
<1>0. Tidy(s) /\ TypeOK
  BY DEF IInv
<1>1. CASE AskPort(s) \/ Connect(s)
  <2>1. tab[s] # "closed" /\ UNCHANGED <<conn, request, resolved, outbox, told, live_port>>
    BY <1>1 DEF AskPort, Connect, core, login
  <2>2. QED
    BY <1>0, <2>1 DEF Tidy, Announced
<1>2. CASE \E r \in Requests : SendMessage(s, r)
  <2>1. UNCHANGED <<conn, request, resolved, outbox, tab, told, live_port>>
    BY <1>2 DEF SendMessage, core, login
  <2>2. QED
    BY <1>0, <2>1 DEF Tidy, Announced
<1>3. CASE Deliver(s)
  <2>1. /\ Sent(s) /\ tab' = tab
        /\ told'[s] = IF Head(outbox[s]).kind \in Announcing THEN Head(outbox[s]).port
                                                             ELSE told[s]
    BY <1>0, <1>3 DEF Deliver, Sent, TypeOK, Announcing
  <2>2. QED
    BY <2>1, SentTidy
<1>4. CASE Close(s)
  <2>1. tab'[s] = "closed" /\ UNCHANGED <<conn, request, resolved, outbox>>
    BY <1>0, <1>4 DEF Close, core, login, TypeOK
  <2>2. QED
    BY <1>0, <2>1 DEF Tidy
<1>5. QED
  BY <1>1, <1>2, <1>3, <1>4 DEF Tab

LEMMA IInvStep == IInv /\ [Next]_vars => IInv'
<1> SUFFICES ASSUME IInv, [Next]_vars
             PROVE  IInv'
  OBVIOUS
<1>1. TypeOK' /\ P!IInv'
  BY TypeStep, CoreStep
<1>2. ASSUME NEW s \in Sessions, Handle(s) \/ Tab(s), NEW t \in Sessions
      PROVE  Tidy(t)'
  <2>1. CASE t = s
    BY <1>2, <2>1, HandleTidy, TabTidy
  <2>2. CASE t # s
    BY <1>2, <2>2, OthersUntouched, UntouchedTidy DEF IInv
  <2>3. QED
    BY <2>1, <2>2
<1>3. ASSUME Listeners \/ RunStarts \/ OtherProcesses \/ UNCHANGED vars, NEW t \in Sessions
      PROVE  Tidy(t)'
  <2>1. CASE Listeners
    BY <2>1, UntouchedTidy DEF IInv, Untouched, Listeners, unmoved, login, C!Listener,
           C!ListenerPolled, C!ListenerBinds, C!ListenerBindFails, C!ListenerSurrenders,
           C!ListenerDropped, C!session
  <2>2. CASE RunStarts
    BY <2>2, UntouchedTidy DEF IInv, Untouched, RunStarts, unmoved, login, C!RunStart, C!session
  <2>3. CASE OtherProcesses
    BY <2>3, UntouchedTidy DEF IInv, Untouched, OtherProcesses, unmoved, login, C!Occupy,
           C!Vacate, C!session
  <2>4. CASE UNCHANGED vars
    BY <2>4, UntouchedTidy DEF IInv, Untouched, vars, core, login
  <2>5. QED
    BY <1>3, <2>1, <2>2, <2>3, <2>4
<1>4. \A t \in Sessions : Tidy(t)'
  BY <1>2, <1>3 DEF Next
<1>5. QED
  BY <1>1, <1>4 DEF IInv

LEMMA Invariance == Spec => []IInv
BY InitIInv, IInvStep, PTL DEF Spec
------------------------------------------------------------------------------
(***************************************************************************)
(* Theorems.                                                               *)
(***************************************************************************)

\* The variables keep their types, for every number of tabs and of messages
\* sent ahead (core.rs:196-284).
THEOREM TypeCorrect == Spec => []TypeOK
<1>1. IInv => TypeOK
  BY DEF IInv
<1>2. QED
  BY <1>1, Invariance, PTL

\* Every dialogue of tabs and sessions is a behaviour of Core: what tabs send
\* ahead, lose or leave unread cannot drive a session to where Core's
\* connections cannot go (core.rs:196-429).
THEOREM DialogueImplementsCore == Spec => DialogueIsCore
<1>1. Init => C!Init
  BY DEF Init
<1>2. QED
  BY <1>1, StepIsCore, Invariance, PTL DEF Spec, DialogueIsCore, C!Spec

\* So the properties of Core hold: a session that waits for a message is armed
\* as a whole or not at all (core.rs:235-256),
THEOREM Together == Spec => []ArmedTogether
<1>1. P!ArmedTogether => ArmedTogether
  BY DEF P!ArmedTogether, C!ArmedTogether, ArmedTogether
<1>2. QED
  BY <1>1, DialogueImplementsCore, SameSpec, CoreAssumed, P!Together, PTL DEF DialogueIsCore

\* and its spawned starts dial the address that its first login pinned
\* (core.rs:779-786).
THEOREM DialsPinned == Spec => []DialsPinnedAddress
<1>1. P!DialsPinnedAddress => DialsPinnedAddress
  BY DEF P!DialsPinnedAddress, C!DialsPinnedAddress, DialsPinnedAddress
<1>2. QED
  BY <1>1, DialogueImplementsCore, SameSpec, CoreAssumed, P!DialsPinned, PTL DEF DialogueIsCore

\* A tab that has got all its answers knows the live port of its session, or
\* that there is none (core.rs:610-630, 639-649).
THEOREM TabKnows == Spec => []TabKnowsItsPort
<1>1. IInv => TabKnowsItsPort
  <2> SUFFICES ASSUME IInv, NEW s \in Sessions, tab[s] = "open", request[s] = NoRequest
               PROVE  told[s] = live_port[s]
    BY DEF TabKnowsItsPort
  <2>1. Tidy(s) /\ outbox[s] = <<>>
    BY DEF IInv, Tidy
  <2>2. QED
    BY <2>1 DEF Tidy, Announced
<1>2. QED
  BY <1>1, Invariance, PTL
==============================================================================

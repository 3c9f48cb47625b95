------------------------------ MODULE Dialogue -------------------------------
(***************************************************************************)
(* What a browser tab and the process say to each other: the service       *)
(* manager that tells a tab where the core is (src/src/service_manager.rs),*)
(* the messages of a core connection and their answers (src/src/core.rs,   *)
(* src/src/protocol/messages.rs), and the HTTP requests a handler makes of *)
(* the camera meanwhile (src/src/proxy/).  Messages wait in the socket     *)
(* while one is handled; the answers of a message are sent before the next *)
(* one is read.                                                            *)
(*                                                                         *)
(* The sessions, their planes and the pool are those of Core: each step    *)
(* here is a step of Core or leaves Core's state alone.  In Core a peer is *)
(* present while the connection's loop has something of its to handle.     *)
(***************************************************************************)
EXTENDS Naturals, Sequences, FiniteSets

CONSTANTS Sessions,   \* tabs, one core connection each
          MaxPlanes,  \* bound: video planes allocated in a behaviour
          MaxForeign, \* bound: ports other processes occupy at a time
          Ports,      \* the ports of the pool
          Addrs,      \* the addresses a camera's name may resolve to
          None,       \* no address, no plane
          NoPort,     \* no port
          Users,      \* the credentials a tab may log in with
          NoUser,     \* no credentials
          MaxInbox    \* bound: messages a tab sends ahead

ASSUME DialogueAssumption ==
    /\ MaxPlanes \in Nat
    /\ None \notin Addrs \cup Nat
    /\ NoPort \notin Ports
    /\ NoUser \notin Users
    /\ MaxInbox \in Nat

VARIABLES
    \* Core's state, but for peer and has_auth
    conn, camera, video, live_port, local_plane, local_port,
    listener, port, aborted, starts, in_use, occupied,
    \* a connection's task
    user,     \* SessionState.user and .pwd
    request,  \* the message being handled
    resolved, \* the address the login being handled resolved its claim to
    outbox,   \* answers of the message handled that are still to be sent
    \* the tab
    tab,      \* how far the tab is
    inbox,    \* messages it has sent and nobody has read
    told      \* the live port of the last init info it got, if not logged out since

core == <<conn, camera, video, live_port, local_plane, local_port,
          listener, port, aborted, starts, in_use, occupied>>
login == <<user, resolved>>
vars == <<core, login, request, outbox, tab, inbox, told>>
------------------------------------------------------------------------------
(***************************************************************************)
(* Messages.                                                               *)
(***************************************************************************)

\* "camera" is a CGI request or a snapshot; "stub" a command with one answer and
\* no effect: audio, talk, record and the answer to the upgrade prompt.
Plain == {"logout", "open", "close", "camera", "stub"}

Requests == [kind : {"login", "relogin"}, user : Users] \cup
            [kind : Plain, user : {NoUser}]

NoRequest == [kind |-> "none", user |-> NoUser]

\* An answer: what it answers, or that this failed (failed_login_action,
\* error_response); an init info announces a live port.
Answer(kind) == [kind |-> kind, port |-> NoPort]
Failure == Answer("failure")
ProductInfo == Answer("product")
InitInfo(p) == [kind |-> "init", port |-> p]

IsLogin(r) == r.kind \in {"login", "relogin"}
------------------------------------------------------------------------------
\* The tab has messages for the connection's loop, or may still send some.
Present == [s \in Sessions |-> tab[s] # "closed" \/ inbox[s] # <<>> \/ request[s] # NoRequest]
HasAuth == [s \in Sessions |-> user[s] # NoUser]

C == INSTANCE Core WITH peer <- Present, has_auth <- HasAuth

Init ==
    /\ user = [s \in Sessions |-> NoUser]
    /\ request = [s \in Sessions |-> NoRequest]
    /\ resolved = [s \in Sessions |-> None]
    /\ outbox = [s \in Sessions |-> <<>>]
    /\ tab = [s \in Sessions |-> "page"]
    /\ inbox = [s \in Sessions |-> <<>>]
    /\ told = [s \in Sessions |-> NoPort]
    /\ C!Init
------------------------------------------------------------------------------
(***************************************************************************)
(* The tab.                                                                *)
(***************************************************************************)

\* The service manager answers with the core's port, the same for every tab.
AskPort(s) ==
    /\ tab[s] = "page"
    /\ tab' = [tab EXCEPT ![s] = "assigned"]
    /\ UNCHANGED <<core, login, request, outbox, inbox, told>>

\* The tab connects there; the connection begins with the HELLO.
Connect(s) ==
    /\ tab[s] = "assigned"
    /\ tab' = [tab EXCEPT ![s] = "open"]
    /\ UNCHANGED <<core, login, request, outbox, inbox, told>>

SendMessage(s, r) ==
    /\ tab[s] = "open"
    /\ Len(inbox[s]) < MaxInbox
    /\ inbox' = [inbox EXCEPT ![s] = Append(@, r)]
    /\ UNCHANGED <<core, login, request, outbox, tab, told>>

\* The tab closes, or vanishes: then what it had sent may be lost.
Close(s) ==
    /\ tab[s] # "closed"
    /\ tab' = [tab EXCEPT ![s] = "closed"]
    /\ \/ UNCHANGED inbox
       \/ inbox' = [inbox EXCEPT ![s] = <<>>]
    /\ told' = [told EXCEPT ![s] = NoPort]
    /\ UNCHANGED <<core, login, request, outbox>>
------------------------------------------------------------------------------
(***************************************************************************)
(* The connection's loop: reading a message.                               *)
(***************************************************************************)

\* The loop reads the message r; the one before it is dealt with.
Read(s, r) ==
    /\ conn[s] = "idle" /\ request[s] = NoRequest
    /\ inbox[s] # <<>> /\ r = Head(inbox[s])
    /\ inbox' = [inbox EXCEPT ![s] = Tail(@)]

\* ... and answers it at once, or not at all.
Reply(s, r, answers) ==
    /\ request' = [request EXCEPT ![s] = IF answers = <<>> THEN NoRequest ELSE r]
    /\ outbox' = [outbox EXCEPT ![s] = answers]

\* A HELLO or heartbeat, an unknown id, a frame (here: r) that is no message, and
\* a login whose cmdObject does not parse have no answer.
ReadIgnored(s, r) ==
    /\ Read(s, r)
    /\ Reply(s, r, <<>>)
    /\ UNCHANGED <<core, login, tab, told>>

ReadStub(s, r) ==
    /\ r.kind = "stub"
    /\ Read(s, r)
    /\ Reply(s, r, <<Answer("stub")>>)
    /\ UNCHANGED <<core, login, tab, told>>

\* A login is refused whose claim does not resolve to addresses that may be
\* dialled, or is not where the page came from.
LoginRejected(s, r) ==
    /\ IsLogin(r)
    /\ Read(s, r)
    /\ Reply(s, r, <<Failure>>)
    /\ UNCHANGED <<core, login, tab, told>>

\* The claim resolves to a, and the camera is asked to log in.
LoginClaimed(s, r, a) ==
    /\ IsLogin(r)
    /\ Read(s, r)
    /\ request' = [request EXCEPT ![s] = r]
    /\ resolved' = [resolved EXCEPT ![s] = a]
    /\ UNCHANGED <<user, outbox, tab, told>>
    /\ C!Login(s)

\* Mutant of ReadLogout: the credentials stay.
ReadLogoutKeepsUser(s, r) ==
    /\ r.kind = "logout"
    /\ Read(s, r)
    /\ Reply(s, r, <<Answer("logout")>>)
    /\ camera' = [camera EXCEPT ![s] = None]
    /\ C!TakePlane(s, "logout", "idle")
    /\ UNCHANGED <<login, local_plane, listener, port, starts, in_use, occupied, tab, told>>

ReadLogout(s, r) ==
    /\ r.kind = "logout"
    /\ Read(s, r)
    /\ Reply(s, r, <<Answer("logout")>>)
    /\ user' = [user EXCEPT ![s] = NoUser]
    /\ UNCHANGED <<resolved, tab, told>>
    /\ C!Logout(s)

\* openVideo needs a camera and a plane; without, it is not answered.
ReadOpen(s, r) ==
    /\ r.kind = "open"
    /\ Read(s, r)
    /\ UNCHANGED <<login, tab, told>>
    /\ IF camera[s] # None /\ video[s] # None
       THEN Reply(s, r, <<Answer("open")>>) /\ C!OpenVideo(s)
       ELSE Reply(s, r, <<>>) /\ UNCHANGED core

\* closeVideo stops the pipeline (VideoServer has the steps of stop).
ReadClose(s, r) ==
    /\ r.kind = "close"
    /\ Read(s, r)
    /\ Reply(s, r, IF video[s] # None THEN <<Answer("close")>> ELSE <<>>)
    /\ UNCHANGED <<core, login, tab, told>>

\* CGI and snapshot requests are for a session that has logged in.
ReadCamera(s, r) ==
    /\ r.kind = "camera"
    /\ Read(s, r)
    /\ IF user[s] # NoUser /\ camera[s] # None
       THEN request' = [request EXCEPT ![s] = r] /\ UNCHANGED outbox
       ELSE Reply(s, r, <<Failure>>)
    /\ UNCHANGED <<core, login, tab, told>>
------------------------------------------------------------------------------
(***************************************************************************)
(* Handlers that await the camera.  A request to it fails when it cannot   *)
(* be reached, takes too long or answers with too large a body.            *)
(***************************************************************************)

\* The CGI request or the snapshot is answered, or fails.
CameraAnswers(s, answer) ==
    /\ conn[s] = "idle" /\ outbox[s] = <<>>
    /\ request[s].kind = "camera"
    /\ outbox' = [outbox EXCEPT ![s] = <<answer>>]
    /\ UNCHANGED <<core, login, request, tab, inbox, told>>

\* The camera cannot be asked: the login is refused.
Refused(s) ==
    /\ outbox' = [outbox EXCEPT ![s] = <<Failure>>]
    /\ resolved' = [resolved EXCEPT ![s] = None]
    /\ UNCHANGED <<user, request, tab, inbox, told>>

Unreachable(s) == Refused(s) /\ C!LoginRefused(s)

\* It answered, and no port is left for a new session.
TooManySessions(s) == Refused(s) /\ C!PoolExhausted(s)

\* It answered, with whatever status; the session has a plane, or gets one.
Authenticated(s) ==
    /\ UNCHANGED <<login, request, outbox, tab, inbox, told>>
    /\ \/ C!ReusePlane(s)
       \/ \E v \in C!Planes, p \in Ports : C!NewPlane(s, v, p)

\* The port ensure_session_video returned: the new plane's, or the session's.
LoginPort(s) == IF local_port[s] # NoPort THEN local_port[s] ELSE live_port[s]

\* Mutant of LoginAnswers: a re-login's init info has no port.
LoginAnswersDefault(s, product) ==
    IF product THEN <<Answer("login"), ProductInfo, InitInfo(LoginPort(s))>>
               ELSE <<Answer("login"),
                      InitInfo(IF request[s].kind = "login" THEN LoginPort(s) ELSE NoPort)>>

\* The answers of a login, the init info last.  The camera's status and whether it
\* told its product are in the answers only: a refusal arms the session as well.
LoginAnswers(s, product) ==
    IF product THEN <<Answer("login"), ProductInfo, InitInfo(LoginPort(s))>>
               ELSE <<Answer("login"), InitInfo(LoginPort(s))>>

\* gather_init_info has made its CGI requests, one after the other and only for
\* a login; the session is armed, then the answers are sent.
LoginDone(s, product) ==
    /\ product => request[s].kind = "login"
    /\ user' = [user EXCEPT ![s] = request[s].user]
    /\ outbox' = [outbox EXCEPT ![s] = LoginAnswers(s, product)]
    /\ resolved' = [resolved EXCEPT ![s] = None]
    /\ UNCHANGED <<request, tab, inbox, told>>
    /\ C!ApplyLogin(s, resolved[s])
------------------------------------------------------------------------------
(***************************************************************************)
(* The connection's loop: answering, and its end.                          *)
(***************************************************************************)

\* What is left to send once the first answer is gone; after the last one the
\* loop reads on.
Sent(s) ==
    /\ conn[s] = "idle" /\ outbox[s] # <<>>
    /\ outbox' = [outbox EXCEPT ![s] = Tail(@)]
    /\ request' = [request EXCEPT ![s] = IF Len(outbox[s]) = 1 THEN NoRequest ELSE @]
    /\ UNCHANGED <<core, login, tab, inbox>>

\* The tab gets an answer; nothing makes it read.
Deliver(s) ==
    /\ tab[s] = "open"
    /\ Sent(s)
    /\ told' = [told EXCEPT ![s] = IF Head(outbox[s]).kind \in {"init", "logout"}
                                   THEN Head(outbox[s]).port ELSE @]

\* The tab is gone and the answer with it, noticed or not.
DeliverLost(s) ==
    /\ tab[s] = "closed"
    /\ Sent(s)
    /\ UNCHANGED told

SendFails(s) ==
    /\ tab[s] = "closed"
    /\ conn[s] = "idle" /\ outbox[s] # <<>>
    /\ outbox' = [outbox EXCEPT ![s] = <<>>]
    /\ request' = [request EXCEPT ![s] = NoRequest]
    /\ inbox' = [inbox EXCEPT ![s] = <<>>]
    /\ UNCHANGED <<core, login, tab, told>>

unmoved == <<login, request, outbox, tab, inbox, told>>

LeaveLoop(s) == UNCHANGED unmoved /\ C!LeaveLoop(s)

ReleasePort(s) == UNCHANGED unmoved /\ C!ReleasePort(s)

\* Tasks and processes that no message is involved in.
Listeners == UNCHANGED unmoved /\ \E v \in C!Planes : C!Listener(v)
RunStarts == UNCHANGED unmoved /\ \E v \in C!Planes, a \in Addrs : C!RunStart(v, a)
OtherProcesses == UNCHANGED unmoved /\ \E p \in Ports : C!Occupy(p) \/ C!Vacate(p)
------------------------------------------------------------------------------
Handle(s) ==
    \/ \E r \in Requests : \/ ReadIgnored(s, r) \/ ReadStub(s, r) \/ LoginRejected(s, r)
                           \/ \E a \in Addrs : LoginClaimed(s, r, a)
                           \/ ReadLogout(s, r) \/ ReadOpen(s, r) \/ ReadClose(s, r)
                           \/ ReadCamera(s, r)
    \/ \E answer \in {Answer("camera"), Failure} : CameraAnswers(s, answer)
    \/ Unreachable(s) \/ TooManySessions(s) \/ Authenticated(s)
    \/ \E product \in BOOLEAN : LoginDone(s, product)
    \/ DeliverLost(s) \/ SendFails(s)
    \/ LeaveLoop(s) \/ ReleasePort(s)

Tab(s) ==
    \/ AskPort(s) \/ Connect(s)
    \/ \E r \in Requests : SendMessage(s, r)
    \/ Deliver(s)
    \/ Close(s)

Next ==
    \/ \E s \in Sessions : Handle(s) \/ Tab(s)
    \/ Listeners \/ RunStarts \/ OtherProcesses

\* The loop goes on: requests to the camera time out after 15 s.  Nothing is
\* assumed of a tab: one that is open need not read its answers.
Fairness == \A s \in Sessions : WF_vars(Handle(s))

Spec == Init /\ [][Next]_vars
FairSpec == Spec /\ Fairness
------------------------------------------------------------------------------
(***************************************************************************)
(* Properties.                                                             *)
(***************************************************************************)

Answers == [kind : Plain \cup {"failure", "login", "product", "init"},
            port : Ports \cup {NoPort}]

\* The values the variables take, Core's included.
TypeOK ==
    /\ C!TypeOK
    /\ user \in [Sessions -> Users \cup {NoUser}]
    /\ request \in [Sessions -> Requests \cup {NoRequest}]
    /\ resolved \in [Sessions -> Addrs \cup {None}]
    /\ outbox \in [Sessions -> Seq(Answers)]
    /\ tab \in [Sessions -> {"page", "assigned", "open", "closed"}]
    /\ inbox \in [Sessions -> Seq(Requests)]
    /\ told \in [Sessions -> Ports \cup {NoPort}]

\* Every dialogue is a behaviour of Core: messages sent ahead, answers lost and
\* tabs that vanish do nothing to a session that Core does not know of.
DialogueIsCore == C!Spec

\* While the loop waits for a message, a session is armed as a whole or not at
\* all, whatever logins, refusals, re-logins and logouts there were
\* (core.rs:235-256).
ArmedTogether == C!ArmedTogether

\* The spawned starts of a session dial the address its first login pinned, even
\* if the name resolved to another one since (core.rs:779-786).
DialsPinnedAddress == C!DialsPinnedAddress

\* Once all answers are sent, a tab knows the live port its session has, or that
\* it has none: after re-logins, which keep the port, refusals, which keep it or
\* allocate none, and logouts, whatever was sent ahead (core.rs:460-465,
\* "Re-logins reuse the existing port").
TabKnowsItsPort ==
    \A s \in Sessions :
        (tab[s] = "open" /\ conn[s] = "idle" /\ request[s] = NoRequest)
            => told[s] = live_port[s]

\* A tab that closes, or that vanished with messages on their way, leaves a
\* connection that ends and gives its port back (core.rs:275-277).
ClosedTabEnds ==
    \A s \in Sessions :
        (tab[s] = "closed") ~> (conn[s] = "gone" /\ {live_port[s], local_port[s]} = {NoPort})

==============================================================================

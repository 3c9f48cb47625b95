-------------------------------- MODULE Core ---------------------------------
(***************************************************************************)
(* The core WebSocket server (src/src/core.rs): one connection per browser *)
(* tab, each handled by a task that reads a message, awaits its handler    *)
(* and applies the DispatchAction before it reads the next one.  A first   *)
(* login gives the session a video plane of its own: a port of the shared  *)
(* PortPool, a VideoServer and a spawned HTTP-FLV listener task.  Logout   *)
(* and the end of the connection take the plane down again.                *)
(*                                                                         *)
(* The pool's walk is one step here (PortPool refines it into its probes), *)
(* and so is a call of VideoServer (the module VideoServer interleaves its *)
(* locks).  The Origin check ties every login of a connection to one host, *)
(* so a camera is the address its name resolved to.  Stubbed commands, CGI *)
(* and snapshot requests change no state and are left out.                 *)
(***************************************************************************)
EXTENDS Naturals, FiniteSets

CONSTANTS Sessions,  \* the WebSocket connections
          MaxPlanes, \* bound: video planes allocated in a behaviour
          MaxForeign, \* bound: ports other processes occupy at a time
          Ports,     \* the ports of the pool
          Addrs,     \* the addresses a camera's name may resolve to
          None,      \* no address, no plane
          NoPort     \* no port

ASSUME CoreAssumption ==
    /\ MaxPlanes \in Nat
    /\ None \notin Addrs \cup Nat
    /\ NoPort \notin Ports

VARIABLES
    \* SessionState and the task's locals, after the HELLO
    conn,        \* where the connection's task is
    peer,        \* the browser's end is open
    camera,      \* the address pinned by login
    has_auth,    \* user and pwd are set
    video,       \* the session's plane (its VideoServer and listener handle)
    live_port,   \* the port announced to the tab
    local_plane, \* new_video of the DispatchAction being built
    local_port,  \* a port held by a local: allocated and not yet stored, or
                 \* taken by a teardown and not yet released
    \* the planes
    listener,    \* the state of each plane's listener task
    port,        \* the port it was spawned for
    aborted,     \* listeners abort() was called on
    starts,      \* addresses that spawned start() tasks will dial
    \* shared
    in_use,      \* PortPool.in_use
    occupied     \* ports bound by other processes

session == <<camera, has_auth, video, live_port>>
locals == <<local_plane, local_port>>
tasks == <<listener, port, aborted>>
vars == <<conn, peer, session, locals, tasks, starts, in_use, occupied>>
\* Identities of the video planes, in the order they are allocated.
Planes == 1 .. MaxPlanes
------------------------------------------------------------------------------
Goto(s, label) == conn' = [conn EXCEPT ![s] = label]

\* The ports a bind fails on.
Bound == occupied \cup {port[v] : v \in {w \in Planes : listener[w] = "bound"}}

Init ==
    /\ conn = [s \in Sessions |-> "idle"]
    /\ peer = [s \in Sessions |-> TRUE]
    /\ camera = [s \in Sessions |-> None]
    /\ has_auth = [s \in Sessions |-> FALSE]
    /\ video = [s \in Sessions |-> None]
    /\ live_port = [s \in Sessions |-> NoPort]
    /\ local_plane = [s \in Sessions |-> None]
    /\ local_port = [s \in Sessions |-> NoPort]
    /\ listener = [v \in Planes |-> "unused"]
    /\ port = [v \in Planes |-> NoPort]
    /\ aborted = {}
    /\ starts = [v \in Planes |-> {}]
    /\ in_use = {}
    /\ occupied = {}
------------------------------------------------------------------------------
(***************************************************************************)
(* A connection and its logins.                                            *)
(***************************************************************************)

\* LOGIN or LOGIN_AGAIN: the claimed name resolves, the Origin matches it, and
\* the handler awaits the camera's answer.
Login(s) ==
    /\ conn[s] = "idle"
    /\ peer[s]
    /\ Goto(s, "login")
    /\ UNCHANGED <<peer, session, locals, tasks, starts, in_use, occupied>>

\* The login is refused (camera unreachable): no camera, auth or video.
LoginRefused(s) ==
    /\ conn[s] = "login"
    /\ Goto(s, "idle")
    /\ UNCHANGED <<peer, session, locals, tasks, starts, in_use, occupied>>

\* ensure_session_video: the session has its plane already.
ReusePlane(s) ==
    /\ conn[s] = "login"
    /\ live_port[s] # NoPort
    /\ Goto(s, "apply")
    /\ UNCHANGED <<peer, session, locals, tasks, starts, in_use, occupied>>

\* Mutant of Free: a port another connection was handed is not skipped.
FreeByProbeOnly(p) == p \notin Bound

\* What PortPool.alloc looks for: not handed out, and the probe binds.
Free(p) == p \notin in_use /\ p \notin Bound

\* ensure_session_video: alloc finds a port, the listener task is spawned.
NewPlane(s, v, p) ==
    /\ conn[s] = "login"
    /\ live_port[s] = NoPort
    /\ listener[v] = "unused"
    /\ \A w \in 1 .. v - 1 : listener[w] # "unused"
    /\ Free(p)
    /\ in_use' = in_use \cup {p}
    /\ local_plane' = [local_plane EXCEPT ![s] = v]
    /\ local_port' = [local_port EXCEPT ![s] = p]
    /\ listener' = [listener EXCEPT ![v] = "spawned"]
    /\ port' = [port EXCEPT ![v] = p]
    /\ Goto(s, "apply")
    /\ UNCHANGED <<peer, session, aborted, starts, occupied>>

\* ensure_session_video: alloc returns None and the login is refused.
PoolExhausted(s) ==
    /\ conn[s] = "login"
    /\ live_port[s] = NoPort
    /\ \A p \in Ports : ~Free(p)
    /\ Goto(s, "idle")
    /\ UNCHANGED <<peer, session, locals, tasks, starts, in_use, occupied>>

\* Mutant of PinnedCamera: the new address wins.
LatestCamera(s, a) == a

\* session.camera.take().or(new_camera): the first address stays.
PinnedCamera(s, a) == IF camera[s] # None THEN camera[s] ELSE a

\* gather_init_info is over: handle_connection applies the DispatchAction.  The
\* address a is the one the claimed name resolved to; nothing read it till now.
ApplyLogin(s, a) ==
    /\ conn[s] = "apply"
    /\ camera' = [camera EXCEPT ![s] = PinnedCamera(s, a)]
    /\ has_auth' = [has_auth EXCEPT ![s] = TRUE]
    /\ IF local_plane[s] = None
       THEN UNCHANGED <<video, live_port>>
       ELSE /\ video' = [video EXCEPT ![s] = local_plane[s]]
            /\ live_port' = [live_port EXCEPT ![s] = local_port[s]]
    /\ local_plane' = [local_plane EXCEPT ![s] = None]
    /\ local_port' = [local_port EXCEPT ![s] = NoPort]
    /\ Goto(s, "idle")
    /\ UNCHANGED <<peer, tasks, starts, in_use, occupied>>
------------------------------------------------------------------------------
(***************************************************************************)
(* Video requests.                                                         *)
(***************************************************************************)

\* openVideo spawns a task that will start() the pinned camera's stream.
OpenVideo(s) ==
    /\ conn[s] = "idle"
    /\ peer[s]
    /\ camera[s] # None
    /\ video[s] # None
    /\ starts' = [starts EXCEPT ![video[s]] = @ \cup {camera[s]}]
    /\ UNCHANGED <<conn, peer, session, locals, tasks, in_use, occupied>>

\* A spawned task runs: it dials a, whatever became of the session (the module
\* VideoServer says what start() does, lock by lock, and what can stop it).
RunStart(v, a) ==
    /\ a \in starts[v]
    /\ starts' = [starts EXCEPT ![v] = @ \ {a}]
    /\ UNCHANGED <<conn, peer, session, locals, tasks, in_use, occupied>>
------------------------------------------------------------------------------
(***************************************************************************)
(* Logout, the end of the connection, teardown_video.                      *)
(***************************************************************************)

\* Mutant of TakePlane: it goes on when there is no plane.
TakePlaneUnguarded(s, releasing, finished) ==
    /\ video' = [video EXCEPT ![s] = None]
    /\ live_port' = [live_port EXCEPT ![s] = NoPort]
    /\ local_port' = [local_port EXCEPT ![s] = live_port[s]]
    /\ aborted' = aborted \cup {video[s]}
    /\ Goto(s, releasing)

\* The first half of teardown_video: the plane is taken out of the session,
\* its pipeline stopped and its listener aborted.  With no plane it returns.
TakePlane(s, releasing, finished) ==
    /\ video' = [video EXCEPT ![s] = None]
    /\ live_port' = [live_port EXCEPT ![s] = NoPort]
    /\ IF video[s] # None /\ live_port[s] # NoPort
       THEN /\ local_port' = [local_port EXCEPT ![s] = live_port[s]]
            /\ aborted' = aborted \cup {video[s]}
            /\ Goto(s, releasing)
       ELSE /\ UNCHANGED <<local_port, aborted>>
            /\ Goto(s, finished)

\* Mutant of Logout: the session forgets the login and keeps its plane.
LogoutKeepsPlane(s) ==
    /\ conn[s] = "idle"
    /\ peer[s]
    /\ camera' = [camera EXCEPT ![s] = None]
    /\ has_auth' = [has_auth EXCEPT ![s] = FALSE]
    /\ UNCHANGED <<conn, peer, video, live_port, locals, tasks, starts, in_use, occupied>>

Logout(s) ==
    /\ conn[s] = "idle"
    /\ peer[s]
    /\ camera' = [camera EXCEPT ![s] = None]
    /\ has_auth' = [has_auth EXCEPT ![s] = FALSE]
    /\ TakePlane(s, "logout", "idle")
    /\ UNCHANGED <<peer, local_plane, listener, port, starts, in_use, occupied>>

\* The tab goes away at any moment; the handler sees it at its next read or send.
PeerCloses(s) ==
    /\ peer[s]
    /\ peer' = [peer EXCEPT ![s] = FALSE]
    /\ UNCHANGED <<conn, session, locals, tasks, starts, in_use, occupied>>

\* Mutant of LeaveLoop: the connection ends without a teardown.
LeaveLoopKeepsPlane(s) ==
    /\ conn[s] = "idle"
    /\ ~peer[s]
    /\ Goto(s, "gone")
    /\ UNCHANGED <<peer, session, locals, tasks, starts, in_use, occupied>>

LeaveLoop(s) ==
    /\ conn[s] = "idle"
    /\ ~peer[s]
    /\ TakePlane(s, "closing", "gone")
    /\ UNCHANGED <<peer, camera, has_auth, local_plane, listener, port, starts,
                   in_use, occupied>>

\* The second half of teardown_video: pool.release.
ReleasePort(s) ==
    /\ conn[s] \in {"logout", "closing"}
    /\ in_use' = in_use \ {local_port[s]}
    /\ local_port' = [local_port EXCEPT ![s] = NoPort]
    /\ Goto(s, IF conn[s] = "logout" THEN "idle" ELSE "gone")
    /\ UNCHANGED <<peer, session, local_plane, tasks, starts, occupied>>
------------------------------------------------------------------------------
(***************************************************************************)
(* The listener task of a plane.                                           *)
(***************************************************************************)

SetListener(v, state) == listener' = [listener EXCEPT ![v] = state]

\* The first poll reaches the bind; an abort from here on does not prevent it.
ListenerPolled(v) ==
    /\ listener[v] = "spawned"
    /\ v \notin aborted
    /\ SetListener(v, "binding")
    /\ UNCHANGED <<conn, peer, session, locals, port, aborted, starts, in_use, occupied>>

ListenerBinds(v) ==
    /\ listener[v] = "binding"
    /\ port[v] \notin Bound
    /\ SetListener(v, "bound")
    /\ UNCHANGED <<conn, peer, session, locals, port, aborted, starts, in_use, occupied>>

\* The port was taken since the probe: http_flv::run returns the error.
ListenerBindFails(v) ==
    /\ listener[v] = "binding"
    /\ port[v] \in Bound
    /\ SetListener(v, "failed")
    /\ UNCHANGED <<conn, peer, session, locals, port, aborted, starts, in_use, occupied>>

\* ... and the task releases the port, whose number the session still holds.
ListenerSurrenders(v) ==
    /\ listener[v] = "failed"
    /\ in_use' = in_use \ {port[v]}
    /\ SetListener(v, "surrendered")
    /\ UNCHANGED <<conn, peer, session, locals, port, aborted, starts, occupied>>

\* Mutant of ListenerDropped: the dropped listener releases its port as well.
ListenerDroppedReleases(v) ==
    /\ v \in aborted
    /\ listener[v] \in {"spawned", "bound", "failed"}
    /\ SetListener(v, "gone")
    /\ in_use' = in_use \ {port[v]}
    /\ UNCHANGED <<conn, peer, session, locals, port, aborted, starts, occupied>>

\* The runtime drops an aborted task when it yields; its socket closes.
ListenerDropped(v) ==
    /\ v \in aborted
    /\ listener[v] \in {"spawned", "bound", "failed"}
    /\ SetListener(v, "gone")
    /\ UNCHANGED <<conn, peer, session, locals, port, aborted, starts, in_use, occupied>>

\* Another process binds or unbinds a port of the range.
Occupy(p) ==
    /\ p \notin Bound
    /\ Cardinality(occupied) < MaxForeign
    /\ occupied' = occupied \cup {p}
    /\ UNCHANGED <<conn, peer, session, locals, tasks, starts, in_use>>

Vacate(p) ==
    /\ p \in occupied
    /\ occupied' = occupied \ {p}
    /\ UNCHANGED <<conn, peer, session, locals, tasks, starts, in_use>>
------------------------------------------------------------------------------
\* The steps a connection's task owes once a message is being handled.
Serve(s) == \/ LoginRefused(s)
            \/ ReusePlane(s)
            \/ \E v \in Planes, p \in Ports : NewPlane(s, v, p)
            \/ PoolExhausted(s)
            \/ \E a \in Addrs : ApplyLogin(s, a)
            \/ LeaveLoop(s)
            \/ ReleasePort(s)

\* What the tab does.
Tab(s) == \/ Login(s)
          \/ OpenVideo(s)
          \/ Logout(s)
          \/ PeerCloses(s)

Listener(v) == \/ ListenerPolled(v)
               \/ ListenerBinds(v)
               \/ ListenerBindFails(v)
               \/ ListenerSurrenders(v)
               \/ ListenerDropped(v)

Next == \/ \E s \in Sessions : Serve(s) \/ Tab(s)
        \/ \E v \in Planes : Listener(v) \/ \E a \in Addrs : RunStart(v, a)
        \/ \E p \in Ports : Occupy(p) \/ Vacate(p)

\* Tokio polls every ready task, and each await of a handler ends: HTTP calls
\* have a 15 s timeout, locks are never held across one.  A tab promises
\* nothing, nor do other processes; listeners need not make progress either.
Fairness == \A s \in Sessions : WF_vars(Serve(s))

Spec == Init /\ [][Next]_vars
FairSpec == Spec /\ Fairness
------------------------------------------------------------------------------
(***************************************************************************)
(* Properties.                                                             *)
(***************************************************************************)

\* The values the variables take.
TypeOK ==
    /\ conn \in [Sessions -> {"idle", "login", "apply", "logout", "closing", "gone"}]
    /\ peer \in [Sessions -> BOOLEAN]
    /\ camera \in [Sessions -> Addrs \cup {None}]
    /\ has_auth \in [Sessions -> BOOLEAN]
    /\ video \in [Sessions -> Planes \cup {None}]
    /\ live_port \in [Sessions -> Ports \cup {NoPort}]
    /\ local_plane \in [Sessions -> Planes \cup {None}]
    /\ local_port \in [Sessions -> Ports \cup {NoPort}]
    /\ listener \in [Planes -> {"unused", "spawned", "binding", "bound", "failed",
                                "surrendered", "gone"}]
    /\ port \in [Planes -> Ports \cup {NoPort}]
    /\ aborted \subseteq Planes
    /\ starts \in [Planes -> SUBSET Addrs]
    /\ in_use \subseteq Ports
    /\ occupied \subseteq Ports

\* A session is armed as a whole or not at all: while it waits for a message,
\* it has a camera, credentials, a VideoServer and a live port, or none of
\* them, whatever sequence of logins, refusals, re-logins and logouts it saw
\* (core.rs:146-284, "the session stays unarmed").
ArmedTogether ==
    \A s \in Sessions : conn[s] = "idle" =>
        /\ has_auth[s] = (camera[s] # None)
        /\ (video[s] # None) = (camera[s] # None)
        /\ (live_port[s] # NoPort) = (camera[s] # None)

Holds(s, p) == conn[s] # "gone" /\ p \in {live_port[s], local_port[s]} \ {NoPort}

\* No port leaks: one the pool counts as handed out is held by a connection
\* that will return it -- through every refusal, failed bind and disconnect.
NoPortLeak == \A p \in in_use : \E s \in Sessions : Holds(s, p)

NoSurrender == \A v \in Planes : listener[v] # "surrendered"

\* As long as no listener gave its port back after a failed bind, a held port
\* is handed out, and held by one connection only.
LeasesExclusive ==
    NoSurrender =>
        \A s \in Sessions, p \in Ports : Holds(s, p) =>
            /\ p \in in_use
            /\ \A t \in Sessions : Holds(t, p) => t = s

\* As long as no listener gave its port back, what serves a session's live port
\* is the session's own listener: a listener that is bound there, and not on
\* its way out, is its own.
PortServesItsSession ==
    NoSurrender =>
        \A s \in Sessions, v \in Planes :
            (live_port[s] # NoPort /\ port[v] = live_port[s] /\ listener[v] = "bound"
               /\ v \notin aborted) => video[s] = v

\* What the spawned starts of a session's plane are going to dial is the address
\* its camera is pinned to, also when a re-login resolved the name to another
\* one meanwhile (core.rs:778-779, "a DNS flip after login must not steer the
\* RTSP dial at a different host").
DialsPinnedAddress ==
    \A s \in Sessions : video[s] # None =>
        starts[video[s]] \subseteq {camera[s]}

\* A connection whose tab is gone ends, and has given up its port then: a login
\* in progress, a full pool or a failing listener does not keep it.
ClosedTabReturnsPort ==
    \A s \in Sessions :
        (~peer[s]) ~> (conn[s] = "gone" /\ {live_port[s], local_port[s]} = {NoPort})

\* "Each logged-in session allocates its own port from this pool"
\* (src/src/video/ports.rs:6-7).  The code does not keep this when a listener
\* loses its port between the probe and its bind: the listener releases the
\* port, the session keeps announcing it, and the pool hands it out again.
SessionsHaveOwnPorts ==
    \A s, t \in Sessions :
        (live_port[s] = live_port[t] /\ live_port[s] # NoPort) => s = t

==============================================================================

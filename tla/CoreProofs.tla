----------------------------- MODULE CoreProofs ------------------------------
(***************************************************************************)
(* Theorems about Core, for every number of connections, planes, ports and *)
(* addresses.  None of the properties is inductive by itself: what ties a  *)
(* held port to the pool's set runs through the handler's locals, so the   *)
(* invariant says for each state of a handler what its locals and its      *)
(* SessionState hold, and whose each plane is.                             *)
(***************************************************************************)
EXTENDS Core, TLAPS

\* A handler that waits for a message, or for the camera, has nothing in its
\* locals; one that tears down has taken the plane out of the session.
LocalsFit ==
    \A s \in Sessions :
        /\ conn[s] \in {"idle", "login", "gone"} =>
               local_port[s] = NoPort /\ local_plane[s] = None
        /\ conn[s] = "apply" => (local_port[s] = NoPort) = (local_plane[s] = None)
        /\ conn[s] = "apply" => (local_plane[s] = None) = (video[s] # None)
        /\ conn[s] \in {"logout", "closing", "gone"} =>
               video[s] = None /\ local_plane[s] = None

\* The video server and the live port come and go together.
VideoHasPort == \A s \in Sessions : (video[s] = None) = (live_port[s] = NoPort)

\* Credentials, camera and video server come and go together, in every state
\* of a handler that will look at them again.
Armed ==
    \A s \in Sessions :
        /\ conn[s] \in {"idle", "login", "apply"} =>
               /\ has_auth[s] <=> camera[s] # None
               /\ video[s] # None <=> camera[s] # None
        /\ conn[s] = "logout" => camera[s] = None /\ ~has_auth[s]

Owns(s, v) == video[s] = v \/ local_plane[s] = v

\* A plane in a session or in a login was spawned for the port held there; one
\* that was aborted had been spawned.
PlanesKnown ==
    /\ \A s \in Sessions, v \in Planes :
        /\ Owns(s, v) => listener[v] # "unused" /\ v \notin aborted
        /\ video[s] = v => port[v] = live_port[s]
        /\ local_plane[s] = v => port[v] = local_port[s]
    /\ \A v \in aborted : listener[v] # "unused"

\* A plane belongs to one session, and until it is aborted to some session.
PlanesOwned ==
    /\ \A s, t \in Sessions, v \in Planes : Owns(s, v) /\ Owns(t, v) => s = t
    /\ \A v \in Planes :
          (listener[v] # "unused" /\ v \notin aborted) => \E s \in Sessions : Owns(s, v)

\* No start was spawned on a plane no session has had yet.
NoEarlyStart ==
    /\ \A v \in Planes : listener[v] = "unused" => starts[v] = {}
    /\ \A s \in Sessions, v \in Planes : local_plane[s] = v => starts[v] = {}

IInv ==
    /\ TypeOK
    /\ LocalsFit
    /\ VideoHasPort
    /\ Armed
    /\ PlanesKnown
    /\ PlanesOwned
    /\ NoEarlyStart
    /\ NoPortLeak
    /\ LeasesExclusive
    /\ DialsPinnedAddress

------------------------------------------------------------------------------
(***************************************************************************)
(* Steps.                                                                  *)
(***************************************************************************)

\* A step of the specification is one of these, or leaves everything as it is.
LEMMA Steps ==
    ASSUME [Next]_vars
    PROVE  \/ \E s \in Sessions : \/ Login(s) \/ LoginRefused(s) \/ ReusePlane(s)
                                  \/ PoolExhausted(s) \/ OpenVideo(s) \/ Logout(s)
                                  \/ PeerCloses(s) \/ LeaveLoop(s) \/ ReleasePort(s)
           \/ \E s \in Sessions, v \in Planes, p \in Ports : NewPlane(s, v, p)
           \/ \E s \in Sessions, a \in Addrs : ApplyLogin(s, a)
           \/ \E v \in Planes : \/ ListenerPolled(v) \/ ListenerBinds(v)
                                \/ ListenerBindFails(v) \/ ListenerSurrenders(v)
                                \/ ListenerDropped(v)
           \/ \E v \in Planes, a \in Addrs : RunStart(v, a)
           \/ \E p \in Ports : Occupy(p) \/ Vacate(p)
           \/ UNCHANGED vars
  BY DEF Next, Serve, Tab, Listener

\* The variables keep their types.
LEMMA TypeStep == TypeOK /\ [Next]_vars => TypeOK'
<1> SUFFICES ASSUME TypeOK, [Next]_vars PROVE TypeOK'
  OBVIOUS
<1> USE DEF TypeOK, Goto, SetListener, session, locals, tasks
<1>1. ASSUME NEW s \in Sessions, Login(s) PROVE TypeOK'
  BY <1>1 DEF Login
<1>2. ASSUME NEW s \in Sessions, LoginRefused(s) PROVE TypeOK'
  BY <1>2 DEF LoginRefused
<1>3. ASSUME NEW s \in Sessions, ReusePlane(s) PROVE TypeOK'
  BY <1>3 DEF ReusePlane
<1>4. ASSUME NEW s \in Sessions, PoolExhausted(s) PROVE TypeOK'
  BY <1>4 DEF PoolExhausted
<1>5. ASSUME NEW s \in Sessions, OpenVideo(s) PROVE TypeOK'
  BY <1>5 DEF OpenVideo
<1>6. ASSUME NEW s \in Sessions, Logout(s) PROVE TypeOK'
  BY <1>6 DEF Logout, TakePlane
<1>7. ASSUME NEW s \in Sessions, PeerCloses(s) PROVE TypeOK'
  BY <1>7 DEF PeerCloses
<1>8. ASSUME NEW s \in Sessions, LeaveLoop(s) PROVE TypeOK'
  BY <1>8 DEF LeaveLoop, TakePlane
<1>9. ASSUME NEW s \in Sessions, ReleasePort(s) PROVE TypeOK'
  BY <1>9 DEF ReleasePort
<1>10. ASSUME NEW s \in Sessions, NEW v \in Planes, NEW p \in Ports, NewPlane(s, v, p)
       PROVE TypeOK'
  BY <1>10 DEF NewPlane
<1>11. ASSUME NEW s \in Sessions, NEW a \in Addrs, ApplyLogin(s, a) PROVE TypeOK'
  BY <1>11 DEF ApplyLogin, PinnedCamera
<1>12. ASSUME NEW v \in Planes, \/ ListenerPolled(v) \/ ListenerBinds(v)
                                \/ ListenerBindFails(v) \/ ListenerSurrenders(v)
                                \/ ListenerDropped(v)
       PROVE TypeOK'
  BY <1>12 DEF ListenerPolled, ListenerBinds, ListenerBindFails, ListenerSurrenders,
               ListenerDropped
<1>13. ASSUME NEW v \in Planes, NEW a \in Addrs, RunStart(v, a) PROVE TypeOK'
  BY <1>13 DEF RunStart
<1>14. ASSUME NEW p \in Ports, Occupy(p) \/ Vacate(p) PROVE TypeOK'
  BY <1>14 DEF Occupy, Vacate
<1>15. CASE UNCHANGED vars
  BY <1>15 DEF vars
<1>16. QED
  BY <1>1, <1>2, <1>3, <1>4, <1>5, <1>6, <1>7, <1>8, <1>9, <1>10, <1>11, <1>12, <1>13,
     <1>14, <1>15, Steps

\* The actions that touch only a handler's place, or the browser's end.
LEMMA PlaceStep ==
    ASSUME IInv, NEW s \in Sessions,
           \/ Login(s) \/ LoginRefused(s) \/ ReusePlane(s)
           \/ PoolExhausted(s) \/ PeerCloses(s)
    PROVE  IInv'
<1> USE DEF IInv, TypeOK, Goto, session, locals, tasks,
            Login, LoginRefused, ReusePlane, PoolExhausted, PeerCloses
<1>1. TypeOK'
  BY TypeStep DEF Next, Serve, Tab
<1>2. LocalsFit'
  BY DEF LocalsFit, VideoHasPort
<1>3. VideoHasPort' /\ PlanesKnown' /\ PlanesOwned' /\ NoEarlyStart' /\ DialsPinnedAddress'
  BY DEF VideoHasPort, PlanesKnown, PlanesOwned, NoEarlyStart, DialsPinnedAddress, Owns
<1>4. Armed'
  BY DEF Armed
<1>5. NoPortLeak'
  BY DEF NoPortLeak, Holds
<1>6. LeasesExclusive'
  BY DEF LeasesExclusive, Holds, NoSurrender
<1>7. QED
  BY <1>1, <1>2, <1>3, <1>4, <1>5, <1>6

\* A login that gets a plane of its own.
LEMMA NewPlaneStep ==
    ASSUME IInv, NEW s \in Sessions, NEW v \in Planes, NEW p \in Ports, NewPlane(s, v, p)
    PROVE  IInv'
<1> USE DEF IInv, TypeOK, Goto, session, locals, tasks, NewPlane
<1>1. TypeOK'
  BY TypeStep DEF Next, Serve, Tab
<1>2. LocalsFit'
  BY CoreAssumption DEF LocalsFit, VideoHasPort, Planes
<1>3. VideoHasPort' /\ Armed'
  BY DEF VideoHasPort, Armed
<1>4. PlanesKnown'
  BY CoreAssumption DEF PlanesKnown, Owns, Planes, LocalsFit, VideoHasPort
<1>5. PlanesOwned'
  BY CoreAssumption DEF PlanesOwned, PlanesKnown, Owns, LocalsFit, VideoHasPort
<1>6. NoEarlyStart' /\ DialsPinnedAddress'
  BY DEF NoEarlyStart, DialsPinnedAddress
<1>7. NoPortLeak'
  BY CoreAssumption DEF NoPortLeak, Holds, LocalsFit
<1>8. LeasesExclusive'
  BY CoreAssumption DEF LeasesExclusive, Holds, NoSurrender, LocalsFit, Free
<1>9. QED
  BY <1>1, <1>2, <1>3, <1>4, <1>5, <1>6, <1>7, <1>8

\* The DispatchAction of a login is applied.
LEMMA ApplyLoginStep ==
    ASSUME IInv, NEW s \in Sessions, NEW a \in Addrs, ApplyLogin(s, a)
    PROVE  IInv'
<1> USE DEF IInv, TypeOK, Goto, session, locals, tasks, ApplyLogin, PinnedCamera
<1>1. TypeOK'
  BY TypeStep DEF Next, Serve, Tab
<1>2. LocalsFit'
  BY DEF LocalsFit
<1>3. VideoHasPort'
  BY DEF VideoHasPort, LocalsFit
<1>4. Armed'
  <2>1. camera'[s] # None /\ has_auth'[s] /\ video'[s] # None
    BY CoreAssumption DEF LocalsFit
  <2>2. ASSUME NEW t \in Sessions, t # s
        PROVE  /\ conn'[t] = conn[t] /\ camera'[t] = camera[t]
               /\ has_auth'[t] = has_auth[t] /\ video'[t] = video[t]
    BY <2>2
  <2>3. QED
    BY <2>1, <2>2 DEF Armed
<1>5. PlanesKnown'
  BY CoreAssumption DEF PlanesKnown, Owns, Planes, LocalsFit
<1>6. PlanesOwned'
  BY CoreAssumption DEF PlanesOwned, Owns, LocalsFit, Planes
<1>7. NoEarlyStart'
  BY CoreAssumption DEF NoEarlyStart, Planes
<1>8. DialsPinnedAddress'
  BY CoreAssumption DEF DialsPinnedAddress, NoEarlyStart, Armed, LocalsFit
<1>9. NoPortLeak'
  BY DEF NoPortLeak, Holds, LocalsFit, VideoHasPort
<1>10. LeasesExclusive'
  BY DEF LeasesExclusive, Holds, NoSurrender, LocalsFit, VideoHasPort
<1>11. QED
  BY <1>1, <1>2, <1>3, <1>4, <1>5, <1>6, <1>7, <1>8, <1>9, <1>10

\* Starts are spawned, and run.
LEMMA StartsStep ==
    ASSUME IInv,
           \/ \E s \in Sessions : OpenVideo(s)
           \/ \E v \in Planes, a \in Addrs : RunStart(v, a)
    PROVE  IInv'
<1> USE DEF IInv, TypeOK, session, locals, tasks, OpenVideo, RunStart
<1>1. TypeOK'
  BY TypeStep DEF Next, Tab
<1>2. LocalsFit' /\ VideoHasPort' /\ Armed' /\ PlanesKnown' /\ PlanesOwned'
  BY DEF LocalsFit, VideoHasPort, Armed, PlanesKnown, PlanesOwned, Owns
<1>3. NoPortLeak' /\ LeasesExclusive'
  BY DEF NoPortLeak, LeasesExclusive, Holds, NoSurrender
<1>4. NoEarlyStart'
  <2>1. ASSUME NEW s \in Sessions, OpenVideo(s)
        PROVE  /\ listener[video[s]] # "unused"
               /\ \A t \in Sessions : local_plane[t] # video[s]
    <3>1. video[s] \in Planes /\ Owns(s, video[s]) /\ local_plane[s] = None
      BY <2>1 DEF Owns, LocalsFit
    <3>2. QED
      BY <2>1, <3>1 DEF PlanesKnown, PlanesOwned, Owns
  <2>2. CASE \E s \in Sessions : OpenVideo(s)
    <3>1. PICK s \in Sessions : OpenVideo(s)
      BY <2>2
    <3>2. \A w \in Planes : w # video[s] => starts'[w] = starts[w]
      BY <3>1
    <3>3. UNCHANGED <<listener, local_plane>>
      BY <3>1
    <3>4. /\ listener[video[s]] # "unused"
          /\ \A t \in Sessions : local_plane[t] # video[s]
      BY <2>1, <3>1
    <3>5. NoEarlyStart
      OBVIOUS
    <3> HIDE DEF IInv, TypeOK, OpenVideo, RunStart
    <3>6. QED
      BY <3>2, <3>3, <3>4, <3>5 DEF NoEarlyStart
  <2>3. CASE \E v \in Planes, a \in Addrs : RunStart(v, a)
    BY <2>3 DEF NoEarlyStart
  <2>4. QED
    BY <2>2, <2>3
<1>5. DialsPinnedAddress'
  BY CoreAssumption DEF DialsPinnedAddress, PlanesOwned, Owns, Planes
<1>6. QED
  BY <1>1, <1>2, <1>3, <1>4, <1>5

\* The plane is taken out of the session, by a logout or at the end.
LEMMA TakePlaneStep ==
    ASSUME IInv, NEW s \in Sessions, Logout(s) \/ LeaveLoop(s)
    PROVE  IInv'
<1> USE DEF IInv, TypeOK, Goto, session, locals, tasks, Logout, LeaveLoop, TakePlane
<1>1. TypeOK'
  BY TypeStep DEF Next, Serve, Tab
<1>2. LocalsFit'
  BY DEF LocalsFit
<1>3. VideoHasPort'
  BY DEF VideoHasPort
<1>4. Armed'
  BY DEF Armed, VideoHasPort
<1>5. PlanesKnown'
  <2>1. \A t \in Sessions, v \in Planes :
           Owns(t, v)' => Owns(t, v) /\ v # video[s]
    BY CoreAssumption DEF PlanesOwned, Owns, LocalsFit, Planes
  <2>2. \A t \in Sessions, v \in Planes :
           /\ video'[t] = v => video[t] = v /\ live_port'[t] = live_port[t]
           /\ local_plane'[t] = v => conn[t] = "apply" /\ local_port'[t] = local_port[t]
    BY CoreAssumption DEF LocalsFit, Planes
  <2>3. aborted' \subseteq aborted \cup ({video[s]} \ {None})
    OBVIOUS
  <2>4. \A v \in aborted' : listener'[v] # "unused"
    BY <2>3 DEF PlanesKnown, Owns
  <2>5. QED
    BY <2>1, <2>2, <2>3, <2>4 DEF PlanesKnown, Owns
<1>6. PlanesOwned'
  BY CoreAssumption DEF PlanesOwned, VideoHasPort, Owns, LocalsFit, Planes
<1>7. NoEarlyStart' /\ DialsPinnedAddress'
  <2>1. UNCHANGED <<local_plane, listener, starts>>
    OBVIOUS
  <2>2. \A t \in Sessions : video'[t] # None =>
           t # s /\ video'[t] = video[t] /\ camera'[t] = camera[t]
    OBVIOUS
  <2>3. NoEarlyStart'
    BY <2>1 DEF NoEarlyStart
  <2>4. DialsPinnedAddress'
    BY <2>1, <2>2 DEF DialsPinnedAddress
  <2>5. QED
    BY <2>3, <2>4
<1>8. \A t \in Sessions, p \in Ports : Holds(t, p)' <=> Holds(t, p)
  <2>1. conn[s] = "idle" /\ local_port[s] = NoPort
    BY DEF LocalsFit
  <2>2. (video[s] = None) = (live_port[s] = NoPort)
    BY DEF VideoHasPort
  <2>3. \A p \in Ports : Holds(s, p)' <=> Holds(s, p)
    BY <2>1, <2>2 DEF Holds
  <2>4. \A t \in Sessions \ {s}, p \in Ports : Holds(t, p)' <=> Holds(t, p)
    BY DEF Holds
  <2>5. QED
    BY <2>3, <2>4
<1>9. NoPortLeak'
  BY <1>8 DEF NoPortLeak
<1>10. LeasesExclusive'
  BY <1>8 DEF LeasesExclusive, NoSurrender
<1>11. QED
  BY <1>1, <1>2, <1>3, <1>4, <1>5, <1>6, <1>7, <1>9, <1>10

\* The port goes back to the pool.
LEMMA ReleaseStep ==
    ASSUME IInv, NEW s \in Sessions, ReleasePort(s)
    PROVE  IInv'
<1> USE DEF IInv, TypeOK, Goto, session, locals, tasks, ReleasePort
<1>1. TypeOK'
  BY TypeStep DEF Next, Serve
<1>2. LocalsFit' /\ VideoHasPort'
  BY DEF LocalsFit, VideoHasPort
<1>3. Armed'
  BY DEF Armed, LocalsFit
<1>4. PlanesKnown'
  BY CoreAssumption DEF PlanesKnown, Owns, LocalsFit, Planes
<1>5. PlanesOwned' /\ NoEarlyStart' /\ DialsPinnedAddress'
  BY DEF PlanesOwned, NoEarlyStart, DialsPinnedAddress, Owns
<1>6. NoPortLeak'
  BY DEF NoPortLeak, Holds, LocalsFit, VideoHasPort
<1>7. LeasesExclusive'
  BY DEF LeasesExclusive, Holds, NoSurrender, LocalsFit, VideoHasPort
<1>8. QED
  BY <1>1, <1>2, <1>3, <1>4, <1>5, <1>6, <1>7

\* The listener tasks.  Only a surrender touches the pool, and it puts an end
\* to what LeasesExclusive assumes.
LEMMA ListenerStep ==
    ASSUME IInv, NEW v \in Planes, Listener(v)
    PROVE  IInv'
<1> USE DEF IInv, TypeOK, session, locals, tasks, Listener, SetListener, ListenerPolled,
            ListenerBinds, ListenerBindFails, ListenerSurrenders, ListenerDropped
<1>1. TypeOK'
  BY TypeStep DEF Next
<1>2. LocalsFit' /\ VideoHasPort' /\ Armed' /\ DialsPinnedAddress'
  BY DEF LocalsFit, VideoHasPort, Armed, DialsPinnedAddress
<1>3. PlanesKnown' /\ PlanesOwned' /\ NoEarlyStart'
  <2>1. \A w \in Planes : listener'[w] = "unused" <=> listener[w] = "unused"
    OBVIOUS
  <2>2. UNCHANGED <<video, local_plane, live_port, local_port, port, aborted, starts>>
    OBVIOUS
  <2>3. PlanesKnown'
    BY <2>1, <2>2 DEF PlanesKnown, Owns
  <2>4. PlanesOwned'
    BY <2>1, <2>2 DEF PlanesOwned, Owns
  <2>5. NoEarlyStart'
    BY <2>1, <2>2 DEF NoEarlyStart
  <2>6. QED
    BY <2>3, <2>4, <2>5
<1>4. NoPortLeak'
  BY DEF NoPortLeak, Holds
<1>5. LeasesExclusive'
  <2>1. CASE ListenerSurrenders(v)
    BY <2>1 DEF LeasesExclusive, NoSurrender
  <2>2. CASE ~ListenerSurrenders(v)
    <3>1. NoSurrender' => NoSurrender
      BY <2>2 DEF NoSurrender
    <3>2. QED
      BY <2>2, <3>1 DEF LeasesExclusive, Holds
  <2>3. QED
    BY <2>1, <2>2
<1>6. QED
  BY <1>1, <1>2, <1>3, <1>4, <1>5

\* Other processes, and steps that change nothing.
LEMMA OutsideStep ==
    ASSUME IInv, (\E p \in Ports : Occupy(p) \/ Vacate(p)) \/ UNCHANGED vars
    PROVE  IInv'
<1> USE DEF IInv, session, locals, tasks, vars, Occupy, Vacate
<1>1. TypeOK'
  BY TypeStep DEF Next
<1>2. LocalsFit' /\ VideoHasPort' /\ Armed' /\ PlanesKnown' /\ PlanesOwned'
  BY DEF LocalsFit, VideoHasPort, Armed, PlanesKnown, PlanesOwned, Owns
<1>3. NoEarlyStart' /\ DialsPinnedAddress' /\ NoPortLeak' /\ LeasesExclusive'
  BY DEF NoEarlyStart, DialsPinnedAddress, NoPortLeak, LeasesExclusive, Holds, NoSurrender
<1>4. QED
  BY <1>1, <1>2, <1>3
------------------------------------------------------------------------------
(***************************************************************************)
(* The invariant and what follows from it.                                 *)
(***************************************************************************)

LEMMA InitIInv == Init => IInv
<1> SUFFICES ASSUME Init PROVE IInv
  OBVIOUS
<1> USE CoreAssumption DEF Init
<1>1. TypeOK
  BY DEF TypeOK
<1>2. LocalsFit /\ VideoHasPort /\ Armed
  BY DEF LocalsFit, VideoHasPort, Armed
<1>3. PlanesKnown /\ PlanesOwned
  BY DEF PlanesKnown, PlanesOwned, Owns, Planes
<1>4. NoEarlyStart /\ NoPortLeak /\ LeasesExclusive /\ DialsPinnedAddress
  BY DEF NoEarlyStart, NoPortLeak, LeasesExclusive, Holds, DialsPinnedAddress
<1>5. QED
  BY <1>1, <1>2, <1>3, <1>4 DEF IInv

LEMMA IInvStep == IInv /\ [Next]_vars => IInv'
BY Steps, PlaceStep, NewPlaneStep, ApplyLoginStep, StartsStep, TakePlaneStep, ReleaseStep,
   ListenerStep, OutsideStep DEF Listener

LEMMA Invariance == Spec => []IInv
<1>1. QED
  BY InitIInv, IInvStep, PTL DEF Spec

\* Every variable keeps its type (core.rs:90-102 and the tasks and pool).
THEOREM TypeCorrect == Spec => []TypeOK
<1>1. IInv => TypeOK
  BY DEF IInv
<1>2. QED
  BY <1>1, Invariance, PTL

\* A port the pool counts as handed out is always held by a connection that
\* will return it, whatever refusals, failed binds, logouts and disconnects
\* there were, for any number of tabs and ports (core.rs:132-142, 639-673).
THEOREM NoLeak == Spec => []NoPortLeak
<1>1. IInv => NoPortLeak
  BY DEF IInv
<1>2. QED
  BY <1>1, Invariance, PTL

\* Until some listener has given its port back after a failed bind, no two
\* connections hold the same port (core.rs:647-664, ports.rs:78-108).
THEOREM Exclusive == Spec => []LeasesExclusive
<1>1. IInv => LeasesExclusive
  BY DEF IInv
<1>2. QED
  BY <1>1, Invariance, PTL

\* Camera, credentials, VideoServer and live port are set and cleared together
\* along every sequence of messages (core.rs:235-256).
THEOREM Together == Spec => []ArmedTogether
<1>1. IInv => ArmedTogether
  BY DEF IInv, ArmedTogether, Armed, VideoHasPort, TypeOK
<1>2. QED
  BY <1>1, Invariance, PTL

\* Until some listener has given its port back, the listener bound to a
\* session's live port is the session's own (core.rs:654-672).
THEOREM ServesItsOwn == Spec => []PortServesItsSession
<1>1. IInv => PortServesItsSession
  <2> SUFFICES ASSUME IInv, NoSurrender, NEW s \in Sessions, NEW v \in Planes,
                      live_port[s] # NoPort, port[v] = live_port[s],
                      listener[v] = "bound", v \notin aborted
               PROVE  video[s] = v
    BY DEF PortServesItsSession
  <2>1. PICK t \in Sessions : Owns(t, v)
    BY DEF IInv, PlanesOwned
  <2>2. port[v] \in {live_port[t], local_port[t]} /\ conn[t] # "gone"
    BY <2>1, CoreAssumption DEF IInv, PlanesKnown, Owns, LocalsFit, TypeOK, Planes
  <2>3. t = s
    BY <2>2 DEF IInv, LeasesExclusive, Holds, LocalsFit, VideoHasPort, TypeOK
  <2>4. local_plane[s] # v
    <3>1. conn[s] \in {"idle", "login", "apply", "logout", "closing", "gone"}
      BY DEF IInv, TypeOK
    <3>2. video[s] # None
      BY DEF IInv, VideoHasPort
    <3>3. local_plane[s] = None
      BY <3>1, <3>2 DEF IInv, LocalsFit
    <3>4. v # None
      BY CoreAssumption DEF Planes
    <3>5. QED
      BY <3>3, <3>4
  <2>5. QED
    BY <2>1, <2>3, <2>4 DEF Owns
<1>2. QED
  BY <1>1, Invariance, PTL

\* A spawned start dials the address its session's camera was pinned to by the
\* first login, whatever later logins resolved (core.rs:238, 779-786).
THEOREM DialsPinned == Spec => []DialsPinnedAddress
<1>1. IInv => DialsPinnedAddress
  BY DEF IInv
<1>2. QED
  BY <1>1, Invariance, PTL

==============================================================================

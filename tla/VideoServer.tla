----------------------------- MODULE VideoServer -----------------------------
(***************************************************************************)
(* One session's VideoServer (src/src/video/mod.rs): the broadcast senders *)
(* subscribers attach to, the armed origin and the handle of the pipeline  *)
(* task, each behind a lock of its own.  `start` and `stop` take the locks *)
(* one after the other, never two at a time, so two calls interleave lock  *)
(* by lock.  The callers are the session's WebSocket handler, which awaits *)
(* `stop` (closeVideo, logout, disconnect), and the tasks openVideo spawns *)
(* to run `start` while the handler goes on to the next message.           *)
(*                                                                         *)
(* The camera address is pinned for the session, so all starts arm the     *)
(* same origin: armed_origin is TRUE or FALSE here.  The RTSP handshake    *)
(* and the media path are one step each: "connected" and "a packet".       *)
(***************************************************************************)

CONSTANTS Starts,  \* the openVideo requests; each one's start() makes one
                   \* channel pair and one pipeline, named by the request
          WS,      \* the session's WebSocket handler
          None     \* an empty slot

ASSUME ServerAssumption == WS \notin Starts /\ None \notin Starts \cup {WS}

VARIABLES
    pc,            \* where each caller is
    leaving,       \* the handler's next (or current) stop is its teardown
    video_tx,      \* the start whose video channel subscribers would get
    audio_tx,      \* the same for the audio channel
    armed_origin,  \* whether the FLV endpoints are gated on the camera origin
    video_task,    \* the pipeline whose JoinHandle is kept
    pipeline,      \* the pipeline task of each start
    aborted,       \* pipelines abort() was called on
    reader,        \* the detached task reading each pipeline's RTSP socket
    clash          \* history: which kinds of calls ever overlapped

vars == <<pc, leaving, video_tx, audio_tx, armed_origin, video_task,
          pipeline, aborted, reader, clash>>
slot == <<video_tx, audio_tx, armed_origin, video_task>>
tasks == <<pipeline, aborted, reader>>

Callers == Starts \cup {WS}
------------------------------------------------------------------------------
Goto(c, label) == pc' = [pc EXCEPT ![c] = label]

\* Inside a call: past its first lock and not yet past its last.
InCall(c) == pc[c] \in {"clear_audio", "clear_origin", "take_task",
                        "arm", "set_video", "set_audio", "store"}

\* What a call that begins now overlaps with.
Clashes(c) ==
    {"starts" : d \in {s \in Starts : c # WS /\ InCall(s)}} \cup
    {"stop" : d \in {e \in Callers \ {c} : InCall(e) /\ WS \in {c, e}}}

Live(s) == pipeline[s] \in {"connecting", "running"} /\ s \notin aborted

Init ==
    /\ pc = [c \in Callers |-> IF c = WS THEN "idle" ELSE "unborn"]
    /\ leaving = FALSE
    /\ video_tx = None /\ audio_tx = None
    /\ armed_origin = FALSE
    /\ video_task = None
    /\ pipeline = [s \in Starts |-> "none"]
    /\ aborted = {}
    /\ reader = [s \in Starts |-> "none"]
    /\ clash = {}
------------------------------------------------------------------------------
(***************************************************************************)
(* The handler: one message at a time.                                     *)
(***************************************************************************)

\* openVideo spawns a task that will run start(), and answers at once.
OpenVideo(s) ==
    /\ pc[WS] = "idle"
    /\ pc[s] = "unborn"
    /\ Goto(s, "clear_video")
    /\ UNCHANGED <<leaving, slot, tasks, clash>>

\* closeVideo awaits stop() and goes on.
CloseVideo ==
    /\ pc[WS] = "idle"
    /\ Goto(WS, "clear_video")
    /\ UNCHANGED <<leaving, slot, tasks, clash>>

\* Logout or the end of the connection: teardown_video awaits stop().
Teardown ==
    /\ pc[WS] = "idle"
    /\ Goto(WS, "clear_video")
    /\ leaving' = TRUE
    /\ UNCHANGED <<slot, tasks, clash>>
------------------------------------------------------------------------------
(***************************************************************************)
(* stop(), called by the handler and first thing by start().               *)
(***************************************************************************)

ClearVideo(c) ==
    /\ pc[c] = "clear_video"
    /\ video_tx' = None
    /\ clash' = clash \cup Clashes(c)
    /\ Goto(c, "clear_audio")
    /\ UNCHANGED <<leaving, audio_tx, armed_origin, video_task, tasks>>

\* Mutant of ClearAudio: the audio sender is forgotten.
ClearAudioForgotten(c) ==
    /\ pc[c] = "clear_audio"
    /\ Goto(c, "clear_origin")
    /\ UNCHANGED <<leaving, slot, tasks, clash>>

ClearAudio(c) ==
    /\ pc[c] = "clear_audio"
    /\ audio_tx' = None
    /\ Goto(c, "clear_origin")
    /\ UNCHANGED <<leaving, video_tx, armed_origin, video_task, tasks, clash>>

ClearOrigin(c) ==
    /\ pc[c] = "clear_origin"
    /\ armed_origin' = FALSE
    /\ Goto(c, "take_task")
    /\ UNCHANGED <<leaving, video_tx, audio_tx, video_task, tasks, clash>>

\* Mutant of AfterStop: a start that has cleared the slots goes no further.
AfterStopIdle(c) == IF leaving THEN "closed" ELSE "idle"

\* Mutant of AfterStop: a start does not arm the origin.
AfterStopUnarmed(c) == IF c # WS THEN "set_video" ELSE IF leaving THEN "closed" ELSE "idle"

AfterStop(c) == IF c # WS THEN "arm" ELSE IF leaving THEN "closed" ELSE "idle"

\* Mutant of TakeTask: the handle is dropped, its task is not aborted.
TakeTaskDetach(c) ==
    /\ pc[c] = "take_task"
    /\ video_task' = None
    /\ Goto(c, AfterStop(c))
    /\ UNCHANGED <<leaving, video_tx, audio_tx, armed_origin, tasks, clash>>

\* Take the handle, if any, and abort the task it names.
TakeTask(c) ==
    /\ pc[c] = "take_task"
    /\ video_task' = None
    /\ aborted' = aborted \cup ({video_task} \ {None})
    /\ Goto(c, AfterStop(c))
    /\ UNCHANGED <<leaving, video_tx, audio_tx, armed_origin, pipeline, reader, clash>>
------------------------------------------------------------------------------
(***************************************************************************)
(* The rest of start().                                                    *)
(***************************************************************************)

Arm(s) ==
    /\ pc[s] = "arm"
    /\ armed_origin' = TRUE
    /\ Goto(s, "set_video")
    /\ UNCHANGED <<leaving, video_tx, audio_tx, video_task, tasks, clash>>

SetVideo(s) ==
    /\ pc[s] = "set_video"
    /\ video_tx' = s
    /\ Goto(s, "set_audio")
    /\ UNCHANGED <<leaving, audio_tx, armed_origin, video_task, tasks, clash>>

\* The audio sender is stored and the pipeline spawned with no await between.
SetAudioAndSpawn(s) ==
    /\ pc[s] = "set_audio"
    /\ audio_tx' = s
    /\ pipeline' = [pipeline EXCEPT ![s] = "connecting"]
    /\ Goto(s, "store")
    /\ UNCHANGED <<leaving, video_tx, armed_origin, video_task, aborted, reader, clash>>

\* The handle goes into its slot; one already there is dropped, which detaches
\* the task it named.
StoreTask(s) ==
    /\ pc[s] = "store"
    /\ video_task' = s
    /\ Goto(s, "done")
    /\ UNCHANGED <<leaving, video_tx, audio_tx, armed_origin, tasks, clash>>
------------------------------------------------------------------------------
(***************************************************************************)
(* The pipeline task and its reader.                                       *)
(***************************************************************************)

\* RtspClient::connect failed: run_pipeline returns, nothing is cleared.
ConnectFails(s) ==
    /\ pipeline[s] = "connecting"
    /\ pipeline' = [pipeline EXCEPT ![s] = "ended"]
    /\ UNCHANGED <<pc, leaving, slot, aborted, reader, clash>>

\* The handshake is through: the reader is spawned, then the transcoder made,
\* which may fail and end the pipeline.
Connected(s) ==
    /\ pipeline[s] = "connecting"
    /\ reader' = [reader EXCEPT ![s] = "reading"]
    /\ \E next \in {"running", "ended"} : pipeline' = [pipeline EXCEPT ![s] = next]
    /\ UNCHANGED <<pc, leaving, slot, aborted, clash>>

\* The reader has gone and the channel is drained: the loop ends.
ChannelCloses(s) ==
    /\ pipeline[s] = "running"
    /\ reader[s] = "gone"
    /\ pipeline' = [pipeline EXCEPT ![s] = "ended"]
    /\ UNCHANGED <<pc, leaving, slot, aborted, reader, clash>>

\* The runtime drops an aborted task the next time it yields.
AbortTakesEffect(s) ==
    /\ s \in aborted
    /\ pipeline[s] \in {"connecting", "running"}
    /\ pipeline' = [pipeline EXCEPT ![s] = "ended"]
    /\ UNCHANGED <<pc, leaving, slot, aborted, reader, clash>>

\* Mutant of PacketFindsNoPipeline: a failed send is ignored.
PacketIgnored(s) ==
    /\ reader[s] = "reading"
    /\ pipeline[s] = "ended"
    /\ UNCHANGED vars

\* A packet arrives after the pipeline dropped the channel: send fails and the
\* reader leaves, closing the RTSP socket.  (While the pipeline runs, a packet
\* changes nothing here.)
PacketFindsNoPipeline(s) ==
    /\ reader[s] = "reading"
    /\ pipeline[s] = "ended"
    /\ reader' = [reader EXCEPT ![s] = "gone"]
    /\ UNCHANGED <<pc, leaving, slot, pipeline, aborted, clash>>

\* The camera closes the connection or sends something unreadable.
ReadError(s) ==
    /\ reader[s] = "reading"
    /\ reader' = [reader EXCEPT ![s] = "gone"]
    /\ UNCHANGED <<pc, leaving, slot, pipeline, aborted, clash>>
------------------------------------------------------------------------------
StopStep(c) == ClearVideo(c) \/ ClearAudio(c) \/ ClearOrigin(c) \/ TakeTask(c)
StartStep(s) == Arm(s) \/ SetVideo(s) \/ SetAudioAndSpawn(s) \/ StoreTask(s)

Handler == CloseVideo \/ Teardown \/ \E s \in Starts : OpenVideo(s)
Call == \/ \E c \in Callers : StopStep(c)
        \/ \E s \in Starts : StartStep(s)
Media == \E s \in Starts : \/ ConnectFails(s)
                           \/ Connected(s)
                           \/ ChannelCloses(s)
                           \/ AbortTakesEffect(s)
                           \/ PacketFindsNoPipeline(s)
                           \/ ReadError(s)

Next == Handler \/ Call \/ Media

\* The runtime runs every ready task: no lock is held across an await, so a
\* call always gets its next lock, an aborted task is dropped and a closed
\* channel is noticed.  PacketFindsNoPipeline is fair only because a streaming
\* camera keeps sending; nothing else ends a read.  No message and no camera
\* failure is promised.
Fairness ==
    /\ \A c \in Callers : WF_vars(StopStep(c))
    /\ \A s \in Starts : /\ WF_vars(StartStep(s))
                         /\ WF_vars(ChannelCloses(s))
                         /\ WF_vars(AbortTakesEffect(s))
                         /\ WF_vars(PacketFindsNoPipeline(s))

Spec == Init /\ [][Next]_vars
FairSpec == Spec /\ Fairness
------------------------------------------------------------------------------
(***************************************************************************)
(* Properties.                                                             *)
(***************************************************************************)

StopLabels == {"clear_video", "clear_audio", "clear_origin", "take_task"}

\* The values the variables take.
TypeOK ==
    /\ pc \in [Callers -> StopLabels \cup {"idle", "closed", "unborn", "arm",
                                           "set_video", "set_audio", "store", "done"}]
    /\ pc[WS] \in StopLabels \cup {"idle", "closed"}
    /\ \A s \in Starts : pc[s] \notin {"idle", "closed"}
    /\ leaving \in BOOLEAN
    /\ video_tx \in Starts \cup {None}
    /\ audio_tx \in Starts \cup {None}
    /\ armed_origin \in BOOLEAN
    /\ video_task \in Starts \cup {None}
    /\ pipeline \in [Starts -> {"none", "connecting", "running", "ended"}]
    /\ aborted \subseteq Starts
    /\ reader \in [Starts -> {"none", "reading", "gone"}]
    /\ clash \subseteq {"starts", "stop"}

\* As long as no two starts overlapped, no pipeline is lost: one that still
\* runs is named by the kept handle, or its start is about to store it, even
\* when stops cut into starts at any lock (mod.rs:187, 203-206).
NoLostPipeline ==
    "starts" \notin clash =>
        \A s \in Starts : Live(s) => video_task = s \/ pc[s] = "store"

Quiet == \A c \in Callers : ~InCall(c)

\* As long as no calls overlapped, the four slots agree whenever no call is in
\* progress: either all are empty or the senders and the handle are those of
\* one start and the origin is armed, and no other pipeline runs.
SlotsAgree ==
    (clash = {} /\ Quiet) =>
        /\ video_tx = video_task /\ audio_tx = video_task
        /\ armed_origin = (video_task # None)
        /\ \A s \in Starts : Live(s) => video_task = s

\* A stop that overlapped no other call leaves nothing behind: the senders are
\* dropped, the origin disarmed and every pipeline spawned before is over or
\* aborted (mod.rs:192-207, "Stop the active video pipeline").
StopLeavesNothing ==
    [][(pc[WS] = "take_task" /\ pc'[WS] # "take_task" /\ clash = {}) =>
          /\ video_tx' = None /\ audio_tx' = None
          /\ ~armed_origin'
          /\ \A s \in Starts : ~Live(s)']_vars

\* A pipeline that was aborted comes to an end together with its reader, so
\* the camera's RTSP session is closed -- provided the camera keeps sending.
AbortedStreamEnds ==
    \A s \in Starts :
        (s \in aborted) ~> (pipeline[s] = "ended" /\ reader[s] # "reading")

\* "Closing a tab (or logging out) stops that session's pipeline ... a closed
\* tab leaves no RTSP session running on the camera" (src/README.md:165-166).
\* The code does not keep this: a start spawned by openVideo can run after, or
\* in the middle of, the teardown's stop, and nothing aborts what it spawns.
ClosedTabLeavesNoPipeline ==
    (pc[WS] = "closed" /\ \A s \in Starts : pc[s] \in {"unborn", "done"}) =>
        \A s \in Starts : ~Live(s)

==============================================================================

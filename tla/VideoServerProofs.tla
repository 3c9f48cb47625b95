-------------------------- MODULE VideoServerProofs --------------------------
(***************************************************************************)
(* Proofs about VideoServer, for any number of starts: the type invariant, *)
(* NoLostPipeline, SlotsAgree and StopLeavesNothing.                       *)
(*                                                                         *)
(* A slot says nothing by itself: which of the four a call has already     *)
(* written depends on where it is.  The invariant therefore says, for      *)
(* every place a call may be at, what the slots hold there, and that as    *)
(* long as no two calls overlapped there is one call to ask.               *)
(***************************************************************************)
EXTENDS VideoServer, TLAPS

\* As long as no starts overlapped, one start at most is in its call.
OneStart ==
    "starts" \notin clash => \A s, t \in Starts : InCall(s) /\ InCall(t) => s = t

\* A start has no pipeline before it has spawned it.
SpawnedLate ==
    \A s \in Starts : pc[s] \notin {"store", "done"} => pipeline[s] = "none"

\* Between a start's TakeTask and its StoreTask nobody else stores a handle.
HandleFree ==
    "starts" \notin clash =>
        \A s \in Starts : pc[s] \in {"arm", "set_video", "set_audio", "store"} => video_task = None

\* As long as no calls overlapped, one caller at most is in its call.
OneCall ==
    clash = {} => \A c, d \in Callers : InCall(c) /\ InCall(d) => c = d

\* What the slots hold where a call that nothing overlapped is.
SlotsOf(c) ==
    /\ pc[c] \in {"clear_audio", "clear_origin", "take_task", "arm", "set_video"} => video_tx = None
    /\ pc[c] \in {"clear_origin", "take_task", "arm", "set_video", "set_audio"} => audio_tx = None
    /\ pc[c] \in {"take_task", "arm"} => ~armed_origin
    /\ pc[c] \in {"set_video", "set_audio", "store"} => armed_origin
    /\ pc[c] \in {"set_audio", "store"} => video_tx = c
    /\ pc[c] = "store" => audio_tx = c

SlotsFollowCall == clash = {} => \A c \in Callers : SlotsOf(c)

IInv == /\ TypeOK /\ OneStart /\ SpawnedLate /\ HandleFree /\ NoLostPipeline
        /\ OneCall /\ SlotsFollowCall /\ SlotsAgree
------------------------------------------------------------------------------
\* The invariant holds before the first message.
LEMMA InitInv == Init => IInv
<1> SUFFICES ASSUME Init PROVE IInv
  OBVIOUS
<1>1. \A c \in Callers : pc[c] \in {"idle", "unborn"} /\ ~InCall(c)
  BY DEF Init, InCall
<1>2. TypeOK
  BY ServerAssumption DEF Init, TypeOK, Callers, StopLabels
<1>3. \A s \in Starts : s \in Callers /\ ~Live(s) /\ pipeline[s] = "none"
  BY DEF Init, Live, Callers
<1>4. OneStart /\ OneCall /\ SpawnedLate /\ NoLostPipeline
  BY <1>1, <1>3 DEF OneStart, OneCall, SpawnedLate, NoLostPipeline
<1>5. Starts \subseteq Callers
  BY DEF Callers
<1>6. HandleFree /\ SlotsFollowCall
  BY <1>1, <1>5 DEF HandleFree, SlotsFollowCall, SlotsOf
<1>7. SlotsAgree
  BY <1>3 DEF Init, SlotsAgree
<1> QED
  BY <1>2, <1>4, <1>6, <1>7 DEF IInv

\* A step that writes no slot, moves no call into, inside or out of its locks and
\* wakes no pipeline preserves the invariant.
LEMMA CallsUntouched ==
    ASSUME IInv, TypeOK',
           UNCHANGED <<slot, clash>>,
           \A c \in Callers : pc'[c] = pc[c] \/ (~InCall(c) /\ ~InCall(c)' /\ pc'[c] # "done"),
           \A s \in Starts : pc[s] \in {"store", "done"} => pc'[s] = pc[s],
           \A s \in Starts : Live(s)' => Live(s),
           \A s \in Starts : pipeline[s] = "none" => pipeline'[s] = "none"
    PROVE  IInv'
<1>0. \A c \in Callers : InCall(c)' <=> InCall(c)
  BY DEF InCall
<1>1. Starts \subseteq Callers
  BY DEF Callers
<1>2. OneStart' /\ OneCall'
  BY <1>0, <1>1 DEF IInv, OneStart, OneCall
<1>3. SpawnedLate'
  BY <1>1 DEF IInv, SpawnedLate
<1>4. HandleFree'
  BY <1>1 DEF IInv, HandleFree, slot, InCall
<1>5. NoLostPipeline'
  BY <1>1 DEF IInv, NoLostPipeline, slot
<1>6. SlotsFollowCall'
  BY DEF IInv, SlotsFollowCall, SlotsOf, slot, InCall
<1>7. SlotsAgree'
  BY <1>0 DEF IInv, SlotsAgree, Quiet, slot
<1> QED
  BY <1>2, <1>3, <1>4, <1>5, <1>6, <1>7 DEF IInv
------------------------------------------------------------------------------
\* Messages only bring calls to their first lock.
LEMMA HandlerStep == IInv /\ Handler => IInv'
<1> SUFFICES ASSUME IInv, Handler PROVE IInv'
  OBVIOUS
<1> USE ServerAssumption DEF IInv
<1>1. CASE CloseVideo \/ Teardown
  <2>0. /\ pc' = [pc EXCEPT ![WS] = "clear_video"]
        /\ leaving' \in BOOLEAN
        /\ UNCHANGED <<slot, tasks, clash>>
    BY <1>1 DEF CloseVideo, Teardown, Goto, TypeOK
  <2>1. TypeOK'
    BY <2>0 DEF TypeOK, Callers, StopLabels, slot, tasks
  <2>2. \A c \in Callers : pc'[c] = pc[c] \/ (~InCall(c) /\ ~InCall(c)' /\ pc'[c] # "done")
    BY <1>1 DEF CloseVideo, Teardown, Goto, TypeOK, InCall
  <2>3. \A s \in Starts : pc'[s] = pc[s]
    BY <1>1 DEF CloseVideo, Teardown, Goto, TypeOK, Callers
  <2> QED
    BY <1>1, <2>1, <2>2, <2>3, CallsUntouched DEF CloseVideo, Teardown, tasks, Live
<1>2. ASSUME NEW s \in Starts, OpenVideo(s) PROVE IInv'
  <2>1. TypeOK'
    BY <1>2 DEF OpenVideo, Goto, TypeOK, Callers, StopLabels, slot, tasks
  <2>2. \A c \in Callers : pc'[c] = pc[c] \/ (~InCall(c) /\ ~InCall(c)' /\ pc'[c] # "done")
    BY <1>2 DEF OpenVideo, Goto, TypeOK, InCall
  <2>3. \A t \in Starts : pc[t] \in {"store", "done"} => pc'[t] = pc[t]
    BY <1>2 DEF OpenVideo, Goto, TypeOK, Callers
  <2> QED
    BY <1>2, <2>1, <2>2, <2>3, CallsUntouched DEF OpenVideo, tasks, Live
<1> QED
  BY <1>1, <1>2 DEF Handler

\* Media tasks only end, or were spawned already.
LEMMA MediaStep == IInv /\ Media => IInv'
<1> SUFFICES ASSUME IInv, NEW s \in Starts,
                    \/ ConnectFails(s) \/ Connected(s) \/ ChannelCloses(s)
                    \/ AbortTakesEffect(s) \/ PacketFindsNoPipeline(s) \/ ReadError(s)
             PROVE  IInv'
  BY DEF Media
<1> USE DEF ConnectFails, Connected, ChannelCloses, AbortTakesEffect, PacketFindsNoPipeline,
            ReadError
<1>1. TypeOK'
  <2>1. /\ UNCHANGED <<pc, leaving, video_tx, audio_tx, armed_origin, video_task, aborted, clash>>
        /\ \/ pipeline' = pipeline
           \/ \E next \in {"running", "ended"} : pipeline' = [pipeline EXCEPT ![s] = next]
        /\ \/ reader' = reader
           \/ \E next \in {"reading", "gone"} : reader' = [reader EXCEPT ![s] = next]
    BY DEF slot
  <2>2. /\ pipeline' \in [Starts -> {"none", "connecting", "running", "ended"}]
        /\ reader' \in [Starts -> {"none", "reading", "gone"}]
    BY <2>1 DEF IInv, TypeOK
  <2> QED
    BY <2>1, <2>2 DEF IInv, TypeOK
<1>2. UNCHANGED <<slot, clash>> /\ pc' = pc
  OBVIOUS
<1>3. \A t \in Starts : Live(t)' => Live(t)
  BY DEF IInv, TypeOK, Live
<1>4. \A t \in Starts : pipeline[t] = "none" => pipeline'[t] = "none"
  BY DEF IInv, TypeOK
<1> QED
  BY <1>1, <1>2, <1>3, <1>4, CallsUntouched
------------------------------------------------------------------------------
\* A call begins: what overlaps with it is recorded.
LEMMA ClearVideoStep == ASSUME IInv, NEW c \in Callers, ClearVideo(c) PROVE IInv'
<1> USE ServerAssumption DEF IInv, ClearVideo, Goto
<1>1. TypeOK'
  BY DEF TypeOK, Callers, StopLabels, tasks, Clashes
<1>2. /\ \A d \in Callers \ {c} : pc'[d] = pc[d]
      /\ pc'[c] = "clear_audio" /\ ~InCall(c)
  BY DEF TypeOK, InCall
<1>3. "starts" \notin clash' => "starts" \notin clash /\ (c # WS => \A s \in Starts : ~InCall(s))
  BY DEF Clashes
<1>4. clash' = {} => clash = {} /\ \A d \in Callers : ~InCall(d)
  <2>1. SUFFICES ASSUME clash' = {}, NEW d \in Callers, InCall(d) PROVE FALSE
    OBVIOUS
  <2>2. d # c
    BY <1>2, <2>1
  <2>3. CASE WS \in {c, d}
    BY <2>1, <2>2, <2>3 DEF Clashes
  <2>4. CASE WS \notin {c, d}
    BY <2>1, <2>4 DEF Clashes, Callers
  <2> QED
    BY <2>3, <2>4
<1>5. OneStart'
  BY <1>2, <1>3 DEF OneStart, InCall, Callers
<1>6. SpawnedLate'
  BY <1>2 DEF SpawnedLate, Callers, tasks
<1>7. HandleFree'
  BY <1>2, <1>3 DEF HandleFree, Callers
<1>8. NoLostPipeline'
  BY <1>2, <1>3 DEF NoLostPipeline, Callers, Live, tasks
<1>9. OneCall'
  BY <1>2, <1>4 DEF OneCall, InCall
<1>10. SlotsFollowCall'
  BY <1>2, <1>4 DEF SlotsFollowCall, SlotsOf, InCall
<1>11. SlotsAgree'
  BY <1>2 DEF SlotsAgree, Quiet, InCall
<1> QED
  BY <1>1, <1>5, <1>6, <1>7, <1>8, <1>9, <1>10, <1>11

\* A step inside the call of c: the others stay where they are, and as long as
\* nothing overlapped they are outside their calls.
LEMMA InsideCall ==
    ASSUME IInv, NEW c \in Callers, InCall(c), clash' = clash,
           NEW label, pc' = [pc EXCEPT ![c] = label]
    PROVE  /\ \A d \in Callers \ {c} : pc'[d] = pc[d]
           /\ pc'[c] = label
           /\ clash = {} => \A d \in Callers \ {c} : ~InCall(d) /\ ~InCall(d)'
           /\ OneStart' /\ OneCall'
<1> USE DEF IInv
<1>1. /\ \A d \in Callers \ {c} : pc'[d] = pc[d]
      /\ pc'[c] = label
  BY DEF TypeOK
<1>2. \A d \in Callers : InCall(d)' => InCall(d)
  BY <1>1 DEF InCall
<1>3. OneStart' /\ OneCall'
  BY <1>2 DEF OneStart, OneCall, Callers
<1>4. clash = {} => \A d \in Callers \ {c} : ~InCall(d) /\ ~InCall(d)'
  BY <1>1, <1>2 DEF OneCall
<1> QED
  BY <1>1, <1>3, <1>4

\* The second lock of stop.
LEMMA ClearAudioStep == ASSUME IInv, NEW c \in Callers, ClearAudio(c) PROVE IInv'
<1> USE ServerAssumption DEF IInv, ClearAudio, Goto
<1>1. TypeOK'
  BY DEF TypeOK, Callers, StopLabels, tasks
<1>2. /\ \A d \in Callers \ {c} : pc'[d] = pc[d]
      /\ pc'[c] = "clear_origin"
      /\ clash = {} => \A d \in Callers \ {c} : ~InCall(d) /\ ~InCall(d)'
      /\ OneStart' /\ OneCall'
  BY InsideCall DEF InCall
<1>3. SpawnedLate' /\ HandleFree' /\ NoLostPipeline'
  BY <1>2 DEF SpawnedLate, HandleFree, NoLostPipeline, Live, tasks, Callers
<1>4. SlotsFollowCall'
  BY <1>2 DEF SlotsFollowCall, SlotsOf, InCall
<1>5. SlotsAgree'
  BY <1>2 DEF SlotsAgree, Quiet, InCall
<1> QED
  BY <1>1, <1>2, <1>3, <1>4, <1>5

\* The third lock of stop.
LEMMA ClearOriginStep == ASSUME IInv, NEW c \in Callers, ClearOrigin(c) PROVE IInv'
<1> USE ServerAssumption DEF IInv, ClearOrigin, Goto
<1>1. TypeOK'
  BY DEF TypeOK, Callers, StopLabels, tasks
<1>2. /\ \A d \in Callers \ {c} : pc'[d] = pc[d]
      /\ pc'[c] = "take_task"
      /\ clash = {} => \A d \in Callers \ {c} : ~InCall(d) /\ ~InCall(d)'
      /\ OneStart' /\ OneCall'
  BY InsideCall DEF InCall
<1>3. SpawnedLate' /\ HandleFree' /\ NoLostPipeline'
  BY <1>2 DEF SpawnedLate, HandleFree, NoLostPipeline, Live, tasks, Callers
<1>4. SlotsFollowCall'
  BY <1>2 DEF SlotsFollowCall, SlotsOf, InCall
<1>5. SlotsAgree'
  BY <1>2 DEF SlotsAgree, Quiet, InCall
<1> QED
  BY <1>1, <1>2, <1>3, <1>4, <1>5

\* The last lock of stop: what the handle named is aborted.
LEMMA TakeTaskStep == ASSUME IInv, NEW c \in Callers, TakeTask(c) PROVE IInv'
<1> USE ServerAssumption DEF IInv, TakeTask, Goto
<1>1. TypeOK'
  BY DEF TypeOK, Callers, StopLabels, AfterStop
<1>2. /\ \A d \in Callers \ {c} : pc'[d] = pc[d]
      /\ pc'[c] = AfterStop(c)
      /\ clash = {} => \A d \in Callers \ {c} : ~InCall(d) /\ ~InCall(d)'
      /\ OneStart' /\ OneCall'
  BY InsideCall DEF InCall
<1>3. SpawnedLate'
  BY <1>2 DEF SpawnedLate, AfterStop, Callers
<1>4. HandleFree'
  BY DEF HandleFree
<1>5. \A s \in Starts : Live(s)' => Live(s) /\ video_task # s
  BY DEF Live
<1>6. NoLostPipeline'
  BY <1>2, <1>5 DEF NoLostPipeline, Callers
<1>7. SlotsFollowCall'
  BY <1>2 DEF SlotsFollowCall, SlotsOf, InCall, AfterStop
<1>8. SlotsAgree'
  <2> SUFFICES ASSUME clash = {}, Quiet'
               PROVE  /\ video_tx = None /\ audio_tx = None /\ ~armed_origin
                      /\ \A s \in Starts : ~Live(s)'
    BY <1>1 DEF SlotsAgree, TypeOK
  <2>1. video_tx = None /\ audio_tx = None /\ ~armed_origin
    BY DEF SlotsFollowCall, SlotsOf
  <2>2. \A s \in Starts : pc'[s] # "store"
    BY DEF Quiet, InCall, Callers
  <2>3. \A s \in Starts : ~Live(s)'
    BY <1>6, <2>2 DEF NoLostPipeline
  <2> QED
    BY <2>1, <2>3
<1> QED
  BY <1>1, <1>2, <1>3, <1>4, <1>6, <1>7, <1>8

\* start arms the origin and stores the video sender.
LEMMA ArmStep == ASSUME IInv, NEW s \in Starts, Arm(s) \/ SetVideo(s) PROVE IInv'
<1> USE ServerAssumption DEF IInv, Arm, SetVideo, Goto
<1>0. s \in Callers
  BY DEF Callers
<1>1. TypeOK'
  BY <1>0 DEF TypeOK, Callers, StopLabels, tasks
<1>2. /\ \A d \in Callers \ {s} : pc'[d] = pc[d]
      /\ pc'[s] \in {"set_video", "set_audio"} /\ pc'[s] = (IF Arm(s) THEN "set_video" ELSE "set_audio")
      /\ clash = {} => \A d \in Callers \ {s} : ~InCall(d) /\ ~InCall(d)'
      /\ OneStart' /\ OneCall'
  BY <1>0, InsideCall DEF InCall
<1>3. SpawnedLate' /\ HandleFree' /\ NoLostPipeline'
  BY <1>2 DEF SpawnedLate, HandleFree, NoLostPipeline, Live, tasks, Callers
<1>4. SlotsFollowCall'
  BY <1>0, <1>2 DEF SlotsFollowCall, SlotsOf, InCall
<1>5. SlotsAgree'
  BY <1>0, <1>2 DEF SlotsAgree, Quiet, InCall
<1> QED
  BY <1>1, <1>2, <1>3, <1>4, <1>5

\* start stores the audio sender and spawns its pipeline.
LEMMA SpawnStep == ASSUME IInv, NEW s \in Starts, SetAudioAndSpawn(s) PROVE IInv'
<1> USE ServerAssumption DEF IInv, SetAudioAndSpawn, Goto
<1>0. s \in Callers
  BY DEF Callers
<1>1. TypeOK'
  BY <1>0 DEF TypeOK, Callers, StopLabels
<1>2. /\ \A d \in Callers \ {s} : pc'[d] = pc[d]
      /\ pc'[s] = "store"
      /\ clash = {} => \A d \in Callers \ {s} : ~InCall(d) /\ ~InCall(d)'
      /\ OneStart' /\ OneCall'
  BY <1>0, InsideCall DEF InCall
<1>3. \A t \in Starts : t # s => pipeline'[t] = pipeline[t] /\ (Live(t)' => Live(t))
  BY DEF TypeOK, Live
<1>4. SpawnedLate' /\ HandleFree' /\ NoLostPipeline'
  BY <1>2, <1>3 DEF SpawnedLate, HandleFree, NoLostPipeline, Callers
<1>5. SlotsFollowCall'
  BY <1>0, <1>2 DEF SlotsFollowCall, SlotsOf, InCall
<1>6. SlotsAgree'
  BY <1>0, <1>2 DEF SlotsAgree, Quiet, InCall
<1> QED
  BY <1>1, <1>2, <1>4, <1>5, <1>6

\* start stores the handle; as no other start was at it, none is overwritten.
LEMMA StoreStep == ASSUME IInv, NEW s \in Starts, StoreTask(s) PROVE IInv'
<1> USE ServerAssumption DEF IInv, StoreTask, Goto
<1>0. s \in Callers /\ InCall(s)
  BY DEF Callers, InCall
<1>1. TypeOK'
  BY <1>0 DEF TypeOK, Callers, StopLabels, tasks
<1>2. /\ \A d \in Callers \ {s} : pc'[d] = pc[d]
      /\ pc'[s] = "done"
      /\ clash = {} => \A d \in Callers \ {s} : ~InCall(d) /\ ~InCall(d)'
      /\ OneStart' /\ OneCall'
  BY <1>0, InsideCall
<1>3. SpawnedLate'
  BY <1>2 DEF SpawnedLate, tasks, Callers
<1>4. "starts" \notin clash => \A t \in Starts \ {s} : ~InCall(t)
  BY <1>0 DEF OneStart
<1>5. HandleFree'
  BY <1>2, <1>4 DEF HandleFree, InCall, Callers
<1>6. NoLostPipeline'
  <2> SUFFICES ASSUME "starts" \notin clash, NEW t \in Starts, Live(t)
               PROVE  t = s
    BY DEF NoLostPipeline, Live, tasks
  <2>1. video_task = None
    BY DEF HandleFree
  <2>2. pc[t] = "store"
    BY <2>1 DEF NoLostPipeline
  <2> QED
    BY <1>4, <2>2 DEF InCall
<1>7. SlotsFollowCall'
  BY <1>0, <1>2 DEF SlotsFollowCall, SlotsOf, InCall
<1>8. SlotsAgree'
  <2> SUFFICES ASSUME clash = {}
               PROVE  /\ video_tx = s /\ audio_tx = s /\ armed_origin
                      /\ \A t \in Starts : Live(t)' => t = s
    BY DEF SlotsAgree
  <2>1. video_tx = s /\ audio_tx = s /\ armed_origin
    BY <1>0 DEF SlotsFollowCall, SlotsOf
  <2>2. \A t \in Starts : pc'[t] # "store"
    BY <1>2, <1>4 DEF InCall, Callers
  <2> QED
    BY <1>6, <2>1, <2>2 DEF NoLostPipeline
<1> QED
  BY <1>1, <1>2, <1>3, <1>5, <1>6, <1>7, <1>8
------------------------------------------------------------------------------
\* Every step preserves the invariant.
LEMMA StepInv == IInv /\ [Next]_vars => IInv'
<1> SUFFICES ASSUME IInv, [Next]_vars PROVE IInv'
  OBVIOUS
<1>1. CASE Handler
  BY <1>1, HandlerStep
<1>2. CASE Media
  BY <1>2, MediaStep
<1>3. CASE Call
  BY <1>3, ClearVideoStep, ClearAudioStep, ClearOriginStep, TakeTaskStep, ArmStep, SpawnStep,
     StoreStep
     DEF Call, StopStep, StartStep
<1>4. CASE UNCHANGED vars
  BY <1>4, CallsUntouched DEF vars, slot, IInv, TypeOK, Live
<1> QED
  BY <1>1, <1>2, <1>3, <1>4 DEF Next

\* The strengthened invariant always holds.
LEMMA Invariance == Spec => []IInv
BY InitInv, StepInv, PTL DEF Spec

\* The variables always have their types.
THEOREM TypeCorrect == Spec => []TypeOK
<1>1. IInv => TypeOK
  BY DEF IInv
<1> QED
  BY <1>1, Invariance, PTL

\* However many openVideo requests there are and wherever stops cut into them,
\* a running pipeline is lost only after two starts overlapped.
THEOREM NothingLost == Spec => []NoLostPipeline
<1>1. IInv => NoLostPipeline
  BY DEF IInv
<1> QED
  BY <1>1, Invariance, PTL

\* As long as no calls overlapped, the slots agree whenever no call is under way.
THEOREM SlotsConsistent == Spec => []SlotsAgree
<1>1. IInv => SlotsAgree
  BY DEF IInv
<1> QED
  BY <1>1, Invariance, PTL

\* A stop that overlapped no other call leaves no sender, no armed origin and no
\* pipeline behind.
THEOREM StopCleans == Spec => StopLeavesNothing
<1> DEFINE Cleans == (pc[WS] = "take_task" /\ pc'[WS] # "take_task" /\ clash = {}) =>
                        /\ video_tx' = None /\ audio_tx' = None
                        /\ ~armed_origin'
                        /\ \A s \in Starts : ~Live(s)'
<1>1. IInv /\ [Next]_vars => Cleans
  <2> SUFFICES ASSUME IInv, [Next]_vars,
                      pc[WS] = "take_task", pc'[WS] # "take_task", clash = {}
               PROVE  /\ video_tx' = None /\ audio_tx' = None
                      /\ ~armed_origin'
                      /\ \A s \in Starts : ~Live(s)'
    OBVIOUS
  <2>0. WS \in Callers /\ InCall(WS)
    BY DEF Callers, InCall
  <2>1. TakeTask(WS)
    <3> USE ServerAssumption DEF IInv, TypeOK, Goto
    <3>1. ~ UNCHANGED vars
      BY DEF vars
    <3>2. ~ Handler
      BY <2>0 DEF Handler, CloseVideo, Teardown, OpenVideo
    <3>3. ~ Media
      BY DEF Media, ConnectFails, Connected, ChannelCloses, AbortTakesEffect,
             PacketFindsNoPipeline, ReadError
    <3>4. \A s \in Starts : ~ StartStep(s) /\ ~ StopStep(s)
      BY <2>0 DEF StartStep, Arm, SetVideo, SetAudioAndSpawn, StoreTask,
                  StopStep, ClearVideo, ClearAudio, ClearOrigin, TakeTask
    <3>5. StopStep(WS)
      BY <3>1, <3>2, <3>3, <3>4 DEF Next, Call, Callers
    <3> QED
      BY <3>5 DEF StopStep, ClearVideo, ClearAudio, ClearOrigin
  <2>2. video_tx = None /\ audio_tx = None /\ ~armed_origin
    BY <2>0 DEF IInv, SlotsFollowCall, SlotsOf
  <2>3. \A s \in Starts : pc'[s] # "store"
    BY <2>0, <2>1, ServerAssumption DEF IInv, OneCall, InCall, Callers, TakeTask, Goto, TypeOK
  <2>4. NoLostPipeline' /\ clash' = {} /\ video_task' = None
    BY <2>1, StepInv DEF IInv, TakeTask
  <2>5. \A s \in Starts : ~Live(s)'
    BY <2>3, <2>4, ServerAssumption DEF NoLostPipeline
  <2> QED
    BY <2>1, <2>2, <2>5 DEF TakeTask
<1>2. IInv /\ [Next]_vars => [Cleans]_vars
  BY <1>1
<1> QED
  BY <1>2, Invariance, PTL DEF Spec, StopLeavesNothing

==============================================================================

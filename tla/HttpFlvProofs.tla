---------------------------- MODULE HttpFlvProofs ----------------------------
(***************************************************************************)
(* Proofs about HttpFlv, for any number of viewers, starts and tags and    *)
(* any capacities: the type invariant, its four safety properties and that *)
(* it implements TagStream.                                                *)
(*                                                                         *)
(* The session's part of the invariant is that of VideoServerProofs, whose *)
(* lemmas say that the session's steps preserve it.  For every viewer the  *)
(* invariant says what the gate has promised it (GateOK), where its        *)
(* forwarder is (LifeOK), how far its receiver may be behind (ReachOK) and *)
(* what it has been given (StreamOK).  The last one speaks of Taken, the   *)
(* chunks that were given, wait in the queue or are held: most steps only  *)
(* move a chunk from one of these places to the next and leave Taken as it *)
(* is.                                                                     *)
(***************************************************************************)
EXTENDS HttpFlv, SequenceTheorems, TLAPS

P == INSTANCE VideoServerProofs

GateOK(v) ==
    /\ client[v] \in {"idle", "admitted", "forbidden", "refused"} <=> channel[v] = None
    /\ (clash = {} /\ foreign[v] /\ client[v] = "admitted") =>
           \A s \in passed[v] : pc[s] = "done" /\ video_tx # s
    /\ (clash = {} /\ foreign[v] /\ channel[v] # None) => channel[v] \notin passed[v]

LifeOK(v) ==
    /\ forwarder[v] = "none" <=> channel[v] = None
    /\ forwarder[v] = "none" => got[v] = <<>> /\ queue[v] = <<>> /\ first[v]
    /\ forwarder[v] = "sending" <=> held[v] # NoChunk
    /\ client[v] = "finished" => forwarder[v] = "ended" /\ queue[v] = <<>>
    /\ (forwarder[v] = "ended" /\ client[v] # "left") =>
           pipeline[channel[v]] = "ended" /\ pos[v] > sent[channel[v]]

ReachOK(v) ==
    channel[v] # None =>
        /\ pos[v] <= sent[channel[v]] + 1
        /\ (Subscribed(v) /\ ~overrun[v]) => pos[v] >= Oldest(channel[v])

\* A sequence of chunks that a viewer may have been given.
WellFormed(s) ==
    /\ \A i \in 1 .. Len(s) : s[i].flv <=> i = 1
    /\ \A i, j \in 1 .. Len(s) : i < j => s[i].tag < s[j].tag

\* What the receiver's position says of the chunks given.
UpTo(s, v) ==
    /\ first[v] <=> Len(s) = 0
    /\ \A i \in 1 .. Len(s) : s[i].tag < pos[v]
    /\ (channel[v] # None /\ ~overrun[v]) =>
           /\ \A i \in 1 .. Len(s) : s[i].tag = joined[v] + i
           /\ pos[v] = joined[v] + Len(s) + 1

StreamOK(v) ==
    /\ WellFormed(Taken(v))
    /\ client[v] # "left" => UpTo(Taken(v), v)

ViewerOK(v) == GateOK(v) /\ LifeOK(v) /\ ReachOK(v) /\ StreamOK(v)

IInv == ViewersTypeOK /\ P!IInv /\ \A v \in Viewers : ViewerOK(v)
------------------------------------------------------------------------------
\* All there is of a viewer.
Of(v) == <<foreign[v], client[v], forwarder[v], channel[v], pos[v], first[v], held[v],
           queue[v], got[v], passed[v], joined[v], overrun[v]>>

\* A viewer that a step does not touch, while the server stands still, stays well.
LEMMA Untouched ==
    ASSUME NEW v, ViewerOK(v), UNCHANGED server, Of(v)' = Of(v)
    PROVE  ViewerOK(v)'
<1>1. /\ foreign'[v] = foreign[v] /\ client'[v] = client[v] /\ forwarder'[v] = forwarder[v]
      /\ channel'[v] = channel[v] /\ pos'[v] = pos[v] /\ first'[v] = first[v]
      /\ held'[v] = held[v] /\ queue'[v] = queue[v] /\ got'[v] = got[v]
      /\ passed'[v] = passed[v] /\ joined'[v] = joined[v] /\ overrun'[v] = overrun[v]
  BY DEF Of
<1>2. Taken(v)' = Taken(v)
  BY <1>1 DEF Taken
<1>3. GateOK(v)' /\ LifeOK(v)'
  BY <1>1 DEF ViewerOK, GateOK, LifeOK, server, session
<1>4. ReachOK(v)'
  BY <1>1 DEF ViewerOK, ReachOK, Subscribed, Oldest, server
<1>5. StreamOK(v)'
  BY <1>1, <1>2 DEF ViewerOK, StreamOK, UpTo
<1> QED
  BY <1>3, <1>4, <1>5 DEF ViewerOK

\* The session's variables have their types.
LEMMA SessionTypes ==
    ASSUME P!IInv
    PROVE  /\ video_tx \in Starts \cup {None} /\ armed_origin \in BOOLEAN
           /\ pc = [c \in Starts \cup {WS} |-> pc[c]]
           /\ pipeline \in [Starts -> {"none", "connecting", "running", "ended"}]
BY DEF P!IInv, P!TypeOK, P!Callers, P!StopLabels

\* A session that stands still keeps its invariant.
LEMMA SessionStands == ASSUME P!IInv, UNCHANGED session PROVE P!IInv'
BY HttpFlvAssumption, P!StepInv DEF session, P!vars

\* One viewer moves: the others are as they were.
LEMMA OneViewerMoves ==
    ASSUME IInv, UNCHANGED server, NEW v \in Viewers,
           \A w \in Viewers \ {v} : Of(w)' = Of(w),
           ViewersTypeOK', ViewerOK(v)'
    PROVE  IInv'
<1>1. \A w \in Viewers \ {v} : ViewerOK(w)'
  BY Untouched DEF IInv
<1>2. P!IInv'
  BY SessionStands DEF IInv, server
<1> QED
  BY <1>1, <1>2 DEF IInv

\* The chunks a viewer was given, in all, are a sequence of chunks.
LEMMA TakenIsSeq ==
    ASSUME ViewersTypeOK, NEW v \in Viewers
    PROVE  Taken(v) \in Seq(Chunks)
<1>1. /\ got[v] \in Seq(Chunks) /\ queue[v] \in Seq(Chunks)
      /\ held[v] \in Chunks \cup {NoChunk}
  BY DEF ViewersTypeOK
<1>2. got[v] \o queue[v] \in Seq(Chunks)
  BY <1>1, ConcatProperties
<1>3. (IF held[v] = NoChunk THEN <<>> ELSE <<held[v]>>) \in Seq(Chunks)
  BY <1>1
<1> QED
  BY <1>1, <1>2, <1>3, ConcatProperties DEF Taken
------------------------------------------------------------------------------
(***************************************************************************)
(* Sequences of chunks and positions.                                      *)
(***************************************************************************)

\* The position behind n given tags, and behind one more.
LEMMA NextPosition ==
    ASSUME NEW p \in Nat, NEW j \in Nat, NEW n \in Nat, p = j + n + 1
    PROVE  p = j + (n + 1) /\ p + 1 = j + (n + 1) + 1
OBVIOUS

\* A later tag may follow, with the header if it is the first one.
LEMMA OneMore ==
    ASSUME NEW s \in Seq(Chunks), NEW c \in Chunks, WellFormed(s),
           c.flv <=> Len(s) = 0,
           \A i \in 1 .. Len(s) : s[i].tag < c.tag
    PROVE  WellFormed(Append(s, c))
<1> DEFINE t == Append(s, c)
<1>1. /\ Len(t) = Len(s) + 1 /\ Len(s) \in Nat
      /\ \A i \in 1 .. Len(s) : t[i] = s[i]
      /\ t[Len(s) + 1] = c
  BY AppendProperties, LenProperties
<1> HIDE DEF t
<1>2. \A i \in 1 .. Len(t) : i \in 1 .. Len(s) \/ i = Len(s) + 1
  BY <1>1
<1>3. \A i \in 1 .. Len(t) : t[i].flv <=> i = 1
  BY <1>1, <1>2 DEF WellFormed
<1>4. ASSUME NEW i \in 1 .. Len(t), NEW j \in 1 .. Len(t), i < j
      PROVE  t[i].tag < t[j].tag
  <2>1. i \in 1 .. Len(s)
    BY <1>1, <1>4
  <2>2. CASE j \in 1 .. Len(s)
    BY <1>1, <1>4, <2>1, <2>2 DEF WellFormed
  <2>3. CASE j = Len(s) + 1
    BY <1>1, <2>1, <2>3
  <2> QED
    BY <1>2, <2>2, <2>3
<1>5. WellFormed(t)
  BY <1>3, <1>4 DEF WellFormed
<1> QED
  BY <1>5 DEF t

\* A receiver just behind the last tag has been given all since it joined.
LEMMA AllGiven ==
    ASSUME NEW p \in Nat, NEW j \in Nat, NEW n \in Nat, NEW t \in Nat,
           p = j + n + 1, p > t, p <= t + 1
    PROVE  n = t - j
OBVIOUS

\* A chunk that moves from the hand to the queue's end does not change the whole.
LEMMA HandToQueue ==
    ASSUME NEW a \in Seq(Chunks), NEW b \in Seq(Chunks), NEW c \in Chunks
    PROVE  a \o Append(b, c) \o <<>> = a \o b \o <<c>>
<1>1. <<c>> \in Seq(Chunks)
  OBVIOUS
<1>2. Append(b, c) = b \o <<c>> /\ b \o <<c>> \in Seq(Chunks)
  BY <1>1, AppendIsConcat, ConcatProperties
<1>3. (a \o b) \o <<c>> = a \o (b \o <<c>>)
  BY <1>1, ConcatAssociative
<1>4. a \o (b \o <<c>>) \in Seq(Chunks)
  BY <1>2, ConcatProperties
<1>5. (a \o (b \o <<c>>)) \o <<>> = a \o (b \o <<c>>)
  BY <1>4, ConcatEmptySeq
<1> QED
  BY <1>2, <1>3, <1>5

\* Nor does one that moves from the queue's head to what was given.
LEMMA HeadIsGiven ==
    ASSUME NEW a \in Seq(Chunks), NEW q \in Seq(Chunks), NEW h \in Seq(Chunks), q # <<>>
    PROVE  /\ Append(a, Head(q)) \in Seq(Chunks)
           /\ Tail(q) \in Seq(Chunks) /\ Len(Tail(q)) <= Len(q)
           /\ Append(a, Head(q)) \o Tail(q) \o h = a \o q \o h
<1>1. Head(q) \in Chunks /\ Tail(q) \in Seq(Chunks) /\ Len(Tail(q)) = Len(q) - 1 /\ Len(q) \in Nat
  BY HeadTailProperties, LenProperties
<1>2. PICK c \in Chunks, r \in Seq(Chunks) : c = Head(q) /\ r = Tail(q)
  BY <1>1
<1>3. <<c>> \in Seq(Chunks)
  OBVIOUS
<1>4. q = <<c>> \o r
  BY <1>2
<1>5. Append(a, c) = a \o <<c>> /\ Append(a, c) \in Seq(Chunks)
  BY AppendIsConcat, AppendProperties
<1>6. (a \o <<c>>) \o r = a \o (<<c>> \o r)
  BY <1>3, ConcatAssociative
<1>7. Len(Tail(q)) <= Len(q)
  BY <1>1
<1> QED
  BY <1>1, <1>2, <1>4, <1>5, <1>6, <1>7

\* What was given is the beginning of the whole.
LEMMA GivenIsPrefix ==
    ASSUME NEW a \in Seq(Chunks), NEW b \in Seq(Chunks), NEW h \in Seq(Chunks)
    PROVE  /\ Len(a) \in Nat /\ Len(a \o b \o h) \in Nat /\ Len(a) <= Len(a \o b \o h)
           /\ \A i \in 1 .. Len(a) : (a \o b \o h)[i] = a[i]
<1>1. Len(a) \in Nat /\ Len(b) \in Nat /\ Len(h) \in Nat
  BY LenProperties
<1>2. /\ a \o b \in Seq(Chunks) /\ Len(a \o b) = Len(a) + Len(b)
      /\ \A i \in 1 .. Len(a) + Len(b) : (a \o b)[i] = IF i <= Len(a) THEN a[i] ELSE b[i - Len(a)]
  BY ConcatProperties
<1>3. PICK ab \in Seq(Chunks) : ab = a \o b
  BY <1>2
<1>4. /\ Len(ab \o h) = Len(ab) + Len(h)
      /\ \A i \in 1 .. Len(ab) + Len(h) : (ab \o h)[i] = IF i <= Len(ab) THEN ab[i] ELSE h[i - Len(ab)]
  BY ConcatProperties
<1>5. \A i \in 1 .. Len(a) : i \in 1 .. Len(a) + Len(b) /\ i <= Len(a)
  BY <1>1
<1>6. \A i \in 1 .. Len(a) : ab[i] = a[i]
  BY <1>2, <1>3, <1>5
<1>7. Len(ab) = Len(a) + Len(b)
  BY <1>2, <1>3
<1>8. \A i \in 1 .. Len(a) : i \in 1 .. Len(ab) + Len(h) /\ i <= Len(ab)
  BY <1>1, <1>7
<1>9. \A i \in 1 .. Len(a) : (ab \o h)[i] = a[i]
  BY <1>4, <1>6, <1>8
<1>10. Len(ab \o h) \in Nat /\ Len(a) <= Len(ab \o h)
  BY <1>1, <1>4, <1>7
<1> QED
  BY <1>1, <1>3, <1>9, <1>10
------------------------------------------------------------------------------
(***************************************************************************)
(* The session and its pipelines.                                          *)
(***************************************************************************)

\* The invariant holds in the beginning.
LEMMA InitInv == Init => IInv
<1> SUFFICES ASSUME Init PROVE IInv
  OBVIOUS
<1> USE HttpFlvAssumption DEF Init
<1>1. ViewersTypeOK
  <2>1. queue \in [Viewers -> Seq(Chunks)] /\ got \in [Viewers -> Seq(Chunks)]
    OBVIOUS
  <2>2. \A v \in Viewers : Len(queue[v]) <= QueueSize
    <3>1. Len(<<>>) = 0
      OBVIOUS
    <3>2. \A v \in Viewers : queue[v] = <<>>
      OBVIOUS
    <3>3. 0 <= QueueSize
      OBVIOUS
    <3> QED
      BY <3>1, <3>2, <3>3, Zenon
  <2>3. /\ sent \in [Starts -> 0 .. MaxTags]
        /\ pos \in [Viewers -> 1 .. MaxTags + 1]
        /\ joined \in [Viewers -> 0 .. MaxTags]
        /\ channel \in [Viewers -> Starts \cup {None}] /\ passed \in [Viewers -> SUBSET Starts]
    OBVIOUS
  <2>4. /\ overrun \in [Viewers -> BOOLEAN] /\ first \in [Viewers -> BOOLEAN]
    OBVIOUS
  <2> QED
    BY <2>1, <2>2, <2>3, <2>4 DEF ViewersTypeOK
<1>2. P!IInv
  BY P!InitInv DEF VS!Init, P!Init, VS!Callers, P!Callers
<1>3. ASSUME NEW v \in Viewers PROVE ViewerOK(v)
  <2>1. Taken(v) = <<>>
    BY DEF Taken
  <2>2. GateOK(v) /\ LifeOK(v) /\ ReachOK(v)
    BY DEF GateOK, LifeOK, ReachOK, NoChunk
  <2>3. StreamOK(v)
    BY <2>1 DEF StreamOK, WellFormed, UpTo
  <2> QED
    BY <2>2, <2>3 DEF ViewerOK
<1> QED
  BY <1>1, <1>2, <1>3 DEF IInv

\* The session's steps are those the lemmas of VideoServerProofs are about.
LEMMA SameSession == VS!Next => P!Next
<1> USE DEF VS!slot, P!slot, VS!tasks, P!tasks, VS!Goto, P!Goto, VS!Callers, P!Callers
<1>1. VS!Handler => P!Handler
  BY DEF VS!Handler, P!Handler, VS!CloseVideo, P!CloseVideo, VS!Teardown, P!Teardown,
         VS!OpenVideo, P!OpenVideo
<1>2. ASSUME NEW c \in VS!Callers, VS!StopStep(c) PROVE P!StopStep(c)
  BY <1>2 DEF VS!StopStep, P!StopStep, VS!ClearVideo, P!ClearVideo, VS!ClearAudio, P!ClearAudio,
              VS!ClearOrigin, P!ClearOrigin, VS!TakeTask, P!TakeTask, VS!Clashes, P!Clashes,
              VS!InCall, P!InCall, VS!AfterStop, P!AfterStop
<1>3. ASSUME NEW s \in Starts, VS!StartStep(s) PROVE P!StartStep(s)
  BY <1>3 DEF VS!StartStep, P!StartStep, VS!Arm, P!Arm, VS!SetVideo, P!SetVideo,
              VS!SetAudioAndSpawn, P!SetAudioAndSpawn, VS!StoreTask, P!StoreTask
<1>4. VS!Media => P!Media
  BY DEF VS!Media, P!Media, VS!ConnectFails, P!ConnectFails, VS!Connected, P!Connected,
         VS!ChannelCloses, P!ChannelCloses, VS!AbortTakesEffect, P!AbortTakesEffect,
         VS!PacketFindsNoPipeline, P!PacketFindsNoPipeline, VS!ReadError, P!ReadError
<1> QED
  BY <1>1, <1>2, <1>3, <1>4 DEF VS!Next, P!Next, VS!Call, P!Call

\* What a step of the session may do to what viewers see of it: one channel at most
\* is closed, a call that is over puts no sender into the slot, and a pipeline that
\* ended stays ended.
SessionMoves ==
    /\ clash' = {} => clash = {}
    /\ \A s \in Starts : pc[s] = "done" => pc'[s] = "done" /\ (video_tx' = s => video_tx = s)
    /\ \/ pipeline' = pipeline
       \/ /\ video_tx' = video_tx
          /\ \E s \in Starts : /\ pipeline[s] # "ended"
                              /\ \A t \in Starts \ {s} : pipeline'[t] = pipeline[t]
    /\ \/ video_tx' \in {video_tx, None}
       \/ video_tx' \in Starts /\ pipeline[video_tx'] = "none"

LEMMA SessionEffects == ASSUME P!IInv, VS!Next PROVE SessionMoves
<1> USE HttpFlvAssumption DEF VS!slot, VS!tasks, VS!Goto, VS!Callers
<1>0. /\ pipeline \in [Starts -> {"none", "connecting", "running", "ended"}]
      /\ pc = [c \in Starts \cup {WS} |-> pc[c]]
      /\ \A s \in Starts : pc[s] = "set_video" => pipeline[s] = "none"
  BY SessionTypes DEF P!IInv, P!SpawnedLate
<1>1. CASE VS!Handler
  BY <1>0, <1>1 DEF VS!Handler, VS!CloseVideo, VS!Teardown, VS!OpenVideo, SessionMoves
<1>2. ASSUME NEW c \in VS!Callers, VS!StopStep(c) PROVE SessionMoves
  <2>1. /\ pc' = [pc EXCEPT ![c] = pc'[c]] /\ pc[c] # "done"
        /\ video_tx' \in {video_tx, None} /\ pipeline' = pipeline
        /\ clash \subseteq clash'
    BY <1>0, <1>2 DEF VS!StopStep, VS!ClearVideo, VS!ClearAudio, VS!ClearOrigin, VS!TakeTask
  <2> QED
    BY <1>0, <2>1 DEF SessionMoves
<1>3. ASSUME NEW s \in Starts, VS!StartStep(s) PROVE SessionMoves
  <2>1. /\ pc' = [pc EXCEPT ![s] = pc'[s]] /\ pc[s] # "done" /\ clash' = clash
        /\ \/ video_tx' = video_tx /\ pipeline' = pipeline
           \/ video_tx' = s /\ pipeline' = pipeline /\ pc[s] = "set_video"
           \/ /\ video_tx' = video_tx /\ pipeline[s] # "ended"
              /\ \A t \in Starts \ {s} : pipeline'[t] = pipeline[t]
    BY <1>0, <1>3 DEF VS!StartStep, VS!Arm, VS!SetVideo, VS!SetAudioAndSpawn, VS!StoreTask,
                      P!IInv, P!SpawnedLate
  <2> QED
    BY <1>0, <2>1 DEF SessionMoves
<1>4. CASE VS!Media
  BY <1>0, <1>4 DEF VS!Media, VS!ConnectFails, VS!Connected, VS!ChannelCloses,
                    VS!AbortTakesEffect, VS!PacketFindsNoPipeline, VS!ReadError, SessionMoves
<1> QED
  BY <1>1, <1>2, <1>3, <1>4 DEF VS!Next, VS!Call, SessionMoves

\* A step of the session preserves the invariant: what is armed is guarded, and a
\* stream that ended stays ended.
LEMMA SessionStep == ASSUME IInv, Session PROVE IInv'
<1> USE HttpFlvAssumption DEF Session
<1>1. P!IInv'
  BY SameSession, P!StepInv DEF IInv
<1>2. ViewersTypeOK'
  BY DEF IInv, ViewersTypeOK, viewers, receiver, history
<1>3. /\ clash' = {} => clash = {}
      /\ \A s \in Starts : pc[s] = "done" => pc'[s] = "done" /\ (video_tx' = s => video_tx = s)
      /\ \A g \in Starts : pipeline[g] = "ended" => pipeline'[g] = "ended"
  BY SessionEffects DEF IInv, SessionMoves
<1>4. ASSUME NEW v \in Viewers PROVE ViewerOK(v)'
  <2>1. channel[v] \in Starts \cup {None} /\ passed[v] \subseteq Starts
    BY DEF IInv, ViewersTypeOK
  <2>2. GateOK(v)'
    BY <1>3, <2>1 DEF IInv, ViewerOK, GateOK, viewers, receiver, history
  <2>3. LifeOK(v)'
    BY <1>3, <2>1 DEF IInv, ViewerOK, LifeOK, viewers, receiver
  <2>4. ReachOK(v)'
    BY DEF IInv, ViewerOK, ReachOK, Subscribed, Oldest, viewers, receiver, history
  <2>5. Taken(v)' = Taken(v)
    BY DEF Taken, viewers
  <2>6. StreamOK(v)'
    BY <2>5 DEF IInv, ViewerOK, StreamOK, UpTo, viewers, receiver, history
  <2> QED
    BY <2>2, <2>3, <2>4, <2>6 DEF ViewerOK
<1> QED
  BY <1>1, <1>2, <1>4 DEF IInv

\* A tag is sent: who is then too far behind is recorded.
LEMMA SendTagStep == ASSUME IInv, NEW g \in Starts, SendTag(g) PROVE IInv'
<1> USE HttpFlvAssumption
<1>1. /\ sent' \in [Starts -> 0 .. MaxTags]
      /\ sent'[g] = sent[g] + 1 /\ \A h \in Starts \ {g} : sent'[h] = sent[h]
  BY DEF SendTag, IInv, ViewersTypeOK
<1>2. overrun' \in [Viewers -> BOOLEAN]
  BY DEF SendTag, IInv, ViewersTypeOK, Subscribed
<1>3. ViewersTypeOK'
  BY <1>1, <1>2 DEF SendTag, IInv, ViewersTypeOK, session, receiver
<1>4. P!IInv'
  BY SessionStands DEF SendTag, IInv
<1>5. ASSUME NEW v \in Viewers PROVE ViewerOK(v)'
  <2>1. /\ channel[v] \in Starts \cup {None} /\ pos[v] \in Nat
        /\ \A h \in Starts : sent[h] \in Nat
    BY DEF IInv, ViewersTypeOK
  <2>2. overrun'[v] = (overrun[v] \/ (Subscribed(v) /\ channel[v] = g /\ sent[g] + 1 - pos[v] >= Capacity))
    BY DEF SendTag
  <2>3. GateOK(v)'
    BY DEF SendTag, IInv, ViewerOK, GateOK, session, receiver
  <2>4. LifeOK(v)'
    BY <1>1, <2>1 DEF SendTag, IInv, ViewerOK, LifeOK, session, receiver
  <2>5. ReachOK(v)'
    <3> SUFFICES ASSUME channel[v] # None PROVE ReachOK(v)'
      BY DEF SendTag, ReachOK, receiver
    <3>1. channel[v] \in Starts
      BY <2>1 
    <3>2. pos[v] <= sent'[channel[v]] + 1
      BY <1>1, <2>1, <3>1 DEF IInv, ViewerOK, ReachOK
    <3>3. ASSUME Subscribed(v), ~overrun'[v] PROVE pos[v] >= Oldest(channel[v])'
      <4>1. pos[v] >= Oldest(channel[v])
        BY <2>2, <3>3 DEF IInv, ViewerOK, ReachOK
      <4> QED
        <5>1. CASE channel[v] = g
          <6>1. ~(sent[g] + 1 - pos[v] >= Capacity)
            BY <2>2, <3>3, <5>1, Zenon
          <6>2. sent[g] + 1 - pos[v] < Capacity
            BY <2>1, <6>1
          <6>3. pos[v] >= 1 /\ sent'[g] = sent[g] + 1
            BY <1>1 DEF IInv, ViewersTypeOK
          <6>4. Oldest(g)' = IF sent'[g] < Capacity THEN 1 ELSE sent'[g] - Capacity + 1
            BY DEF Oldest
          <6> QED
            BY <2>1, <5>1, <6>2, <6>3, <6>4 DEF SendTag, receiver
        <5>2. CASE channel[v] # g
          BY <1>1, <3>1, <4>1, <5>2 DEF Oldest, SendTag, receiver
        <5> QED
          BY <5>1, <5>2
    <3> QED
      BY <3>2, <3>3 DEF SendTag, ReachOK, Subscribed, Oldest, receiver
  <2>6. Taken(v)' = Taken(v)
    BY DEF Taken, SendTag
  <2>7. StreamOK(v)'
    BY <2>2, <2>6 DEF SendTag, IInv, ViewerOK, StreamOK, UpTo, receiver
  <2> QED
    BY <2>3, <2>4, <2>5, <2>7 DEF ViewerOK
<1> QED
  BY <1>3, <1>4, <1>5 DEF IInv
------------------------------------------------------------------------------
(***************************************************************************)
(* The viewers.                                                            *)
(***************************************************************************)

\* As long as no two calls overlapped: with no origin armed, no stream is in the slot,
\* and a start that has armed is over.  One that is about to arm finds none armed.
LEMMA NothingUnguarded ==
    ASSUME P!IInv, clash = {}, ~armed_origin \/ Writing("arm")
    PROVE  \A s \in Armed : pc[s] = "done" /\ video_tx # s
<1> USE HttpFlvAssumption
<1>1. \A c \in Starts \cup {WS} : P!SlotsOf(c)
  BY DEF P!IInv, P!SlotsFollowCall, P!Callers
<1>2. ~armed_origin
  BY <1>1 DEF Writing, P!SlotsOf
<1>3. \A s \in Armed : pc[s] = "done"
  BY <1>1, <1>2 DEF Armed, P!SlotsOf
<1>4. video_tx = None
  <2>1. CASE P!Quiet
    BY <1>2, <2>1 DEF P!IInv, P!SlotsAgree
  <2>2. CASE ~P!Quiet
    BY <1>1, <1>2, <2>2 DEF P!Quiet, P!InCall, P!SlotsOf, P!Callers
  <2> QED
    BY <2>1, <2>2
<1> QED
  BY <1>3, <1>4 DEF Armed

\* The request at the gate: a foreign page passes only when nothing is armed.
LEMMA GateStep == ASSUME IInv, NEW v \in Viewers, Gate(v) PROVE IInv'
<1>1. client[v] = "idle" /\ passed'[v] = Armed /\ client'[v] = "admitted"
  BY DEF Gate, IInv, ViewersTypeOK
<1>2. ViewersTypeOK'
  <2>1. Armed \subseteq Starts
    BY DEF Armed
  <2>2. passed' \in [Viewers -> SUBSET Starts] /\ client' = [client EXCEPT ![v] = "admitted"]
    BY <2>1 DEF Gate, IInv, ViewersTypeOK
  <2> QED
    BY <2>2 DEF Gate, IInv, ViewersTypeOK, server, receiver
<1>3. \A w \in Viewers \ {v} : Of(w)' = Of(w)
  BY DEF Gate, Of, IInv, ViewersTypeOK, receiver
<1>4. GateOK(v)'
  BY <1>1, NothingUnguarded
     DEF Gate, IInv, ViewersTypeOK, ViewerOK, GateOK, OriginAllowed, server, session, receiver
<1>5. LifeOK(v)' /\ ReachOK(v)'
  BY <1>1 DEF Gate, IInv, ViewerOK, LifeOK, ReachOK, Subscribed, Oldest, server, session, receiver
<1>6. Taken(v)' = Taken(v)
  <2>1. client[v] # "left" /\ client'[v] # "left"
    BY <1>1
  <2> QED
    BY <2>1 DEF Gate, Taken
<1>7. StreamOK(v)'
  BY <1>1, <1>6 DEF Gate, IInv, ViewerOK, StreamOK, UpTo, receiver
<1> QED
  BY <1>2, <1>3, <1>4, <1>5, <1>7, OneViewerMoves DEF ViewerOK, Gate

\* The subscription: to the stream in the slot, from the tag behind the last one sent.
LEMMA SubscribeStep == ASSUME IInv, NEW v \in Viewers, Subscribe(v) PROVE IInv'
<1> USE HttpFlvAssumption
<1>1. /\ client[v] = "admitted" /\ client'[v] = "streaming" /\ forwarder'[v] = "receiving"
      /\ channel'[v] = video_tx /\ pos'[v] = sent[video_tx] + 1
      /\ joined'[v] = sent[video_tx]
  BY DEF Subscribe, IInv, ViewersTypeOK
<1>2. /\ video_tx \in Starts /\ sent[video_tx] \in 0 .. MaxTags
      /\ channel[v] = None /\ forwarder[v] = "none" /\ first[v] /\ got[v] = <<>> /\ queue[v] = <<>>
      /\ held[v] = NoChunk
  <2>1. video_tx \in Starts
    BY SessionTypes DEF Subscribe, IInv
  <2>2. sent[video_tx] \in 0 .. MaxTags
    BY <2>1 DEF IInv, ViewersTypeOK
  <2>3. channel[v] = None
    BY <1>1 DEF IInv, ViewerOK, GateOK
  <2> QED
    BY <2>1, <2>2, <2>3 DEF IInv, ViewerOK, LifeOK
<1>3. ViewersTypeOK'
  <2>1. video_tx \in Starts \cup {None} /\ sent[video_tx] + 1 \in 1 .. MaxTags + 1
    BY <1>2 
  <2>2. /\ channel' \in [Viewers -> Starts \cup {None}]
        /\ pos' \in [Viewers -> 1 .. MaxTags + 1]
        /\ joined' \in [Viewers -> 0 .. MaxTags]
    BY <1>2, <2>1 DEF Subscribe, IInv, ViewersTypeOK
  <2> QED
    BY <2>2 DEF Subscribe, IInv, ViewersTypeOK, server, session
<1>4. \A w \in Viewers \ {v} : Of(w)' = Of(w)
  BY DEF Subscribe, Of, IInv, ViewersTypeOK
<1>5. GateOK(v)'
  BY <1>1, <1>2 DEF Subscribe, IInv, ViewersTypeOK, ViewerOK, GateOK, server, session
<1>6. LifeOK(v)'
  BY <1>1, <1>2 DEF Subscribe, LifeOK, server, session
<1>7. ReachOK(v)'
  BY <1>1, <1>2 DEF Subscribe, ReachOK, Oldest, server
<1>8. Taken(v) = <<>> /\ Taken(v)' = <<>>
  BY <1>1, <1>2 DEF Subscribe, Taken
<1>9. StreamOK(v)'
  BY <1>1, <1>2, <1>8 DEF Subscribe, StreamOK, WellFormed, UpTo
<1> QED
  BY <1>3, <1>4, <1>5, <1>6, <1>7, <1>9, OneViewerMoves DEF ViewerOK, Subscribe

\* No stream is active, or the page is refused.
LEMMA NotFoundStep ==
    ASSUME IInv, NEW v \in Viewers, NotFound(v) \/ Forbidden(v)
    PROVE  IInv'
<1>1. client[v] \in {"idle", "admitted"} /\ client'[v] \in {"forbidden", "refused"}
  BY DEF NotFound, Forbidden, IInv, ViewersTypeOK
<1>2. ViewersTypeOK'
  BY DEF NotFound, Forbidden, IInv, ViewersTypeOK, server, session, receiver, history
<1>3. \A w \in Viewers \ {v} : Of(w)' = Of(w)
  BY DEF NotFound, Forbidden, Of, IInv, ViewersTypeOK, receiver, history
<1>4. GateOK(v)' /\ LifeOK(v)' /\ ReachOK(v)'
  BY <1>1 DEF NotFound, Forbidden, IInv, ViewerOK, GateOK, LifeOK, ReachOK, Subscribed, Oldest,
              server, session, receiver, history
<1>5. Taken(v)' = Taken(v)
  BY <1>1 DEF NotFound, Forbidden, Taken
<1>6. StreamOK(v)'
  BY <1>1, <1>5 DEF NotFound, Forbidden, IInv, ViewerOK, StreamOK, UpTo, receiver, history
<1> QED
  BY <1>2, <1>3, <1>4, <1>6, OneViewerMoves DEF ViewerOK, NotFound, Forbidden

\* A tag that is received joins what was taken, behind all of it.
LEMMA ReceiveTakes ==
    ASSUME IInv, NEW v \in Viewers, Receive(v)
    PROVE  /\ Chunk(v) \in Chunks \ {NoChunk}
           /\ client[v] # "left" => Taken(v)' = Append(Taken(v), Chunk(v))
<1>1. /\ held[v] = NoChunk /\ held'[v] = Chunk(v)
      /\ channel[v] # None
  BY DEF Receive, IInv, ViewersTypeOK, ViewerOK, LifeOK
<1>2. channel[v] \in Starts /\ sent[channel[v]] \in 0 .. MaxTags /\ pos[v] \in Nat /\ pos[v] >= 1
  BY <1>1, HttpFlvAssumption DEF IInv, ViewersTypeOK
<1>3. pos[v] <= sent[channel[v]]
  <2>1. Oldest(channel[v]) \in Nat
    BY <1>2, HttpFlvAssumption DEF Oldest
  <2> QED
    BY <1>2, <2>1 DEF Receive
<1>4. Chunk(v) \in Chunks /\ Chunk(v) # NoChunk
  BY <1>2, <1>3, HttpFlvAssumption DEF Chunk, Chunks, NoChunk, IInv, ViewersTypeOK
<1>5. ASSUME client[v] # "left" PROVE Taken(v)' = Append(Taken(v), Chunk(v))
  <2>1. got[v] \in Seq(Chunks) /\ queue[v] \in Seq(Chunks) /\ Taken(v) \in Seq(Chunks)
    BY TakenIsSeq DEF IInv, ViewersTypeOK
  <2>2. Taken(v) = got[v] \o queue[v]
    BY <1>1, <1>5, <2>1, ConcatProperties, ConcatEmptySeq DEF Taken
  <2>3. Taken(v)' = got[v] \o queue[v] \o <<Chunk(v)>>
    BY <1>1, <1>4, <1>5 DEF Taken, Receive
  <2> QED
    BY <1>4, <2>1, <2>2, <2>3, AppendIsConcat
<1> QED
  BY <1>4, <1>5

\* The receiver gives a tag, the next one after those taken.
LEMMA ReceiveStep == ASSUME IInv, NEW v \in Viewers, Receive(v) PROVE IInv'
<1> USE HttpFlvAssumption
<1>1. /\ forwarder[v] = "receiving" /\ forwarder'[v] = "sending"
      /\ held[v] = NoChunk /\ held'[v] = Chunk(v)
      /\ ~first'[v] /\ pos'[v] = pos[v] + 1
      /\ channel[v] # None
  BY DEF Receive, IInv, ViewersTypeOK, ViewerOK, LifeOK
<1>2. channel[v] \in Starts /\ sent[channel[v]] \in 0 .. MaxTags /\ pos[v] \in Nat /\ pos[v] >= 1
  BY <1>1 DEF IInv, ViewersTypeOK
<1>3. pos[v] >= Oldest(channel[v]) /\ pos[v] <= sent[channel[v]]
  <2>1. Oldest(channel[v]) \in Nat
    BY <1>2 DEF Oldest
  <2> QED
    BY <1>2, <2>1 DEF Receive
<1>4. Chunk(v) \in Chunks /\ Chunk(v) # NoChunk
  BY ReceiveTakes
<1>5. ViewersTypeOK'
  <2>1. pos[v] + 1 \in 1 .. MaxTags + 1
    BY <1>2, <1>3
  <2>2. pos' \in [Viewers -> 1 .. MaxTags + 1]
    BY <2>1 DEF Receive, IInv, ViewersTypeOK
  <2>3. /\ held' \in [Viewers -> Chunks \cup {NoChunk}]
        /\ forwarder' \in [Viewers -> {"none", "receiving", "sending", "ended"}]
        /\ first' \in [Viewers -> BOOLEAN]
    BY <1>4 DEF Receive, IInv, ViewersTypeOK
  <2> QED
    BY <2>2, <2>3 DEF Receive, IInv, ViewersTypeOK, server, session, history
<1>6. \A w \in Viewers \ {v} : Of(w)' = Of(w)
  BY DEF Receive, Of, IInv, ViewersTypeOK, history
<1>7. GateOK(v)'
  BY DEF Receive, IInv, ViewerOK, GateOK, server, session, history
<1>8. LifeOK(v)'
  BY <1>1, <1>4 DEF Receive, IInv, ViewerOK, LifeOK, server, session
<1>9. ReachOK(v)'
  BY <1>1, <1>2, <1>3 DEF Receive, ReachOK, Oldest, server
<1>10. CASE client[v] = "left"
  <2>1. Taken(v)' = Taken(v)
    BY <1>10 DEF Receive, Taken
  <2>2. StreamOK(v)'
    BY <1>10, <2>1 DEF Receive, IInv, ViewerOK, StreamOK
  <2> QED
    BY <1>5, <1>6, <1>7, <1>8, <1>9, <2>2, OneViewerMoves DEF ViewerOK, Receive
<1>11. CASE client[v] # "left"
  <2> DEFINE s == Taken(v)
             c == Chunk(v)
  <2>1. s \in Seq(Chunks)
    BY TakenIsSeq DEF IInv
  <2>2. Taken(v)' = Append(s, c)
    BY <1>11, ReceiveTakes
  <2>3. WellFormed(s) /\ UpTo(s, v)
    BY <1>11 DEF IInv, ViewerOK, StreamOK
  <2>4. /\ Len(Append(s, c)) = Len(s) + 1
        /\ \A i \in 1 .. Len(s) : Append(s, c)[i] = s[i]
        /\ Append(s, c)[Len(s) + 1] = c
        /\ Len(s) \in Nat
        /\ \A i \in 1 .. Len(s) : s[i].tag \in Nat
    <3>1. Len(s) \in Nat /\ \A i \in 1 .. Len(s) : s[i] \in Chunks
      BY <2>1, ElementOfSeq, LenProperties
    <3>2. \A i \in 1 .. Len(s) : s[i].tag \in Nat
      BY <3>1 DEF Chunks
    <3> QED
      BY <1>4, <2>1, <3>1, <3>2, AppendProperties
  <2>5. c.tag = pos[v] /\ (c.flv <=> first[v]) /\ c \in Chunks
    BY <1>4 DEF Chunk
  <2> HIDE DEF s, c
  <2>6. WellFormed(Taken(v))'
    <3>1. c.flv <=> Len(s) = 0
      BY <2>3, <2>5 DEF UpTo
    <3>2. \A i \in 1 .. Len(s) : s[i].tag < c.tag
      BY <2>3, <2>5 DEF UpTo
    <3>3. WellFormed(Append(s, c))
      BY <2>1, <2>3, <2>5, <3>1, <3>2, OneMore
    <3> QED
      BY <2>2, <3>3 DEF WellFormed
  <2>7. UpTo(Taken(v), v)'
    <3>1. joined[v] \in Nat
      BY DEF IInv, ViewersTypeOK
    <3>2. \A i \in 1 .. Len(s) + 1 : Append(s, c)[i].tag < pos[v] + 1
      BY <1>2, <2>3, <2>4, <2>5 DEF UpTo
    <3>3. ASSUME channel[v] # None, ~overrun[v]
          PROVE  /\ \A i \in 1 .. Len(s) + 1 : Append(s, c)[i].tag = joined[v] + i
                 /\ pos[v] + 1 = joined[v] + (Len(s) + 1) + 1
      <4>1. /\ \A i \in 1 .. Len(s) : s[i].tag = joined[v] + i
            /\ pos[v] = joined[v] + Len(s) + 1
        BY <2>3, <3>3 DEF UpTo
      <4> QED
        <5>1. \A i \in 1 .. Len(s) : Append(s, c)[i].tag = joined[v] + i
          BY <2>4, <4>1
        <5>2. Append(s, c)[Len(s) + 1].tag = joined[v] + (Len(s) + 1)
          BY <1>2, <2>4, <2>5, <3>1, <4>1, NextPosition
        <5>3. \A i \in 1 .. Len(s) + 1 : i \in 1 .. Len(s) \/ i = Len(s) + 1
          BY <2>4
        <5>4. pos[v] + 1 = joined[v] + (Len(s) + 1) + 1
          <6>1. PICK n \in Nat, p \in Nat, j \in Nat : n = Len(s) /\ p = pos[v] /\ j = joined[v]
            BY <1>2, <2>4, <3>1
          <6>2. p = j + n + 1
            BY <4>1, <6>1
          <6>3. p + 1 = j + (n + 1) + 1
            BY <6>2, NextPosition
          <6> QED
            BY <6>1, <6>3
        <5> QED
          BY <5>1, <5>2, <5>3, <5>4
    <3>4. ~first'[v] /\ Len(Append(s, c)) # 0
      BY <1>1, <2>4
    <3> QED
      BY <1>1, <2>2, <2>4, <3>2, <3>3, <3>4 DEF UpTo, Receive, history
  <2>8. StreamOK(v)'
    BY <2>6, <2>7 DEF StreamOK
  <2> QED
    BY <1>5, <1>6, <1>7, <1>8, <1>9, <2>8, OneViewerMoves DEF ViewerOK, Receive
<1> QED
  BY <1>10, <1>11

\* The receiver fell behind: it skips tags, which the history had noticed.
LEMMA LaggedStep == ASSUME IInv, NEW v \in Viewers, Lagged(v) PROVE IInv'
<1> USE HttpFlvAssumption
<1>1. /\ forwarder[v] = "receiving" /\ channel[v] # None
      /\ pos[v] < Oldest(channel[v]) /\ pos'[v] = Oldest(channel[v])
  BY DEF Lagged, IInv, ViewersTypeOK, ViewerOK, LifeOK
<1>2. channel[v] \in Starts /\ sent[channel[v]] \in 0 .. MaxTags /\ pos[v] \in Nat
  BY <1>1 DEF IInv, ViewersTypeOK
<1>3. Oldest(channel[v]) \in 1 .. MaxTags + 1 /\ Oldest(channel[v]) <= sent[channel[v]] + 1
  BY <1>2 DEF Oldest
<1>4. overrun[v]
  BY <1>1, <1>2, <1>3 DEF IInv, ViewerOK, ReachOK, Subscribed
<1>5. ViewersTypeOK'
  BY <1>3 DEF Lagged, IInv, ViewersTypeOK, server, session, history
<1>6. \A w \in Viewers \ {v} : Of(w)' = Of(w)
  BY DEF Lagged, Of, IInv, ViewersTypeOK, history
<1>7. GateOK(v)'
  BY DEF Lagged, IInv, ViewerOK, GateOK, server, session, history
<1>8. LifeOK(v)'
  BY <1>1 DEF Lagged, IInv, ViewerOK, LifeOK, server, session
<1>9. ReachOK(v)'
  BY <1>1, <1>3, <1>4 DEF Lagged, ReachOK, Oldest, server, history
<1>10. Taken(v)' = Taken(v)
  BY DEF Lagged, Taken
<1>11. StreamOK(v)'
  <2>1. \A i \in 1 .. Len(Taken(v)) : Taken(v)[i].tag \in Nat
    <3>1. Taken(v) \in Seq(Chunks)
      BY TakenIsSeq DEF IInv
    <3>2. \A i \in 1 .. Len(Taken(v)) : Taken(v)[i] \in Chunks
      BY <3>1, ElementOfSeq
    <3> QED
      BY <3>2 DEF Chunks
  <2> QED
    BY <1>1, <1>2, <1>3, <1>4, <1>10, <2>1
       DEF Lagged, IInv, ViewerOK, StreamOK, UpTo, history
<1> QED
  BY <1>5, <1>6, <1>7, <1>8, <1>9, <1>11, OneViewerMoves DEF ViewerOK, Lagged

\* The channel is closed and read: the forwarder ends behind the last tag.
LEMMA ChannelClosedStep == ASSUME IInv, NEW v \in Viewers, ChannelClosed(v) PROVE IInv'
<1>1. /\ forwarder[v] = "receiving" /\ forwarder'[v] = "ended" /\ channel[v] # None
      /\ pos[v] > sent[channel[v]] /\ pipeline[channel[v]] = "ended"
      /\ held[v] = NoChunk
  BY DEF ChannelClosed, Closed, IInv, ViewersTypeOK, ViewerOK, LifeOK
<1>2. ViewersTypeOK'
  BY DEF ChannelClosed, IInv, ViewersTypeOK, server, session, receiver, history
<1>3. \A w \in Viewers \ {v} : Of(w)' = Of(w)
  BY DEF ChannelClosed, Of, IInv, ViewersTypeOK, receiver, history
<1>4. GateOK(v)'
  BY DEF ChannelClosed, IInv, ViewerOK, GateOK, server, session, receiver, history
<1>5. LifeOK(v)'
  BY <1>1 DEF ChannelClosed, IInv, ViewerOK, LifeOK, server, session, receiver
<1>6. ReachOK(v)'
  BY <1>1 DEF ChannelClosed, IInv, ViewerOK, ReachOK, Subscribed, server, receiver, history
<1>7. Taken(v)' = Taken(v)
  BY DEF ChannelClosed, Taken
<1>8. StreamOK(v)'
  BY <1>7 DEF ChannelClosed, IInv, ViewerOK, StreamOK, UpTo, receiver, history
<1> QED
  BY <1>2, <1>3, <1>4, <1>5, <1>6, <1>8, OneViewerMoves DEF ViewerOK, ChannelClosed

\* A chunk that is put into the queue is taken as before.
LEMMA ForwardKeeps ==
    ASSUME IInv, NEW v \in Viewers, Forward(v)
    PROVE  Taken(v)' = Taken(v)
<1>1. held[v] # NoChunk /\ held'[v] = NoChunk /\ client[v] # "left"
  BY DEF Forward, IInv, ViewersTypeOK, ViewerOK, LifeOK
<1>2. queue'[v] = Append(queue[v], held[v])
  BY DEF Forward, IInv, ViewersTypeOK
<1>3. got[v] \in Seq(Chunks) /\ queue[v] \in Seq(Chunks) /\ held[v] \in Chunks
  BY <1>1 DEF IInv, ViewersTypeOK
<1>4. Taken(v) = got[v] \o queue[v] \o <<held[v]>>
  BY <1>1 DEF Taken
<1>5. Taken(v)' = got[v] \o Append(queue[v], held[v]) \o <<>>
  BY <1>1, <1>2 DEF Taken, Forward
<1> QED
  BY <1>3, <1>4, <1>5, HandToQueue

\* The held chunk goes to the end of the queue, behind which it was held.
LEMMA ForwardStep == ASSUME IInv, NEW v \in Viewers, Forward(v) PROVE IInv'
<1>1. /\ forwarder[v] = "sending" /\ forwarder'[v] = "receiving"
      /\ held[v] # NoChunk /\ held'[v] = NoChunk
      /\ queue'[v] = Append(queue[v], held[v]) /\ Len(queue[v]) < QueueSize
      /\ client[v] # "left" /\ channel[v] # None
  <2>1. /\ forwarder[v] = "sending" /\ forwarder'[v] = "receiving" /\ held'[v] = NoChunk
        /\ client[v] # "left" /\ Len(queue[v]) < QueueSize
    BY DEF Forward, IInv, ViewersTypeOK
  <2>2. queue'[v] = Append(queue[v], held[v])
    BY DEF Forward, IInv, ViewersTypeOK
  <2>3. held[v] # NoChunk /\ channel[v] # None
    BY <2>1 DEF IInv, ViewerOK, LifeOK
  <2> QED
    BY <2>1, <2>2, <2>3
<1>2. /\ got[v] \in Seq(Chunks) /\ queue[v] \in Seq(Chunks) /\ held[v] \in Chunks
      /\ queue'[v] \in Seq(Chunks) /\ Len(queue'[v]) <= QueueSize
  BY <1>1, AppendProperties, LenProperties, HttpFlvAssumption DEF IInv, ViewersTypeOK
<1>3. ViewersTypeOK'
  <2>1. forwarder' \in [Viewers -> {"none", "receiving", "sending", "ended"}]
    BY DEF Forward, IInv, ViewersTypeOK
  <2>2. held' \in [Viewers -> Chunks \cup {NoChunk}]
    BY DEF Forward, IInv, ViewersTypeOK
  <2>3. queue' \in [Viewers -> Seq(Chunks)] /\ \A w \in Viewers : Len(queue'[w]) <= QueueSize
    <3>1. queue' = [queue EXCEPT ![v] = queue'[v]]
      BY <1>1 DEF Forward
    <3> QED
      BY <1>2, <3>1 DEF IInv, ViewersTypeOK
  <2> QED
    BY <2>1, <2>2, <2>3 DEF Forward, IInv, ViewersTypeOK, server, session, receiver, history
<1>4. \A w \in Viewers \ {v} : Of(w)' = Of(w)
  BY DEF Forward, Of, IInv, ViewersTypeOK, receiver, history
<1>5. GateOK(v)'
  BY DEF Forward, IInv, ViewerOK, GateOK, server, session, receiver, history
<1>6. LifeOK(v)'
  BY <1>1 DEF Forward, IInv, ViewerOK, LifeOK, server, session, receiver
<1>7. ReachOK(v)'
  BY <1>1 DEF Forward, IInv, ViewerOK, ReachOK, Subscribed, Oldest, server, receiver, history
<1>8. Taken(v)' = Taken(v)
  BY ForwardKeeps
<1>9. StreamOK(v)'
  BY <1>8 DEF Forward, IInv, ViewerOK, StreamOK, UpTo, receiver, history
<1> QED
  BY <1>3, <1>4, <1>5, <1>6, <1>7, <1>9, OneViewerMoves DEF ViewerOK, Forward

\* The send fails: the client has left, and nothing is promised to it.
LEMMA ForwardFailsStep == ASSUME IInv, NEW v \in Viewers, ForwardFails(v) PROVE IInv'
<1>1. /\ forwarder[v] = "sending" /\ forwarder'[v] = "ended" /\ held'[v] = NoChunk
      /\ client[v] = "left" /\ channel[v] # None
  BY DEF ForwardFails, IInv, ViewersTypeOK, ViewerOK, LifeOK
<1>2. ViewersTypeOK'
  BY DEF ForwardFails, IInv, ViewersTypeOK, server, session, receiver, history
<1>3. \A w \in Viewers \ {v} : Of(w)' = Of(w)
  BY DEF ForwardFails, Of, IInv, ViewersTypeOK, receiver, history
<1>4. GateOK(v)'
  BY DEF ForwardFails, IInv, ViewerOK, GateOK, server, session, receiver, history
<1>5. LifeOK(v)'
  BY <1>1 DEF ForwardFails, IInv, ViewerOK, LifeOK, server, session, receiver
<1>6. ReachOK(v)'
  BY <1>1 DEF ForwardFails, IInv, ViewerOK, ReachOK, Subscribed, server, receiver, history
<1>7. Taken(v)' = Taken(v)
  BY <1>1 DEF ForwardFails, Taken
<1>8. StreamOK(v)'
  BY <1>1, <1>7 DEF ForwardFails, IInv, ViewerOK, StreamOK
<1> QED
  BY <1>2, <1>3, <1>4, <1>5, <1>6, <1>8, OneViewerMoves DEF ViewerOK, ForwardFails

\* A chunk that the client reads is taken as before.
LEMMA ReadKeeps ==
    ASSUME IInv, NEW v \in Viewers, ClientReads(v)
    PROVE  /\ got'[v] = Append(got[v], Head(queue[v])) /\ queue'[v] = Tail(queue[v])
           /\ got'[v] \in Seq(Chunks) /\ queue'[v] \in Seq(Chunks)
           /\ Len(queue'[v]) <= QueueSize
           /\ Taken(v)' = Taken(v)
<1> DEFINE h == IF held[v] = NoChunk THEN <<>> ELSE <<held[v]>>
<1>1. client[v] = "streaming" /\ queue[v] # <<>>
  BY DEF ClientReads
<1>2. got'[v] = Append(got[v], Head(queue[v])) /\ queue'[v] = Tail(queue[v])
  <2>1. v \in DOMAIN got /\ v \in DOMAIN queue
    BY DEF ClientReads, IInv, ViewersTypeOK
  <2> QED
    BY <2>1 DEF ClientReads
<1>3. /\ got[v] \in Seq(Chunks) /\ queue[v] \in Seq(Chunks) /\ Len(queue[v]) <= QueueSize
      /\ Len(queue[v]) \in Nat /\ h \in Seq(Chunks)
  <2>1. /\ got[v] \in Seq(Chunks) /\ queue[v] \in Seq(Chunks) /\ Len(queue[v]) <= QueueSize
        /\ held[v] \in Chunks \cup {NoChunk}
    BY DEF IInv, ViewersTypeOK
  <2> QED
    BY <2>1, LenProperties
<1> HIDE DEF h
<1>4. /\ got'[v] \in Seq(Chunks) /\ queue'[v] \in Seq(Chunks) /\ Len(queue'[v]) <= QueueSize
      /\ got'[v] \o queue'[v] \o h = got[v] \o queue[v] \o h
  <2>1. /\ Append(got[v], Head(queue[v])) \in Seq(Chunks) /\ Tail(queue[v]) \in Seq(Chunks)
        /\ Len(Tail(queue[v])) <= Len(queue[v])
        /\ Append(got[v], Head(queue[v])) \o Tail(queue[v]) \o h = got[v] \o queue[v] \o h
    <3>1. PICK a \in Seq(Chunks), q \in Seq(Chunks), r \in Seq(Chunks) :
             a = got[v] /\ q = queue[v] /\ r = h
      BY <1>3
    <3>2. q # <<>>
      BY <1>1, <3>1
    <3>3. /\ Append(a, Head(q)) \in Seq(Chunks)
          /\ Tail(q) \in Seq(Chunks) /\ Len(Tail(q)) <= Len(q)
          /\ Append(a, Head(q)) \o Tail(q) \o r = a \o q \o r
      BY <3>2, HeadIsGiven
    <3> QED
      BY <3>1, <3>3, Zenon
  <2>2. Len(Tail(queue[v])) \in Nat
    BY <2>1, LenProperties
  <2>3. Len(Tail(queue[v])) <= QueueSize
    BY <1>3, <2>1, <2>2, HttpFlvAssumption
  <2> QED
    BY <1>2, <2>1, <2>3, Zenon
<1>5. Taken(v)' = Taken(v)
  <2>1. Taken(v) = got[v] \o queue[v] \o h
    BY <1>1 DEF Taken, h
  <2>2. Taken(v)' = got'[v] \o queue'[v] \o h
    BY <1>1 DEF Taken, ClientReads, h
  <2> QED
    BY <1>4, <2>1, <2>2
<1> QED
  BY <1>2, <1>4, <1>5

\* The client reads a chunk: it goes from the queue's head to what was given.
LEMMA ClientReadsStep == ASSUME IInv, NEW v \in Viewers, ClientReads(v) PROVE IInv'
<1>1. client[v] = "streaming"
  BY DEF ClientReads
<1>2. got'[v] = Append(got[v], Head(queue[v])) /\ queue'[v] = Tail(queue[v])
  BY ReadKeeps
<1>3. got'[v] \in Seq(Chunks) /\ queue'[v] \in Seq(Chunks) /\ Len(queue'[v]) <= QueueSize
  BY ReadKeeps
<1>4. ViewersTypeOK'
  <2>1. got' = [got EXCEPT ![v] = got'[v]] /\ queue' = [queue EXCEPT ![v] = queue'[v]]
    BY <1>2 DEF ClientReads
  <2>2. /\ queue' \in [Viewers -> Seq(Chunks)] /\ got' \in [Viewers -> Seq(Chunks)]
        /\ \A w \in Viewers : Len(queue'[w]) <= QueueSize
    BY <1>3, <2>1 DEF IInv, ViewersTypeOK
  <2> QED
    BY <2>2 DEF ClientReads, IInv, ViewersTypeOK, server, session, receiver, history
<1>5. \A w \in Viewers \ {v} : Of(w)' = Of(w)
  BY DEF ClientReads, Of, IInv, ViewersTypeOK, receiver, history
<1>6. GateOK(v)'
  BY DEF ClientReads, IInv, ViewerOK, GateOK, server, session, receiver, history
<1>7. LifeOK(v)'
  BY <1>1, <1>2 DEF ClientReads, IInv, ViewerOK, LifeOK, server, session, receiver
<1>8. ReachOK(v)'
  BY DEF ClientReads, IInv, ViewerOK, ReachOK, Subscribed, Oldest, server, receiver, history
<1>9. Taken(v)' = Taken(v)
  BY ReadKeeps
<1>10. StreamOK(v)'
  BY <1>9 DEF ClientReads, IInv, ViewerOK, StreamOK, UpTo, receiver, history
<1> QED
  BY <1>4, <1>5, <1>6, <1>7, <1>8, <1>10, OneViewerMoves DEF ViewerOK, ClientReads

\* The body has ended.
LEMMA BodyEndsStep == ASSUME IInv, NEW v \in Viewers, BodyEnds(v) PROVE IInv'
<1>1. /\ client[v] = "streaming" /\ client'[v] = "finished"
      /\ forwarder[v] = "ended" /\ queue[v] = <<>>
  BY DEF BodyEnds, IInv, ViewersTypeOK
<1>2. ViewersTypeOK'
  BY DEF BodyEnds, IInv, ViewersTypeOK, server, session, receiver, history
<1>3. \A w \in Viewers \ {v} : Of(w)' = Of(w)
  BY DEF BodyEnds, Of, IInv, ViewersTypeOK, receiver, history
<1>4. GateOK(v)' /\ LifeOK(v)' /\ ReachOK(v)'
  BY <1>1 DEF BodyEnds, IInv, ViewerOK, GateOK, LifeOK, ReachOK, Subscribed,
              server, session, receiver, history
<1>5. Taken(v)' = Taken(v)
  BY <1>1 DEF BodyEnds, Taken
<1>6. StreamOK(v)'
  BY <1>1, <1>5 DEF BodyEnds, IInv, ViewerOK, StreamOK, UpTo, receiver, history
<1> QED
  BY <1>2, <1>3, <1>4, <1>6, OneViewerMoves DEF ViewerOK, BodyEnds

\* The client leaves with what it has got, the beginning of what was taken.
LEMMA ClientLeavesStep == ASSUME IInv, NEW v \in Viewers, ClientLeaves(v) PROVE IInv'
<1>1. /\ client[v] = "streaming" /\ client'[v] = "left" /\ queue'[v] = <<>> /\ got'[v] = got[v]
  <2>1. v \in DOMAIN queue /\ v \in DOMAIN client
    BY DEF ClientLeaves, IInv, ViewersTypeOK
  <2> QED
    BY <2>1 DEF ClientLeaves
<1>2. ViewersTypeOK'
  <2>1. <<>> \in Seq(Chunks) /\ Len(<<>>) = 0 /\ 0 <= QueueSize
    BY HttpFlvAssumption
  <2>2. queue' \in [Viewers -> Seq(Chunks)]
    BY <2>1 DEF ClientLeaves, IInv, ViewersTypeOK
  <2>3. \A w \in Viewers : Len(queue'[w]) <= QueueSize
    BY <2>1 DEF ClientLeaves, IInv, ViewersTypeOK
  <2> QED
    BY <2>2, <2>3 DEF ClientLeaves, IInv, ViewersTypeOK, server, session, receiver, history
<1>3. \A w \in Viewers \ {v} : Of(w)' = Of(w)
  BY DEF ClientLeaves, Of, IInv, ViewersTypeOK, receiver, history
<1>4. GateOK(v)' /\ LifeOK(v)' /\ ReachOK(v)'
  BY <1>1 DEF ClientLeaves, IInv, ViewerOK, GateOK, LifeOK, ReachOK, Subscribed, Oldest,
              server, session, receiver, history
<1>5. Taken(v)' = got[v]
  BY <1>1 DEF Taken
<1>6. /\ Len(got[v]) \in Nat /\ Len(got[v]) <= Len(Taken(v)) /\ Len(Taken(v)) \in Nat
      /\ \A i \in 1 .. Len(got[v]) : Taken(v)[i] = got[v][i]
  <2> DEFINE h == IF held[v] = NoChunk THEN <<>> ELSE <<held[v]>>
  <2>1. got[v] \in Seq(Chunks) /\ queue[v] \in Seq(Chunks) /\ h \in Seq(Chunks)
    BY DEF IInv, ViewersTypeOK
  <2>2. Taken(v) = got[v] \o queue[v] \o h
    BY <1>1 DEF Taken
  <2> HIDE DEF h
  <2> QED
    <3>1. PICK a \in Seq(Chunks), b \in Seq(Chunks), r \in Seq(Chunks) :
             a = got[v] /\ b = queue[v] /\ r = h
      BY <2>1
    <3>2. /\ Len(a) \in Nat /\ Len(a \o b \o r) \in Nat /\ Len(a) <= Len(a \o b \o r)
          /\ \A i \in 1 .. Len(a) : (a \o b \o r)[i] = a[i]
      BY GivenIsPrefix
    <3> QED
      BY <2>2, <3>1, <3>2
<1>7. WellFormed(got[v])
  <2>1. WellFormed(Taken(v))
    BY DEF IInv, ViewerOK, StreamOK
  <2>2. \A i \in 1 .. Len(got[v]) : i \in 1 .. Len(Taken(v))
    BY <1>6
  <2> QED
    BY <1>6, <2>1, <2>2 DEF WellFormed
<1>8. StreamOK(v)'
  BY <1>1, <1>5, <1>7 DEF StreamOK, WellFormed
<1> QED
  BY <1>2, <1>3, <1>4, <1>8, OneViewerMoves DEF ViewerOK, ClientLeaves
------------------------------------------------------------------------------
\* Every step preserves the invariant.
LEMMA StepInv == IInv /\ [Next]_vars => IInv'
<1> SUFFICES ASSUME IInv, [Next]_vars PROVE IInv'
  OBVIOUS
<1>1. CASE Session
  BY <1>1, SessionStep
<1>2. CASE \E g \in Starts : SendTag(g)
  BY <1>2, SendTagStep
<1>3. ASSUME NEW v \in Viewers, Gate(v) \/ Forbidden(v) \/ Subscribe(v) \/ NotFound(v)
      PROVE  IInv'
  BY <1>3, GateStep, SubscribeStep, NotFoundStep
<1>4. ASSUME NEW v \in Viewers, Forwarding(v) PROVE IInv'
  BY <1>4, ReceiveStep, LaggedStep, ChannelClosedStep, ForwardStep, ForwardFailsStep DEF Forwarding
<1>5. ASSUME NEW v \in Viewers, ClientReads(v) \/ BodyEnds(v) \/ ClientLeaves(v) PROVE IInv'
  BY <1>5, ClientReadsStep, BodyEndsStep, ClientLeavesStep
<1>6. CASE UNCHANGED vars
  <2>1. ViewersTypeOK' /\ P!IInv'
    BY <1>6, SessionStands DEF vars, viewers, server, receiver, history, IInv, ViewersTypeOK
  <2>2. \A v \in Viewers : Of(v)' = Of(v)
    BY <1>6 DEF vars, viewers, receiver, history, Of
  <2>3. UNCHANGED server
    BY <1>6 DEF vars
  <2> QED
    BY <2>1, <2>2, <2>3, Untouched DEF IInv
<1> QED
  BY <1>1, <1>2, <1>3, <1>4, <1>5, <1>6 DEF Next

\* The invariant always holds.
LEMMA Invariance == Spec => []IInv
BY InitInv, StepInv, PTL DEF Spec

\* The variables have their types; the queue of a response is bounded.
THEOREM TypeCorrect == Spec => []TypeOK
<1>1. IInv => TypeOK
  BY DEF IInv, TypeOK, P!IInv, P!TypeOK, VS!TypeOK, P!Callers, VS!Callers, P!StopLabels,
         VS!StopLabels
<1> QED
  BY <1>1, Invariance, PTL

\* Every viewer gets the header once and first, then tags of one pipeline in order.
THEOREM WellFormedStreams == Spec => []StreamIsWellFormed
<1>1. IInv => StreamIsWellFormed
  BY DEF IInv, ViewerOK, StreamOK, WellFormed, StreamIsWellFormed
<1> QED
  BY <1>1, Invariance, PTL

\* A viewer misses no tag unless it fell behind by more than the channel holds.
THEOREM NoGap == Spec => []NoGapUnlessLagging
<1>1. IInv => NoGapUnlessLagging
  <2> SUFFICES ASSUME IInv, NEW v \in Viewers,
                      Subscribed(v), client[v] = "streaming", ~overrun[v]
               PROVE  /\ \A i \in 1 .. Len(Taken(v)) : Taken(v)[i].tag = joined[v] + i
                      /\ pos[v] = joined[v] + Len(Taken(v)) + 1
    BY DEF NoGapUnlessLagging
  <2>1. channel[v] # None
    BY DEF IInv, ViewerOK, LifeOK, Subscribed
  <2> QED
    BY <2>1 DEF IInv, ViewerOK, StreamOK, UpTo
<1> QED
  BY <1>1, Invariance, PTL

\* A stream that finished was not cut short.
THEOREM Finished == Spec => []FinishedIsComplete
<1>1. IInv => FinishedIsComplete
  <2> SUFFICES ASSUME IInv, NEW v \in Viewers, client[v] = "finished", ~overrun[v]
               PROVE  Len(got[v]) = sent[channel[v]] - joined[v]
    BY DEF FinishedIsComplete
  <2>1. forwarder[v] = "ended" /\ queue[v] = <<>> /\ held[v] = NoChunk /\ channel[v] # None
    BY DEF IInv, ViewerOK, LifeOK
  <2>2. got[v] \in Seq(Chunks) /\ channel[v] \in Starts
    BY <2>1 DEF IInv, ViewersTypeOK
  <2>3. Taken(v) = got[v]
    BY <2>1, <2>2, ConcatEmptySeq DEF Taken
  <2>4. pos[v] = joined[v] + Len(got[v]) + 1
    BY <2>1, <2>3 DEF IInv, ViewerOK, StreamOK, UpTo
  <2>5. pos[v] > sent[channel[v]] /\ pos[v] <= sent[channel[v]] + 1
    BY <2>1 DEF IInv, ViewerOK, LifeOK, ReachOK
  <2>6. pos[v] \in Nat /\ sent[channel[v]] \in Nat /\ joined[v] \in Nat /\ Len(got[v]) \in Nat
    BY <2>2, LenProperties DEF IInv, ViewersTypeOK
  <2> QED
    BY <2>4, <2>5, <2>6, AllGiven
<1> QED
  BY <1>1, Invariance, PTL

\* As long as no two calls of the session have overlapped, a foreign page never gets
\* a stream that was armed when the gate let it pass, for any number of starts and
\* wherever between the locks of start and stop it comes.  (When a stop has cut into
\* a start it may: ForeignPageIsRefused.)
THEOREM GateHolds == Spec => []ForeignPageGetsNothing
<1>1. IInv => ForeignPageGetsNothing
  BY DEF IInv, ViewerOK, GateOK, ForeignPageGetsNothing, ForeignPageIsRefused
<1> QED
  BY <1>1, Invariance, PTL
------------------------------------------------------------------------------
(***************************************************************************)
(* HttpFlv implements TagStream.                                           *)
(*                                                                         *)
(* PromiseOK says of each tag between the subscription and the receiver's  *)
(* position where it is: among those taken, or no longer in the channel.   *)
(***************************************************************************)

\* Tag n has been taken for the viewer, or the channel has dropped it.
TakenOrDropped(v, n) ==
    \/ \E i \in 1 .. Len(Taken(v)) : Taken(v)[i].tag = n
    \/ n + Capacity <= sent[channel[v]]

PromiseOK(v) ==
    (channel[v] # None /\ client[v] # "left") =>
        /\ joined[v] < pos[v]
        /\ \A i \in 1 .. Len(Taken(v)) : joined[v] < Taken(v)[i].tag
        /\ \A n \in joined[v] + 1 .. pos[v] - 1 : TakenOrDropped(v, n)
        /\ forwarder[v] = "ended" => Closed(channel[v])

PInv == IInv /\ \A v \in Viewers : PromiseOK(v)

\* A channel that is closed stays so.
LEMMA ClosedStays ==
    ASSUME IInv, IInv', [Next]_vars, NEW g \in Starts, Closed(g)
    PROVE  Closed(g)'
<1>1. CASE Session
  <2>1. SessionMoves /\ pipeline[g] = "ended" /\ video_tx # g
    BY <1>1, SessionEffects DEF Session, IInv, Closed
  <2>2. pipeline'[g] = "ended"
    BY <2>1 DEF SessionMoves
  <2>3. video_tx' # g
    BY <2>1, HttpFlvAssumption DEF SessionMoves
  <2> QED
    BY <2>2, <2>3 DEF Closed
<1>2. CASE \E h \in Starts : SendTag(h)
  BY <1>2 DEF SendTag, Closed, session
<1>3. CASE UNCHANGED server
  BY <1>3 DEF server, session, Closed
<1>4. ASSUME NEW v \in Viewers,
             Gate(v) \/ Forbidden(v) \/ Subscribe(v) \/ NotFound(v) \/ Forwarding(v)
             \/ ClientReads(v) \/ BodyEnds(v) \/ ClientLeaves(v)
      PROVE  UNCHANGED server
  BY <1>4 DEF Gate, Forbidden, Subscribe, NotFound, Forwarding, Receive, Lagged, ChannelClosed,
              Forward, ForwardFails, ClientReads, BodyEnds, ClientLeaves
<1> QED
  BY <1>1, <1>2, <1>3, <1>4 DEF Next, vars

\* No channel loses a tag.
LEMMA SentGrows ==
    ASSUME IInv, [Next]_vars, NEW g \in Starts
    PROVE  sent[g] \in Nat /\ sent'[g] \in Nat /\ sent[g] <= sent'[g]
<1>1. sent[g] \in Nat
  BY DEF IInv, ViewersTypeOK
<1>2. CASE \E h \in Starts : SendTag(h)
  BY <1>1, <1>2 DEF SendTag, IInv, ViewersTypeOK
<1>3. CASE UNCHANGED sent
  BY <1>1, <1>3
<1>4. UNCHANGED sent \/ \E h \in Starts : SendTag(h)
  BY DEF Next, Session, Gate, Forbidden, Subscribe,
         NotFound, Forwarding, Receive, Lagged, ChannelClosed, Forward, ForwardFails, ClientReads,
         BodyEnds, ClientLeaves, vars, server
<1> QED
  BY <1>2, <1>3, <1>4

\* A viewer for whom nothing is taken, and whose forwarder ends only with its
\* channel, keeps its promise.
LEMMA PromiseKept ==
    ASSUME PInv, IInv', [Next]_vars, NEW v \in Viewers,
           Taken(v)' = Taken(v), pos'[v] = pos[v], joined'[v] = joined[v],
           channel'[v] = channel[v], client'[v] # "left" => client[v] # "left",
           forwarder'[v] = "ended" => forwarder[v] = "ended" \/ Closed(channel[v])
    PROVE  PromiseOK(v)'
<1> SUFFICES ASSUME channel[v] # None, client[v] # "left" PROVE PromiseOK(v)'
  BY DEF PromiseOK
<1>1. channel[v] \in Starts /\ pos[v] \in Nat /\ joined[v] \in Nat
  BY HttpFlvAssumption DEF PInv, IInv, ViewersTypeOK
<1>2. PromiseOK(v)
  BY DEF PInv
<1>3. /\ sent[channel[v]] \in Nat /\ sent'[channel[v]] \in Nat
      /\ sent[channel[v]] <= sent'[channel[v]]
  BY <1>1, SentGrows DEF PInv
<1>4. ASSUME NEW n \in joined[v] + 1 .. pos[v] - 1 PROVE TakenOrDropped(v, n)'
  <2>1. n \in Nat /\ TakenOrDropped(v, n)
    BY <1>1, <1>2 DEF PromiseOK
  <2> QED
    BY <1>3, <2>1, HttpFlvAssumption DEF TakenOrDropped
<1>5. forwarder'[v] = "ended" => Closed(channel[v])'
  BY <1>1, <1>2, ClosedStays DEF PInv, PromiseOK
<1> QED
  BY <1>2, <1>4, <1>5 DEF PromiseOK, Closed

\* A viewer that subscribes has missed nothing yet.
LEMMA SubscribePromise ==
    ASSUME PInv, NEW v \in Viewers, Subscribe(v)
    PROVE  PromiseOK(v)'
<1>1. /\ pos'[v] = sent[video_tx] + 1 /\ joined'[v] = sent[video_tx]
      /\ forwarder'[v] = "receiving" /\ client'[v] = "streaming"
  BY DEF Subscribe, PInv, IInv, ViewersTypeOK
<1>2. sent[video_tx] \in Nat
  BY SessionTypes, HttpFlvAssumption DEF Subscribe, PInv, IInv, ViewersTypeOK
<1>3. Taken(v)' = <<>>
  <2>1. got[v] = <<>> /\ queue[v] = <<>> /\ held[v] = NoChunk
    BY DEF Subscribe, PInv, IInv, ViewerOK, GateOK, LifeOK
  <2> QED
    BY <1>1, <2>1 DEF Subscribe, Taken
<1>4. joined'[v] < pos'[v] /\ joined'[v] + 1 .. pos'[v] - 1 = {}
  BY <1>1, <1>2
<1> QED
  BY <1>1, <1>3, <1>4 DEF PromiseOK

\* What was taken is numbers, and lies before the receiver.
LEMMA TakenTags ==
    ASSUME IInv, NEW v \in Viewers
    PROVE  /\ Len(Taken(v)) \in Nat
           /\ \A i \in 1 .. Len(Taken(v)) : Taken(v)[i] \in Chunks /\ Taken(v)[i].tag \in Nat
<1>1. Taken(v) \in Seq(Chunks)
  BY TakenIsSeq DEF IInv
<1>2. Len(Taken(v)) \in Nat /\ \A i \in 1 .. Len(Taken(v)) : Taken(v)[i] \in Chunks
  BY <1>1, ElementOfSeq, LenProperties
<1> QED
  BY <1>2 DEF Chunks

\* A tag that is read is taken.
LEMMA ReceivePromise ==
    ASSUME PInv, NEW v \in Viewers, Receive(v), client[v] # "left"
    PROVE  PromiseOK(v)'
<1> DEFINE s == Taken(v)
           c == Chunk(v)
<1>1. /\ s \in Seq(Chunks) /\ c \in Chunks /\ Taken(v)' = Append(s, c) /\ c.tag = pos[v]
  BY ReceiveTakes, TakenIsSeq DEF PInv, IInv, Chunk
<1>2. /\ Len(Append(s, c)) = Len(s) + 1 /\ Len(s) \in Nat
      /\ \A i \in 1 .. Len(s) : Append(s, c)[i] = s[i]
      /\ Append(s, c)[Len(s) + 1] = c
  BY <1>1, AppendProperties, LenProperties
<1> HIDE DEF s, c
<1>3. /\ pos'[v] = pos[v] + 1 /\ forwarder'[v] = "sending" /\ channel[v] # None
      /\ UNCHANGED <<joined, channel, sent, client>>
  BY DEF Receive, PInv, IInv, ViewersTypeOK, ViewerOK, LifeOK, server, history
<1>4. pos[v] \in Nat /\ joined[v] \in Nat
  BY DEF PInv, IInv, ViewersTypeOK
<1>5. /\ joined[v] < pos[v]
      /\ \A i \in 1 .. Len(s) : joined[v] < s[i].tag
      /\ \A n \in joined[v] + 1 .. pos[v] - 1 : TakenOrDropped(v, n)
  BY <1>3 DEF PInv, PromiseOK, s
<1>6. \A i \in 1 .. Len(s) + 1 : i \in 1 .. Len(s) \/ i = Len(s) + 1
  BY <1>2
<1>7. \A i \in 1 .. Len(Taken(v)') : joined'[v] < Taken(v)'[i].tag
  BY <1>1, <1>2, <1>3, <1>5, <1>6
<1>8. ASSUME NEW n \in joined'[v] + 1 .. pos'[v] - 1 PROVE TakenOrDropped(v, n)'
  <2>1. CASE n = pos[v]
    <3>1. Len(s) + 1 \in 1 .. Len(Append(s, c)) /\ Append(s, c)[Len(s) + 1].tag = n
      BY <1>1, <1>2, <2>1
    <3> QED
      BY <1>1, <3>1 DEF TakenOrDropped
  <2>2. CASE n # pos[v]
    <3>1. n \in joined[v] + 1 .. pos[v] - 1
      BY <1>3, <1>4, <2>2
    <3>2. TakenOrDropped(v, n)
      BY <1>5, <3>1
    <3>3. CASE n + Capacity <= sent[channel[v]]
      BY <1>3, <3>3 DEF TakenOrDropped
    <3>4. CASE \E i \in 1 .. Len(s) : s[i].tag = n
      <4>1. PICK i \in 1 .. Len(s) : s[i].tag = n
        BY <3>4
      <4>2. i \in 1 .. Len(Append(s, c)) /\ Append(s, c)[i].tag = n
        BY <1>2, <4>1
      <4> QED
        BY <1>1, <4>2 DEF TakenOrDropped
    <3> QED
      BY <3>2, <3>3, <3>4 DEF TakenOrDropped, s
  <2> QED
    BY <2>1, <2>2
<1>9. joined'[v] < pos'[v]
  BY <1>3, <1>4, <1>5
<1> QED
  BY <1>3, <1>7, <1>8, <1>9 DEF PromiseOK

\* The tags that a receiver skips are those that the channel has dropped.
LEMMA LaggedPromise ==
    ASSUME PInv, NEW v \in Viewers, Lagged(v), client[v] # "left"
    PROVE  PromiseOK(v)'
<1>1. /\ forwarder'[v] = "receiving" /\ channel[v] # None
      /\ pos[v] < Oldest(channel[v]) /\ pos'[v] = Oldest(channel[v])
      /\ UNCHANGED <<joined, channel, sent, client>> /\ Taken(v)' = Taken(v)
  BY DEF Lagged, PInv, IInv, ViewersTypeOK, ViewerOK, LifeOK, server, history, Taken
<1>2. sent[channel[v]] \in Nat /\ pos[v] \in Nat /\ joined[v] \in Nat
  BY <1>1, HttpFlvAssumption DEF PInv, IInv, ViewersTypeOK
<1>3. PromiseOK(v)
  BY DEF PInv
<1>4. Oldest(channel[v]) \in Nat
  BY <1>2, HttpFlvAssumption DEF Oldest
<1>5. joined'[v] < pos'[v]
  BY <1>1, <1>2, <1>3, <1>4 DEF PromiseOK
<1>6. ASSUME NEW n \in joined'[v] + 1 .. pos'[v] - 1 PROVE TakenOrDropped(v, n)'
  <2>1. CASE n < pos[v]
    <3>1. TakenOrDropped(v, n)
      BY <1>1, <1>2, <1>3, <2>1 DEF PromiseOK
    <3> QED
      BY <1>1, <3>1 DEF TakenOrDropped
  <2>2. CASE n >= pos[v]
    <3>1. n \in Nat /\ n < Oldest(channel[v]) /\ n >= 1
      BY <1>1, <1>2, <1>4, <2>2
    <3>2. n + Capacity <= sent[channel[v]]
      BY <1>2, <3>1, HttpFlvAssumption DEF Oldest
    <3> QED
      BY <1>1, <3>2 DEF TakenOrDropped
  <2> QED
    BY <1>2, <2>1, <2>2
<1> QED
  BY <1>1, <1>3, <1>5, <1>6 DEF PromiseOK

\* What a step leaves of a viewer that does not move.
LEMMA OthersStay ==
    ASSUME IInv, NEW v \in Viewers, NEW w \in Viewers \ {v},
           Gate(v) \/ Forbidden(v) \/ Subscribe(v) \/ NotFound(v) \/ Forwarding(v)
           \/ ClientReads(v) \/ BodyEnds(v) \/ ClientLeaves(v)
    PROVE  Of(w)' = Of(w)
<1>1. CASE Gate(v) \/ Forbidden(v) \/ Subscribe(v) \/ NotFound(v)
  BY <1>1 DEF Gate, Forbidden, Subscribe, NotFound, Of, IInv, ViewersTypeOK, receiver, history
<1>2. CASE Receive(v) \/ Lagged(v) \/ ChannelClosed(v)
  BY <1>2 DEF Receive, Lagged, ChannelClosed, Of, IInv, ViewersTypeOK, receiver, history
<1>3. CASE Forward(v) \/ ForwardFails(v)
  BY <1>3 DEF Forward, ForwardFails, Of, IInv, ViewersTypeOK, receiver, history
<1>4. CASE ClientReads(v) \/ BodyEnds(v) \/ ClientLeaves(v)
  BY <1>4 DEF ClientReads, BodyEnds, ClientLeaves, Of, IInv, ViewersTypeOK, receiver, history
<1> QED
  BY <1>1, <1>2, <1>3, <1>4 DEF Forwarding

\* A step keeps every promise.
LEMMA PromiseStep == PInv /\ [Next]_vars => PInv'
<1> SUFFICES ASSUME PInv, [Next]_vars PROVE PInv'
  OBVIOUS
<1>1. IInv'
  BY StepInv DEF PInv
<1>2. ASSUME NEW w \in Viewers, Of(w)' = Of(w) PROVE PromiseOK(w)'
  <2>1. /\ Taken(w)' = Taken(w) /\ pos'[w] = pos[w] /\ joined'[w] = joined[w]
        /\ channel'[w] = channel[w] /\ client'[w] = client[w] /\ forwarder'[w] = forwarder[w]
    BY <1>2 DEF Of, Taken
  <2> QED
    BY <1>1, <2>1, PromiseKept
<1>3. CASE Session \/ (\E g \in Starts : SendTag(g)) \/ UNCHANGED vars
  <2>1. /\ UNCHANGED viewers
        \/ UNCHANGED <<foreign, client, forwarder, receiver, first, held, queue, got, passed, joined>>
    BY <1>3 DEF Session, SendTag, vars, viewers, history
  <2>2. ASSUME NEW w \in Viewers PROVE PromiseOK(w)'
    <3>1. /\ Taken(w)' = Taken(w) /\ pos'[w] = pos[w] /\ joined'[w] = joined[w]
          /\ channel'[w] = channel[w] /\ client'[w] = client[w] /\ forwarder'[w] = forwarder[w]
      BY <2>1 DEF viewers, receiver, history, Taken
    <3> QED
      BY <1>1, <3>1, PromiseKept
  <2> QED
    BY <1>1, <2>2 DEF PInv
<1>4. ASSUME NEW v \in Viewers,
             Gate(v) \/ Forbidden(v) \/ Subscribe(v) \/ NotFound(v) \/ Forwarding(v)
             \/ ClientReads(v) \/ BodyEnds(v) \/ ClientLeaves(v)
      PROVE  PInv'
  <2>1. \A w \in Viewers \ {v} : PromiseOK(w)'
    BY <1>2, <1>4, OthersStay DEF PInv
  <2>2. CASE Gate(v) \/ Forbidden(v) \/ NotFound(v)
    <3>1. channel'[v] = None
      BY <2>2 DEF Gate, Forbidden, NotFound, PInv, IInv, ViewerOK, GateOK, receiver
    <3> QED
      BY <1>1, <2>1, <3>1 DEF PInv, PromiseOK
  <2>3. CASE Subscribe(v)
    BY <1>1, <2>1, <2>3, SubscribePromise DEF PInv
  <2>4. CASE Forwarding(v) /\ client[v] = "left"
    <3>1. client'[v] = "left"
      BY <2>4 DEF Forwarding, Receive, Lagged, ChannelClosed, Forward, ForwardFails
    <3> QED
      BY <1>1, <2>1, <3>1 DEF PInv, PromiseOK
  <2>5. CASE Receive(v) /\ client[v] # "left"
    BY <1>1, <2>1, <2>5, ReceivePromise DEF PInv
  <2>6. CASE Lagged(v) /\ client[v] # "left"
    BY <1>1, <2>1, <2>6, LaggedPromise DEF PInv
  <2>7. CASE ChannelClosed(v) /\ client[v] # "left"
    <3>1. /\ Taken(v)' = Taken(v) /\ UNCHANGED <<pos, joined, channel, client>>
          /\ Closed(channel[v])
      BY <2>7 DEF ChannelClosed, Taken, receiver, history
    <3> QED
      BY <1>1, <2>1, <3>1, PromiseKept DEF PInv
  <2>8. CASE Forward(v)
    <3>1. UNCHANGED <<pos, joined, channel, client>> /\ forwarder'[v] = "receiving"
      BY <2>8 DEF Forward, PInv, IInv, ViewersTypeOK, receiver, history
    <3>2. Taken(v)' = Taken(v)
      BY <2>8, ForwardKeeps DEF PInv
    <3> QED
      BY <1>1, <2>1, <3>1, <3>2, PromiseKept DEF PInv
  <2>9. CASE ClientReads(v)
    <3>1. UNCHANGED <<pos, joined, channel, client, forwarder>>
      BY <2>9 DEF ClientReads, receiver, history
    <3>2. Taken(v)' = Taken(v)
      BY <2>9, ReadKeeps DEF PInv
    <3> QED
      BY <1>1, <2>1, <3>1, <3>2, PromiseKept DEF PInv
  <2>10. CASE BodyEnds(v)
    <3>1. UNCHANGED <<pos, joined, channel, forwarder, got, queue, held>>
      BY <2>10 DEF BodyEnds, receiver, history
    <3>2. client[v] = "streaming" /\ client'[v] = "finished"
      BY <2>10 DEF BodyEnds, PInv, IInv, ViewersTypeOK
    <3>3. Taken(v)' = Taken(v)
      BY <3>1, <3>2 DEF Taken
    <3> QED
      BY <1>1, <2>1, <3>1, <3>2, <3>3, PromiseKept DEF PInv
  <2>11. CASE ClientLeaves(v)
    <3>1. client'[v] = "left"
      BY <2>11 DEF ClientLeaves, PInv, IInv, ViewersTypeOK
    <3> QED
      BY <1>1, <2>1, <3>1 DEF PInv, PromiseOK
  <2> QED
    BY <1>4, <2>2, <2>3, <2>4, <2>5, <2>6, <2>7, <2>8, <2>9, <2>10, <2>11
       DEF Forwarding, ForwardFails
<1> QED
  BY <1>3, <1>4 DEF Next

\* In the beginning nobody has been promised anything.
LEMMA InitPromise == Init => PInv
BY InitInv DEF Init, PInv, PromiseOK

\* Every promise is always kept.
LEMMA PromiseInvariance == Spec => []PInv
BY InitPromise, StepInv, PromiseStep, PTL DEF Spec

\* Between two chunks that follow each other no tag was taken.
LEMMA NoneBetween ==
    ASSUME NEW s \in Seq(Chunks), WellFormed(s), NEW k \in 1 .. Len(s), NEW m \in Nat,
           m < s[k].tag, k > 1 => s[k - 1].tag < m
    PROVE  \A i \in 1 .. Len(s) : s[i].tag # m
<1>1. Len(s) \in Nat /\ \A i \in 1 .. Len(s) : s[i] \in Chunks
  BY ElementOfSeq, LenProperties
<1>2. \A i \in 1 .. Len(s) : s[i].tag \in Nat
  BY <1>1 DEF Chunks
<1>3. ASSUME NEW i \in 1 .. Len(s), s[i].tag = m PROVE FALSE
  <2>1. i < k
    BY <1>1, <1>2, <1>3 DEF WellFormed
  <2>2. k - 1 \in 1 .. Len(s) /\ i <= k - 1
    BY <1>1, <2>1
  <2>3. i = k - 1 \/ s[i].tag < s[k - 1].tag
    BY <1>1, <2>2 DEF WellFormed
  <2> QED
    BY <1>1, <1>2, <1>3, <2>1, <2>2, <2>3
<1> QED
  BY <1>3

\* What the client has after it has read is the beginning of what was taken.
LEMMA ReadIsPrefix ==
    ASSUME IInv, NEW v \in Viewers, ClientReads(v)
    PROVE  /\ Len(got[v]) \in Nat /\ Len(Taken(v)) \in Nat /\ Len(got[v]) + 1 <= Len(Taken(v))
           /\ \A i \in 1 .. Len(got[v]) : Taken(v)[i] = got[v][i]
           /\ Taken(v)[Len(got[v]) + 1] = Head(queue[v])
<1> DEFINE h == IF held[v] = NoChunk THEN <<>> ELSE <<held[v]>>
<1>1. /\ got'[v] = Append(got[v], Head(queue[v])) /\ queue[v] # <<>>
      /\ got'[v] \in Seq(Chunks) /\ queue'[v] \in Seq(Chunks)
  BY ReadKeeps DEF ClientReads
<1>2. /\ got[v] \in Seq(Chunks) /\ queue[v] \in Seq(Chunks) /\ h \in Seq(Chunks)
  BY DEF IInv, ViewersTypeOK
<1>3. Taken(v) = got'[v] \o queue'[v] \o h
  <2>1. Taken(v)' = got'[v] \o queue'[v] \o h
    BY DEF ClientReads, Taken
  <2> QED
    BY <2>1, ReadKeeps
<1> HIDE DEF h
<1>4. /\ Len(got'[v]) \in Nat /\ Len(Taken(v)) \in Nat /\ Len(got'[v]) <= Len(Taken(v))
      /\ \A i \in 1 .. Len(got'[v]) : Taken(v)[i] = got'[v][i]
  <2>1. PICK a \in Seq(Chunks), q \in Seq(Chunks), r \in Seq(Chunks) :
           a = got'[v] /\ q = queue'[v] /\ r = h
    BY <1>1, <1>2
  <2>2. /\ Len(a) \in Nat /\ Len(a \o q \o r) \in Nat /\ Len(a) <= Len(a \o q \o r)
        /\ \A i \in 1 .. Len(a) : (a \o q \o r)[i] = a[i]
    BY GivenIsPrefix
  <2> QED
    BY <1>3, <2>1, <2>2
<1>5. Head(queue[v]) \in Chunks
  BY <1>1, <1>2, HeadTailProperties
<1>6. /\ Len(got'[v]) = Len(got[v]) + 1 /\ Len(got[v]) \in Nat
      /\ \A i \in 1 .. Len(got[v]) : got'[v][i] = got[v][i]
      /\ got'[v][Len(got[v]) + 1] = Head(queue[v])
  BY <1>1, <1>2, <1>5, AppendProperties, LenProperties
<1>7. \A i \in 1 .. Len(got[v]) : i \in 1 .. Len(got'[v])
  BY <1>6
<1>8. Len(got[v]) + 1 \in 1 .. Len(got'[v])
  BY <1>6
<1> QED
  BY <1>4, <1>6, <1>7, <1>8

\* A viewer that reads gets the next tag that was taken, and what lies between is
\* not kept any more.
LEMMA ReadDelivers ==
    ASSUME PInv, NEW v \in Viewers, ClientReads(v)
    PROVE  Promised!Deliver(v)
<1> DEFINE s == Taken(v)
           k == Len(got[v]) + 1
           c == Head(queue[v])
           latest == Promised!Latest(v)
<1>1. client[v] = "streaming" /\ channel[v] # None /\ channel[v] \in Starts
  <2>1. client[v] = "streaming"
    BY DEF ClientReads
  <2>2. channel[v] # None
    BY <2>1 DEF PInv, IInv, ViewerOK, GateOK
  <2> QED
    BY <2>1, <2>2, HttpFlvAssumption DEF PInv, IInv, ViewersTypeOK
<1>2. sent[channel[v]] \in Nat /\ pos[v] \in Nat /\ joined[v] \in Nat /\ pos[v] <= sent[channel[v]] + 1
  BY <1>1, HttpFlvAssumption DEF PInv, IInv, ViewersTypeOK, ViewerOK, ReachOK
<1>3. /\ WellFormed(s) /\ \A i \in 1 .. Len(s) : s[i].tag < pos[v]
      /\ s \in Seq(Chunks) /\ Len(s) \in Nat
      /\ \A i \in 1 .. Len(s) : s[i] \in Chunks /\ s[i].tag \in Nat
  BY <1>1, TakenTags, TakenIsSeq DEF PInv, IInv, ViewerOK, StreamOK, UpTo
<1>4. /\ \A i \in 1 .. Len(s) : joined[v] < s[i].tag
      /\ \A n \in joined[v] + 1 .. pos[v] - 1 :
            (\E i \in 1 .. Len(s) : s[i].tag = n) \/ n + Capacity <= sent[channel[v]]
  BY <1>1 DEF PInv, PromiseOK, TakenOrDropped
<1>5. /\ k \in 1 .. Len(s) /\ s[k] = c /\ Len(got[v]) \in Nat
      /\ \A i \in 1 .. k - 1 : s[i] = got[v][i]
  BY ReadIsPrefix DEF PInv
<1>6. got[v] \in Seq(Chunks) /\ (got[v] = <<>> <=> k = 1)
  <2>1. got[v] \in Seq(Chunks)
    BY DEF PInv, IInv, ViewersTypeOK
  <2> QED
    BY <2>1, EmptySeq
<1>7. latest = IF k = 1 THEN joined[v] ELSE s[k - 1].tag
  <2>1. CASE k = 1
    BY <1>6, <2>1 DEF Promised!Latest
  <2>2. CASE k # 1
    <3>1. k - 1 \in 1 .. k - 1 /\ k - 1 = Len(got[v])
      BY <1>5, <2>2
    <3> QED
      BY <1>5, <1>6, <2>2, <3>1 DEF Promised!Latest
  <2> QED
    BY <2>1, <2>2
<1>8. got' = [got EXCEPT ![v] = Append(@, c)] /\ UNCHANGED <<server, client, channel, joined>>
  BY DEF ClientReads, receiver, history
<1> HIDE DEF s, k, c, latest
<1>9. latest \in Nat /\ joined[v] <= latest /\ latest < c.tag /\ c.tag \in Nat
  <2>1. CASE k = 1
    BY <1>2, <1>3, <1>4, <1>5, <1>7, <2>1
  <2>2. CASE k # 1
    <3>1. k - 1 \in 1 .. Len(s) /\ k - 1 < k
      BY <1>3, <1>5, <2>2
    <3>2. s[k - 1].tag < s[k].tag
      BY <1>3, <1>5, <3>1 DEF WellFormed
    <3> QED
      BY <1>2, <1>3, <1>4, <1>5, <1>7, <2>2, <3>1, <3>2
  <2> QED
    BY <2>1, <2>2
<1>10. c.tag \in latest + 1 .. sent[channel[v]]
  <2>1. c.tag < pos[v]
    BY <1>3, <1>5
  <2> QED
    BY <1>2, <1>9, <2>1
<1>11. ASSUME NEW m \in latest + 1 .. c.tag - 1 PROVE m + Capacity <= sent[channel[v]]
  <2>1. m \in Nat /\ latest < m /\ m < c.tag
    BY <1>9
  <2>2. c.tag < pos[v]
    BY <1>3, <1>5
  <2>3. m \in joined[v] + 1 .. pos[v] - 1
    BY <1>2, <1>9, <2>1, <2>2
  <2>4. \A i \in 1 .. Len(s) : s[i].tag # m
    <3>1. k > 1 => s[k - 1].tag < m
      BY <1>5, <1>7, <2>1
    <3> QED
      BY <1>3, <1>5, <2>1, <3>1, NoneBetween
  <2> QED
    BY <1>4, <2>3, <2>4
<1>12. [flv |-> got[v] = <<>>, tag |-> c.tag] = c
  <2>1. c \in Chunks /\ (c.flv <=> got[v] = <<>>)
    BY <1>3, <1>5, <1>6 DEF WellFormed
  <2>2. c.flv = (got[v] = <<>>)
    <3>1. c.flv \in BOOLEAN
      BY <2>1 DEF Chunks
    <3> QED
      BY <2>1, <3>1, Zenon
  <2>3. c = [flv |-> c.flv, tag |-> c.tag]
    BY <2>1 DEF Chunks
  <2> QED
    BY <2>2, <2>3
<1>13. got' = [got EXCEPT ![v] = Append(@, [flv |-> @ = <<>>, tag |-> c.tag])]
  BY <1>8, <1>12
<1>14. /\ {g \in Starts : Closed(g)}' = {g \in Starts : Closed(g)}
       /\ sent' = sent /\ client' = client /\ channel' = channel /\ joined' = joined
  BY <1>8 DEF server, session, Closed
<1> QED
  BY <1>1, <1>10, <1>11, <1>13, <1>14 DEF Promised!Deliver, latest

\* The closed streams and the viewers as TagStream has them.
ClosedStarts == {g \in Starts : Closed(g)}
ViewerState ==
    [v \in Viewers |-> IF client[v] \in {"streaming", "left", "finished"}
                       THEN client[v] ELSE "outside"]

\* A step that leaves all this as it is is a stutter of the stream.
LEMMA StreamStutters ==
    ASSUME UNCHANGED <<sent, ClosedStarts, ViewerState, channel, joined, got>>
    PROVE  UNCHANGED Promised!vars
BY DEF Promised!vars, ClosedStarts, ViewerState

\* A step of the session closes one stream at most: the one whose sender leaves the
\* slot, or whose pipeline ends.
LEMMA SessionCloses ==
    ASSUME P!IInv, VS!Next
    PROVE  \/ ClosedStarts' = ClosedStarts
           \/ \E g \in Starts \ ClosedStarts : ClosedStarts' = ClosedStarts \cup {g}
<1> USE HttpFlvAssumption
<1>1. SessionMoves
  BY SessionEffects
<1>2. CASE pipeline' = pipeline
  <2>1. \A g \in Starts : Closed(g)' <=> Closed(g) \/ (g = video_tx /\ video_tx' # g /\ pipeline[g] = "ended")
    BY <1>1, <1>2 DEF SessionMoves, Closed
  <2>2. CASE video_tx \in Starts /\ video_tx' # video_tx /\ pipeline[video_tx] = "ended"
    <3>1. PICK g \in Starts : g = video_tx
      BY <2>2
    <3>2. ~Closed(g) /\ \A h \in Starts : Closed(h)' <=> Closed(h) \/ h = g
      BY <2>1, <2>2, <3>1 DEF Closed
    <3>3. g \notin ClosedStarts /\ ClosedStarts' = ClosedStarts \cup {g}
      BY <3>2 DEF ClosedStarts
    <3> QED
      BY <3>3
  <2>3. CASE ~(video_tx \in Starts /\ video_tx' # video_tx /\ pipeline[video_tx] = "ended")
    <3>1. \A g \in Starts : Closed(g)' <=> Closed(g)
      BY <2>1, <2>3
    <3> QED
      BY <3>1 DEF ClosedStarts
  <2> QED
    BY <2>2, <2>3
<1>3. CASE pipeline' # pipeline
  <2>1. PICK s \in Starts : /\ pipeline[s] # "ended" /\ video_tx' = video_tx
                            /\ \A t \in Starts \ {s} : pipeline'[t] = pipeline[t]
    BY <1>1, <1>3 DEF SessionMoves
  <2>2. ~Closed(s) /\ \A t \in Starts \ {s} : Closed(t)' <=> Closed(t)
    BY <2>1 DEF Closed
  <2>3. CASE Closed(s)'
    <3>1. s \notin ClosedStarts /\ ClosedStarts' = ClosedStarts \cup {s}
      BY <2>2, <2>3 DEF ClosedStarts
    <3> QED
      BY <3>1
  <2>4. CASE ~Closed(s)'
    <3>1. \A t \in Starts : Closed(t)' <=> Closed(t)
      BY <2>2, <2>4
    <3> QED
      BY <3>1 DEF ClosedStarts
  <2> QED
    BY <2>3, <2>4
<1> QED
  BY <1>2, <1>3

\* So the session closes a stream, or does nothing to it.
LEMMA SessionRefines ==
    ASSUME PInv, Session
    PROVE  Promised!Next \/ UNCHANGED Promised!vars
<1>1. UNCHANGED <<ViewerState, channel, joined, got, sent>>
  BY DEF Session, ViewerState, viewers, receiver, history
<1>2. CASE ClosedStarts' = ClosedStarts
  BY <1>1, <1>2, StreamStutters
<1>3. ASSUME NEW g \in Starts \ ClosedStarts, ClosedStarts' = ClosedStarts \cup {g}
      PROVE  Promised!Next
  <2>1. Promised!Close(g)
    BY <1>1, <1>3 DEF Promised!Close, Promised!viewers, ClosedStarts, ViewerState
  <2> QED
    BY <2>1 DEF Promised!Next
<1> QED
  BY <1>2, <1>3, SessionCloses DEF Session, PInv, IInv

\* A tag is sent on a stream that is not closed.
LEMMA SendTagSends ==
    ASSUME PInv, NEW g \in Starts, SendTag(g)
    PROVE  Promised!Next
<1>1. UNCHANGED <<ViewerState, channel, joined, got>>
  BY DEF SendTag, receiver, ViewerState
<1>2. g \notin ClosedStarts
  BY DEF SendTag, ClosedStarts, Closed
<1>3. ClosedStarts' = ClosedStarts /\ sent' = [sent EXCEPT ![g] = @ + 1]
  BY DEF SendTag, ClosedStarts, Closed, session
<1>4. Promised!Send(g)
  BY <1>1, <1>2, <1>3 DEF Promised!Send, Promised!viewers, ClosedStarts, ViewerState
<1> QED
  BY <1>4 DEF Promised!Next

\* A subscription joins the stream that is in the slot: it is not closed.
LEMMA SubscribeJoins ==
    ASSUME PInv, NEW v \in Viewers, Subscribe(v)
    PROVE  Promised!Next
<1>1. video_tx \in Starts /\ video_tx \notin ClosedStarts
  BY SessionTypes DEF Subscribe, PInv, IInv, ClosedStarts, Closed
<1>2. client[v] = "admitted" /\ client' = [client EXCEPT ![v] = "streaming"]
  BY DEF Subscribe
<1>3. ViewerState' = [ViewerState EXCEPT ![v] = "streaming"] /\ ViewerState[v] = "outside"
  BY <1>2 DEF ViewerState, PInv, IInv, ViewersTypeOK
<1>4. /\ channel' = [channel EXCEPT ![v] = video_tx]
      /\ joined' = [joined EXCEPT ![v] = sent[video_tx]]
      /\ UNCHANGED <<sent, ClosedStarts, got>>
  BY DEF Subscribe, server, session, ClosedStarts, Closed
<1>5. PICK g \in Starts : g = video_tx
  BY <1>1
<1>6. Promised!Join(v, g)
  BY <1>1, <1>3, <1>4, <1>5 DEF Promised!Join, ClosedStarts, ViewerState
<1> QED
  BY <1>6 DEF Promised!Next

\* The body ends when its stream has ended and all of it has been read.
LEMMA BodyEndsFinishes ==
    ASSUME PInv, NEW v \in Viewers, BodyEnds(v)
    PROVE  Promised!Finish(v)
<1> DEFINE s == got[v]
<1>1. /\ client[v] = "streaming" /\ forwarder[v] = "ended" /\ queue[v] = <<>>
      /\ client' = [client EXCEPT ![v] = "finished"]
      /\ UNCHANGED <<sent, channel, joined, got>>
  BY DEF BodyEnds, server, receiver, history
<1>2. channel[v] # None /\ channel[v] \in Starts /\ held[v] = NoChunk
  BY <1>1, HttpFlvAssumption DEF PInv, IInv, ViewersTypeOK, ViewerOK, GateOK, LifeOK
<1>3. ViewerState' = [ViewerState EXCEPT ![v] = "finished"] /\ ViewerState[v] = "streaming"
  BY <1>1 DEF ViewerState, PInv, IInv, ViewersTypeOK
<1>4. s \in Seq(Chunks) /\ Taken(v) = s
  <2>1. s \in Seq(Chunks)
    BY DEF PInv, IInv, ViewersTypeOK
  <2> QED
    BY <1>1, <1>2, <2>1, ConcatEmptySeq DEF Taken
<1>5. channel[v] \in ClosedStarts /\ ClosedStarts' = ClosedStarts
  BY <1>1, <1>2 DEF PInv, PromiseOK, ClosedStarts, BodyEnds, server, session, Closed
<1>6. /\ sent[channel[v]] \in Nat /\ pos[v] \in Nat /\ joined[v] \in Nat
      /\ pos[v] = sent[channel[v]] + 1
  <2>1. sent[channel[v]] \in Nat /\ pos[v] \in Nat /\ joined[v] \in Nat
    BY <1>2, HttpFlvAssumption DEF PInv, IInv, ViewersTypeOK
  <2>2. pos[v] > sent[channel[v]] /\ pos[v] <= sent[channel[v]] + 1
    BY <1>1, <1>2 DEF PInv, IInv, ViewerOK, LifeOK, ReachOK
  <2> QED
    BY <2>1, <2>2
<1>7. /\ joined[v] < pos[v]
      /\ \A i \in 1 .. Len(s) : joined[v] < s[i].tag /\ s[i].tag < pos[v]
      /\ \A n \in joined[v] + 1 .. pos[v] - 1 :
            (\E i \in 1 .. Len(s) : s[i].tag = n) \/ n + Capacity <= sent[channel[v]]
      /\ \A i, j \in 1 .. Len(s) : i < j => s[i].tag < s[j].tag
      /\ Len(s) \in Nat /\ \A i \in 1 .. Len(s) : s[i].tag \in Nat
  BY <1>1, <1>2, <1>4, TakenTags
     DEF PInv, PromiseOK, TakenOrDropped, IInv, ViewerOK, StreamOK, WellFormed, UpTo
<1>8. s = <<>> <=> Len(s) = 0
  BY <1>4, EmptySeq
<1> HIDE DEF s
<1>9. Len(s) = 0 => joined[v] = sent[channel[v]]
  <2> SUFFICES ASSUME Len(s) = 0, joined[v] # sent[channel[v]] PROVE FALSE
    OBVIOUS
  <2>1. sent[channel[v]] \in joined[v] + 1 .. pos[v] - 1
    BY <1>6, <1>7
  <2> QED
    BY <1>6, <1>7, <2>1, HttpFlvAssumption
<1>10. Len(s) # 0 => s[Len(s)].tag = sent[channel[v]]
  <2> SUFFICES ASSUME Len(s) # 0 PROVE s[Len(s)].tag = sent[channel[v]]
    OBVIOUS
  <2>1. Len(s) \in 1 .. Len(s)
    BY <1>7
  <2>2. s[Len(s)].tag <= sent[channel[v]] /\ joined[v] < sent[channel[v]]
    BY <1>6, <1>7, <2>1
  <2>3. sent[channel[v]] \in joined[v] + 1 .. pos[v] - 1
    BY <1>6, <2>2
  <2>4. ~(sent[channel[v]] + Capacity <= sent[channel[v]])
    BY <1>6, HttpFlvAssumption
  <2>5. PICK i \in 1 .. Len(s) : s[i].tag = sent[channel[v]]
    BY <1>7, <2>3, <2>4
  <2>6. i = Len(s) \/ s[i].tag < s[Len(s)].tag
    BY <1>7, <2>1, <2>5
  <2> QED
    BY <1>6, <1>7, <2>1, <2>2, <2>5, <2>6
<1>11. Promised!Latest(v) = sent[channel[v]]
  BY <1>8, <1>9, <1>10 DEF Promised!Latest, s
<1> QED
  BY <1>1, <1>3, <1>5, <1>11 DEF Promised!Finish, ClosedStarts, ViewerState

\* A client that leaves.
LEMMA ClientLeavesLeaves ==
    ASSUME PInv, NEW v \in Viewers, ClientLeaves(v)
    PROVE  Promised!Leave(v)
<1>1. /\ client[v] = "streaming" /\ client' = [client EXCEPT ![v] = "left"]
      /\ UNCHANGED <<sent, channel, joined, got, ClosedStarts>>
  BY DEF ClientLeaves, server, session, receiver, history, ClosedStarts, Closed
<1>2. ViewerState' = [ViewerState EXCEPT ![v] = "left"] /\ ViewerState[v] = "streaming"
  BY <1>1 DEF ViewerState, PInv, IInv, ViewersTypeOK
<1> QED
  BY <1>1, <1>2 DEF Promised!Leave, ClosedStarts, ViewerState

\* Every step is one of the stream, or none.
LEMMA StepRefines ==
    ASSUME PInv, [Next]_vars
    PROVE  Promised!Next \/ UNCHANGED Promised!vars
<1>1. CASE Session \/ \E g \in Starts : SendTag(g)
  BY <1>1, SessionRefines, SendTagSends
<1>2. ASSUME NEW v \in Viewers, Gate(v) \/ Forbidden(v) \/ NotFound(v) PROVE UNCHANGED Promised!vars
  <2>1. UNCHANGED <<sent, ClosedStarts, channel, joined, got>>
    BY <1>2 DEF Gate, Forbidden, NotFound, server, session, receiver, history, ClosedStarts, Closed
  <2>2. /\ client[v] \in {"idle", "admitted"} /\ client'[v] \in {"admitted", "forbidden", "refused"}
        /\ client' = [client EXCEPT ![v] = client'[v]]
    BY <1>2 DEF Gate, Forbidden, NotFound, PInv, IInv, ViewersTypeOK
  <2>3. ViewerState' = ViewerState
    BY <2>2 DEF ViewerState, PInv, IInv, ViewersTypeOK
  <2> QED
    BY <2>1, <2>3, StreamStutters
<1>3. ASSUME NEW v \in Viewers, Forwarding(v) PROVE UNCHANGED Promised!vars
  <2>1. UNCHANGED <<sent, ClosedStarts, channel, joined, got, ViewerState>>
    BY <1>3 DEF Forwarding, Receive, Lagged, ChannelClosed, Forward, ForwardFails,
                server, session, receiver, history, ClosedStarts, Closed, ViewerState
  <2> QED
    BY <2>1, StreamStutters
<1>4. ASSUME NEW v \in Viewers, Subscribe(v) PROVE Promised!Next
  BY <1>4, SubscribeJoins
<1>5. ASSUME NEW v \in Viewers, ClientReads(v) \/ BodyEnds(v) \/ ClientLeaves(v)
      PROVE  Promised!Next
  BY <1>5, ReadDelivers, BodyEndsFinishes, ClientLeavesLeaves DEF Promised!Next
<1>6. CASE UNCHANGED vars
  <2>1. UNCHANGED <<sent, ClosedStarts, ViewerState, channel, joined, got>>
    BY <1>6 DEF vars, viewers, server, session, receiver, history, ClosedStarts, Closed, ViewerState
  <2> QED
    BY <2>1, StreamStutters
<1> QED
  BY <1>1, <1>2, <1>3, <1>4, <1>5, <1>6 DEF Next

\* HttpFlv implements TagStream: for any number of viewers, starts and tags and any
\* capacities, receivers, forwarders and queues deliver the stream with no other gaps
\* than those the channel makes, and end it behind its last tag (http_flv.rs:258-283).
THEOREM DeliversTheStream == Spec => TagStreamSpec
<1>1. Init => Promised!Init
  <2> SUFFICES ASSUME Init PROVE Promised!Init
    OBVIOUS
  <2>1. ClosedStarts = {}
    BY DEF Init, VS!Init, ClosedStarts, Closed
  <2>2. ViewerState = [v \in Viewers |-> "outside"]
    BY DEF Init, ViewerState
  <2> QED
    BY <2>1, <2>2 DEF Init, Promised!Init, ClosedStarts, ViewerState
<1>2. PInv /\ [Next]_vars => [Promised!Next]_Promised!vars
  BY StepRefines
<1> QED
  BY <1>1, <1>2, PromiseInvariance, PTL DEF Spec, TagStreamSpec, Promised!Spec
===============================================================================

------------------------------- MODULE HttpFlv -------------------------------
(***************************************************************************)
(* The viewers of one session (src/src/video/http_flv.rs) and the          *)
(* broadcast channel that joins them to the session's pipelines            *)
(* (src/src/video/mod.rs).  A GET of stream1.flv subscribes to the channel *)
(* and spawns a forwarder, which reads tags from its receiver and sends    *)
(* them as chunks into a bounded queue that is the body of the response.   *)
(*                                                                         *)
(* The session's own steps are those of VideoServer, lock by lock: its     *)
(* calls may overlap, and a request may come between any two of them; a    *)
(* request's gate and its subscription are two reads.  Start g has channel *)
(* g.  Its tags are numbered in the order they are sent: 1 is the script   *)
(* tag, 2 the sequence header, the others are frames (Pipeline shows that  *)
(* they come in this order).  The channel is external                      *)
(* (tokio::sync::broadcast): it keeps the last Capacity tags, and a        *)
(* receiver that has fallen further behind is told so and goes on with the *)
(* oldest tag kept.                                                        *)
(***************************************************************************)
EXTENDS Naturals, Sequences

CONSTANTS
    Starts, WS, None, \* those of VideoServer
    Viewers,    \* GET requests for the stream
    MaxTags,    \* bound: tags of one pipeline
    Capacity,   \* of the broadcast channel
    QueueSize   \* of a response's queue of chunks

ASSUME HttpFlvAssumption ==
    /\ WS \notin Starts /\ None \notin Starts \cup {WS}
    /\ MaxTags \in Nat
    /\ Capacity \in Nat \ {0} /\ QueueSize \in Nat \ {0}

VARIABLES
    \* the session: the variables of VideoServer
    pc, leaving, video_tx, audio_tx, armed_origin, video_task,
    pipeline, aborted, reader, clash,
    \* the channels and the viewers
    sent,      \* tags sent so far per channel
    foreign,   \* the request has an Origin, and it is not the camera's
    client,    \* the viewer's side of the connection
    forwarder, \* its forwarder task
    channel,   \* the channel it is subscribed to
    pos,       \* the tag its receiver reads next
    first,     \* the forwarder has not yet sent a chunk
    held,      \* the chunk it waits to put in the queue
    queue,     \* chunks in the response's queue
    got,       \* chunks the client has received
    passed,    \* the starts that had armed when the gate let it pass (history)
    joined,    \* tags sent before the viewer subscribed (history)
    overrun    \* the channel has dropped a tag the viewer had not read (history)

VS == INSTANCE VideoServer

session == <<pc, leaving, video_tx, audio_tx, armed_origin, video_task,
             pipeline, aborted, reader, clash>>
server == <<session, sent>>
receiver == <<channel, pos>>
history == <<passed, joined, overrun>>
viewers == <<foreign, client, forwarder, receiver, first, held, queue, got, history>>
vars == <<server, viewers>>

NoChunk == [flv |-> FALSE, tag |-> 0]
------------------------------------------------------------------------------
Init ==
    /\ VS!Init
    /\ sent = [g \in Starts |-> 0]
    /\ foreign \in [Viewers -> BOOLEAN]
    /\ client = [v \in Viewers |-> "idle"]
    /\ forwarder = [v \in Viewers |-> "none"]
    /\ channel = [v \in Viewers |-> None]
    /\ pos = [v \in Viewers |-> 1]
    /\ first = [v \in Viewers |-> TRUE]
    /\ held = [v \in Viewers |-> NoChunk]
    /\ queue = [v \in Viewers |-> <<>>]
    /\ got = [v \in Viewers |-> <<>>]
    /\ passed = [v \in Viewers |-> {}]
    /\ joined = [v \in Viewers |-> 0]
    /\ overrun = [v \in Viewers |-> FALSE]

\* A step of the session: a message, a lock of start or stop, or one of its tasks.
Session == VS!Next /\ UNCHANGED <<sent, viewers>>

Oldest(g) == IF sent[g] < Capacity THEN 1 ELSE sent[g] - Capacity + 1

Subscribed(v) == forwarder[v] \in {"receiving", "sending"}

\* The pipeline sends a tag, aborted or not until it is dropped; it does not wait
\* for receivers.
SendTag(g) ==
    /\ pipeline[g] = "running"
    /\ sent[g] < MaxTags
    /\ sent' = [sent EXCEPT ![g] = @ + 1]
    /\ overrun' = [v \in Viewers |->
                     overrun[v] \/ (Subscribed(v) /\ channel[v] = g /\ sent[g] + 1 - pos[v] >= Capacity)]
    /\ UNCHANGED <<session, foreign, client, forwarder, receiver, first, held, queue, got,
                   passed, joined>>

\* All senders of the channel are gone: the slot's and that of start, which it
\* gives to the pipeline it spawns.
Closed(g) == video_tx # g /\ pipeline[g] = "ended"
------------------------------------------------------------------------------
(***************************************************************************)
(* Requests and forwarders.  The slots are read with try_read, so that one *)
(* that is being written counts as empty.  When the write empties it, that *)
(* is what it holds after the write, and when it was empty, before; only a *)
(* write over another start's value makes a difference (Writing).          *)
(***************************************************************************)

Writing(label) == \E s \in Starts : pc[s] = label

\* The starts that have armed their origin, and may have been disarmed since.
Armed == {s \in Starts : pc[s] \in {"set_video", "set_audio", "store", "done"}}

\* An Origin must be the armed one; with none armed, or without an Origin,
\* everybody passes.
OriginAllowed(v) == foreign[v] => ~armed_origin \/ Writing("arm")

\* GET stream1.flv passes the gate.
Gate(v) ==
    /\ client[v] = "idle"
    /\ OriginAllowed(v)
    /\ client' = [client EXCEPT ![v] = "admitted"]
    /\ passed' = [passed EXCEPT ![v] = Armed]
    /\ UNCHANGED <<server, foreign, forwarder, receiver, first, held, queue, got, joined, overrun>>

\* 403.
Forbidden(v) ==
    /\ client[v] = "idle"
    /\ armed_origin /\ foreign[v]
    /\ client' = [client EXCEPT ![v] = "forbidden"]
    /\ UNCHANGED <<server, foreign, forwarder, receiver, first, held, queue, got, history>>

\* A stream is active: the receiver sees what is sent from now on.
Subscribe(v) ==
    /\ client[v] = "admitted"
    /\ video_tx # None
    /\ client' = [client EXCEPT ![v] = "streaming"]
    /\ forwarder' = [forwarder EXCEPT ![v] = "receiving"]
    /\ channel' = [channel EXCEPT ![v] = video_tx]
    /\ pos' = [pos EXCEPT ![v] = sent[video_tx] + 1]
    /\ joined' = [joined EXCEPT ![v] = sent[video_tx]]
    /\ UNCHANGED <<server, foreign, first, held, queue, got, passed, overrun>>

\* 404: no stream is active.
NotFound(v) ==
    /\ client[v] = "admitted"
    /\ video_tx = None \/ Writing("set_video")
    /\ client' = [client EXCEPT ![v] = "refused"]
    /\ UNCHANGED <<server, foreign, forwarder, receiver, first, held, queue, got, history>>

\* Mutant of Chunk: every chunk carries the FLV header.
ChunkWithHeader(v) == [flv |-> TRUE, tag |-> pos[v]]

\* The chunk made of the tag read: the first one carries the FLV header.
Chunk(v) == [flv |-> first[v], tag |-> pos[v]]

\* The forwarder reads the next tag its receiver has.
Receive(v) ==
    /\ forwarder[v] = "receiving"
    /\ pos[v] \in Oldest(channel[v]) .. sent[channel[v]]
    /\ held' = [held EXCEPT ![v] = Chunk(v)]
    /\ first' = [first EXCEPT ![v] = FALSE]
    /\ pos' = [pos EXCEPT ![v] = @ + 1]
    /\ forwarder' = [forwarder EXCEPT ![v] = "sending"]
    /\ UNCHANGED <<server, foreign, client, channel, queue, got, history>>

\* Mutant of Lagged: the viewer is subscribed anew.
LaggedAnew(v) ==
    /\ forwarder[v] = "receiving"
    /\ pos[v] < Oldest(channel[v])
    /\ pos' = [pos EXCEPT ![v] = sent[channel[v]] + 1]
    /\ UNCHANGED <<server, foreign, client, forwarder, channel, first, held, queue, got, history>>

\* The receiver fell behind: it goes on with the oldest tag kept.
Lagged(v) ==
    /\ forwarder[v] = "receiving"
    /\ pos[v] < Oldest(channel[v])
    /\ pos' = [pos EXCEPT ![v] = Oldest(channel[v])]
    /\ UNCHANGED <<server, foreign, client, forwarder, channel, first, held, queue, got, history>>

\* Mutant of ChannelClosed: tags that are still in the channel are not read.
ChannelClosedAtOnce(v) ==
    /\ forwarder[v] = "receiving"
    /\ Closed(channel[v])
    /\ forwarder' = [forwarder EXCEPT ![v] = "ended"]
    /\ UNCHANGED <<server, foreign, client, receiver, first, held, queue, got, history>>

\* The channel is closed and read to its end.
ChannelClosed(v) ==
    /\ forwarder[v] = "receiving"
    /\ pos[v] > sent[channel[v]]
    /\ Closed(channel[v])
    /\ forwarder' = [forwarder EXCEPT ![v] = "ended"]
    /\ UNCHANGED <<server, foreign, client, receiver, first, held, queue, got, history>>

\* Mutant of Forward: a chunk the queue has no room for is dropped.
ForwardOrDrop(v) ==
    /\ forwarder[v] = "sending"
    /\ client[v] # "left"
    /\ queue' = [queue EXCEPT ![v] = IF Len(@) < QueueSize THEN Append(@, held[v]) ELSE @]
    /\ held' = [held EXCEPT ![v] = NoChunk]
    /\ forwarder' = [forwarder EXCEPT ![v] = "receiving"]
    /\ UNCHANGED <<server, foreign, client, receiver, first, got, history>>

\* Mutant of Forward: the queue has no bound.
ForwardUnbounded(v) ==
    /\ forwarder[v] = "sending"
    /\ client[v] # "left"
    /\ queue' = [queue EXCEPT ![v] = Append(@, held[v])]
    /\ held' = [held EXCEPT ![v] = NoChunk]
    /\ forwarder' = [forwarder EXCEPT ![v] = "receiving"]
    /\ UNCHANGED <<server, foreign, client, receiver, first, got, history>>

\* The forwarder waits for room in the queue.
Forward(v) ==
    /\ forwarder[v] = "sending"
    /\ client[v] # "left"
    /\ Len(queue[v]) < QueueSize
    /\ queue' = [queue EXCEPT ![v] = Append(@, held[v])]
    /\ held' = [held EXCEPT ![v] = NoChunk]
    /\ forwarder' = [forwarder EXCEPT ![v] = "receiving"]
    /\ UNCHANGED <<server, foreign, client, receiver, first, got, history>>

\* The forwarder notices only here that its client has left.
ForwardFails(v) ==
    /\ forwarder[v] = "sending"
    /\ client[v] = "left"
    /\ held' = [held EXCEPT ![v] = NoChunk]
    /\ forwarder' = [forwarder EXCEPT ![v] = "ended"]
    /\ UNCHANGED <<server, foreign, client, receiver, first, queue, got, history>>

ClientReads(v) ==
    /\ client[v] = "streaming"
    /\ queue[v] # <<>>
    /\ got' = [got EXCEPT ![v] = Append(@, Head(queue[v]))]
    /\ queue' = [queue EXCEPT ![v] = Tail(@)]
    /\ UNCHANGED <<server, foreign, client, forwarder, receiver, first, held, history>>

\* The body ends with the forwarder, once the queue is read.
BodyEnds(v) ==
    /\ client[v] = "streaming"
    /\ forwarder[v] = "ended"
    /\ queue[v] = <<>>
    /\ client' = [client EXCEPT ![v] = "finished"]
    /\ UNCHANGED <<server, foreign, forwarder, receiver, first, held, queue, got, history>>

\* The client closes its connection, and the queue goes with it.
ClientLeaves(v) ==
    /\ client[v] = "streaming"
    /\ client' = [client EXCEPT ![v] = "left"]
    /\ queue' = [queue EXCEPT ![v] = <<>>]
    /\ UNCHANGED <<server, foreign, forwarder, receiver, first, held, got, history>>
------------------------------------------------------------------------------
Forwarding(v) ==
    Receive(v) \/ Lagged(v) \/ ChannelClosed(v) \/ Forward(v) \/ ForwardFails(v)

Next ==
    \/ Session
    \/ \E g \in Starts : SendTag(g)
    \/ \E v \in Viewers : \/ Gate(v) \/ Forbidden(v) \/ Subscribe(v) \/ NotFound(v)
                          \/ Forwarding(v)
                          \/ ClientReads(v) \/ BodyEnds(v) \/ ClientLeaves(v)

\* The runtime polls what is ready: the calls and tasks of VideoServer, and the
\* forwarders.  A client reads what is sent to it or goes away; nothing in the
\* code makes it.
Fairness ==
    /\ VS!Fairness
    /\ \A v \in Viewers : WF_vars(Forwarding(v)) /\ WF_vars(ClientReads(v) \/ BodyEnds(v))

Spec == Init /\ [][Next]_vars
FairSpec == Spec /\ Fairness
------------------------------------------------------------------------------
(***************************************************************************)
(* Properties.                                                             *)
(***************************************************************************)

Chunks == [flv : BOOLEAN, tag : 1 .. MaxTags]

\* The values the variables take; the queue of a response is bounded.
ViewersTypeOK ==
    /\ sent \in [Starts -> 0 .. MaxTags]
    /\ client \in [Viewers -> {"idle", "admitted", "forbidden", "refused",
                               "streaming", "left", "finished"}]
    /\ foreign \in [Viewers -> BOOLEAN]
    /\ forwarder \in [Viewers -> {"none", "receiving", "sending", "ended"}]
    /\ channel \in [Viewers -> Starts \cup {None}]
    /\ pos \in [Viewers -> 1 .. MaxTags + 1]
    /\ first \in [Viewers -> BOOLEAN]
    /\ held \in [Viewers -> Chunks \cup {NoChunk}]
    /\ queue \in [Viewers -> Seq(Chunks)] /\ got \in [Viewers -> Seq(Chunks)]
    /\ \A v \in Viewers : Len(queue[v]) <= QueueSize
    /\ passed \in [Viewers -> SUBSET Starts]
    /\ joined \in [Viewers -> 0 .. MaxTags]
    /\ overrun \in [Viewers -> BOOLEAN]

TypeOK == VS!TypeOK /\ ViewersTypeOK

\* What has been read for the viewer, in order.
Taken(v) ==
    IF client[v] = "left" THEN got[v]
    ELSE got[v] \o queue[v] \o (IF held[v] = NoChunk THEN <<>> ELSE <<held[v]>>)

\* A viewer gets the FLV header once, in its first chunk, and then tags of one
\* pipeline in the order they were sent, none twice (http_flv.rs:241-244).
StreamIsWellFormed ==
    \A v \in Viewers :
        LET s == Taken(v) IN
        /\ \A i \in 1 .. Len(s) : s[i].flv <=> i = 1
        /\ \A i, j \in 1 .. Len(s) : i < j => s[i].tag < s[j].tag

\* A viewer misses no tag sent after it subscribed unless it fell behind by more
\* than the channel holds: a slow client makes its forwarder wait, and what it
\* waits with is not dropped (http_flv.rs:258-283).
NoGapUnlessLagging ==
    \A v \in Viewers :
        (Subscribed(v) /\ client[v] = "streaming" /\ ~overrun[v]) =>
            /\ \A i \in 1 .. Len(Taken(v)) : Taken(v)[i].tag = joined[v] + i
            /\ pos[v] = joined[v] + Len(Taken(v)) + 1

\* A finished stream was not cut short: the client has everything that was sent.
FinishedIsComplete ==
    \A v \in Viewers :
        (client[v] = "finished" /\ ~overrun[v]) =>
            Len(got[v]) = sent[channel[v]] - joined[v]

\* After a stop, or the one a new start begins with, the streams of the old
\* pipeline end, those of slow and of departed clients too, as long as no two
\* calls overlapped until the sender left its slot, whatever overlaps after that:
\* "Drop the broadcast senders so subscribers see the stream end" (mod.rs:195).
\* When a stop cuts into a start past mod.rs:154, or two starts overlap, nobody
\* may be left to abort the pipeline, and its viewers stay.
StoppedStreamsEnd ==
    \A v \in Viewers :
        (clash = {} /\ Subscribed(v) /\ video_tx # channel[v]) ~> ~Subscribed(v)

\* No foreign page gets the stream of a pipeline whose start had armed its origin
\* when the request came to the gate.  (It may get one that was armed between the
\* gate and the subscription, which are two reads.)
ForeignPageIsRefused ==
    \A v \in Viewers : (foreign[v] /\ channel[v] # None) => channel[v] \notin passed[v]

\* That holds as long as no two calls have overlapped, wherever between two locks
\* of start or stop a request comes to the gate and to its subscription: an origin
\* is armed before and disarmed after the stream it guards is in the slot
\* (mod.rs:149-154, 197-200).
ForeignPageGetsNothing == clash = {} => ForeignPageIsRefused

\* What a viewer sees of this is a stream of tags that skips one only when the
\* channel no longer has it.
Promised == INSTANCE TagStream WITH
    Streams <- Starts,
    NoStream <- None,
    closed <- {g \in Starts : Closed(g)},
    viewer <- [v \in Viewers |-> IF client[v] \in {"streaming", "left", "finished"}
                                 THEN client[v] ELSE "outside"],
    stream <- channel,
    view <- got

\* The receivers, forwarders and queues implement that stream, whatever the viewers
\* and the session do: a tag that was read for a viewer is not lost on its way
\* through forwarder and queue (http_flv.rs:258-283), a response is not ended before
\* its stream is and all that was sent has been delivered, and nobody joins a stream
\* that was stopped (mod.rs:94-105).
TagStreamSpec == Promised!Spec

\* A viewer that gets frames got the sequence header first: it is "cached so new
\* clients receive it on connect" (flv_muxer.rs:102).  The code does not send it
\* to a client that connects after it was broadcast.
FramesFollowHeader ==
    \A v \in Viewers : \A i \in DOMAIN got[v] :
        got[v][i].tag > 2 => \E j \in DOMAIN got[v] : got[v][j].tag = 2
==============================================================================

# fosipcore: specifications, model checks and proofs

fosipcore is a Rust/tokio process that stands in for a camera vendor's local
"core": a browser tab showing the camera's own web page opens a WebSocket to it,
logs in to the camera through it, and plays video it pulls from the camera over
RTSP and serves back over HTTP as FLV. This directory holds TLA+ modules of its
concurrent core, the TLC runs that check them and the TLAPS proofs about them.
Source paths are relative to the directory that holds `src/` and `tla/`.

## 1. The system

| Component | State | Operations | Talks to | Hard because |
|---|---|---|---|---|
| Session core, `src/src/core.rs` | per connection `SessionState`: camera, user, pwd, video, live_port, video_listener | one message at a time: login, re-login, logout, openVideo, closeVideo, CGI, snapshot; teardown on every exit | pool, VideoServer, the HTTP-FLV listener task it spawns, the CGI proxy | a tab closes while a handler awaits; openVideo answers before its detached `start` ran; a DispatchAction carries a port nobody else knows |
| Live-port pool, `src/src/video/ports.rs` | atomic u16 counter, set of handed-out ports behind a lock | `alloc`, `release` | all sessions, the operating system's port space | the probe is an await and reserves nothing; the counter wraps; the range may wrap |
| VideoServer, `src/src/video/mod.rs` | two broadcast senders, armed origin, pipeline handle, each behind its own lock | `start`, `stop`, `subscribe_*`, `origin_allowed`; the pipeline task and its detached RTSP reader | core, HTTP-FLV, RTSP client, muxers | calls interleave lock by lock; abort reaches the pipeline, not the reader |
| HTTP-FLV server, `src/src/video/http_flv.rs` | one listener per plane, one task per connection, one forwarder per stream | accept, origin gate, playlist, stream | VideoServer | late joiners, lagging receivers, connections that outlive the listener |
| RTSP client, `src/src/video/rtsp_client.rs` | socket with its BufReader, CSeq, session | OPTIONS, DESCRIBE with digest, SETUP per track, PLAY, reconnect, interleaved framing | camera | retries after 401, stale session, no read timeout, bytes left in a buffer |
| RTP depacketiser, `src/src/video/rtp_parser.rs` | FU-A buffer | single NAL, FU-A, STAP-A | pipeline | lost fragments, size cap |
| FLV muxer, `src/src/video/flv_muxer.rs` | SPS, PPS, header sent, first timestamp | `process_nal` | pipeline | sent-once header, parameter changes |
| Audio, `src/src/audio/` | sample queue, sample count, encoder, header sent | G.711 decode, AAC encode, FLV tags | pipeline | batching, timestamps, error in mid-batch |
| Address checks, `src/src/net.rs` | none | resolve, block list, Origin match | login, gate | mapped addresses, default ports |
| CGI proxy, `src/src/proxy/` | shared HTTP client | login, command, snapshot, init info | camera | caps, redaction |
| Protocol messages, `src/src/protocol/` | none | parse a frame, build an answer | core | which answer a message has, and in which order |
| Service manager, `src/src/service_manager.rs` | none | answers which core port to use | browser | none found |
| Entry, `src/src/main.rs` | none | starts the two servers | | |

What makes them correct:

* **Core.** No port leaks, whatever is refused, fails or disconnects; no two
  sessions hold one port; a session is armed as a whole; the camera is always
  dialled at the address pinned by the first login; a closed tab ends and gives
  everything back.
* **Dialogue of tab and core.** The tab knows the port its session has, whatever
  it asked for and in whatever order; a tab that vanishes with messages and
  answers under way leaves nothing.
* **Pool.** A port is handed out only while nobody holds it; `None` only when
  nothing is free.
* **VideoServer.** A running pipeline can always be stopped; senders, origin and
  handle belong to the same start; after a stop nothing is left; an aborted
  stream closes its RTSP socket.
* **HTTP-FLV.** A session's live port is served by that session's listener
  (checked in `Core`); a viewer's stream is in order, has gaps only if the viewer
  lags, and only those the channel made, and ends when the pipeline is stopped; a
  page that is not the camera's gets no stream of a camera that is armed.
* **RTSP client.** A digest challenge is used on its own connection, an answer is
  taken for that to its own request, PLAY follows the SETUP of every track, retries
  end; once it has found a frame the reader of packets stays in step with the
  camera.
* **Depacketiser, muxer, transcoder.** Whole units are parsed whatever was lost
  before; the buffer is bounded; the header precedes the frames; every sample is in
  one tag, which tells its time.

## 2. The modules

| Module | Models | Role |
|---|---|---|
| `PortLease` | what the pool promises: exclusive leases | abstract specification |
| `PortPool` | `PortPool::alloc` candidate by candidate, `release`, foreign binds | implements `PortLease` |
| `PortPoolProofs` | theorems about `PortPool` | proofs |
| `VideoServer` | one session's `start`/`stop`, pipelines and readers | checked on its own |
| `VideoServerProofs` | theorems about `VideoServer` | proofs |
| `Core` | connections, logins, planes, listener tasks, teardown | composes sessions with the pool and the listeners; abstract specification of `Dialogue` |
| `CoreProofs` | theorems about `Core` | proofs |
| `Dialogue` | a tab's way to its core, its messages, their answers, requests to the camera | implements `Core` (`C == INSTANCE Core WITH ...`) |
| `DialogueProofs` | the refinement, and theorems about `Dialogue` | proofs; instantiates `CoreProofs` |
| `Interleaved` | `read_rtp_packet`: the framing of packets after PLAY | part of `RtspClient` |
| `RtspClient` | the RTSP handshake, the camera's answers and its stream | composes the handshake with `Interleaved` |
| `RtspClientProofs` | theorems about `RtspClient` | proofs |
| `RtpParser` | the depacketiser: its state, `parse`, what it returns | part of `Pipeline` |
| `FlvMuxer` | `process_nal`: its state and the tags it returns | part of `Pipeline` |
| `AudioTranscoder` | `process_rtp` and `push_pcm`: the sample queue, tags and timestamps | part of `Pipeline` |
| `Pipeline` | the loop of `run_pipeline` on the camera's packets | composes the three |
| `PipelineProofs` | theorems about `Pipeline`: types, and what is parsed | proofs |
| `MediaProofs` | theorems about `Pipeline`: what the tags are | proofs; extends `PipelineProofs` |
| `TagStream` | what a viewer is promised: the tags of one stream, with gaps only where the channel makes them | abstract specification |
| `HttpFlv` | the channels of a session's pipelines, the gate, forwarders and clients | composes the viewers with the session (`VS == INSTANCE VideoServer`); implements `TagStream`; its tags are those of `Pipeline` |
| `HttpFlvProofs` | theorems about `HttpFlv` | proofs |

### PortPool

| TLA+ | Code |
|---|---|
| `next`, `in_use` | the fields of the same names; `CounterMod` is 2^16, `PortSpace` is 2^16 |
| `AllocBegin` | `alloc` gets the `in_use` lock (`walker` holds it) |
| `AllocSkip`, `AllocSome` | one iteration: `fetch_add`, candidate, `in_use` test, probe |
| `AllocNone` | the loop ran out |
| `Release` | `release`, which needs the lock |
| `bound`, `Occupy`, `Vacate` | ports of other processes; they change between two probes (external) |
| `tried`, `skipped` | the loop variable, and a history variable: the ports this walk passed over |

The listener of the holder of a port is not in `bound`: its port is in `in_use`,
which is tested first. (`Core` has the listeners.) A socket that is not yet
closed when its port is released counts as one of `bound`. `PortPool` implements
`PortLease` with the identity mapping on `lease`.

### VideoServer

The callers are the session's handler (`WS`), which awaits `stop`, and one task
per openVideo, which runs `start`; `start` begins with `stop`. `pc[c]` names the
lock a caller takes next, and every lock is one action. `pipeline[s]` and
`reader[s]` are the two tasks of start `s`; `aborted` are the pipelines
`abort()` was called on, which end at their next yield. A pipeline that fails to
connect, or whose reader leaves, ends without clearing any slot, as in the code.
`clash` is a history variable that records what kind of calls overlapped: two
starts, or a stop and another call. The good properties that overlap destroys
are stated under the condition that it did not happen, and the runs
`video_server_orphan` and `http_flv_gate` show what happens when it does.

Abstracted: the RTSP handshake is one step, the media path too (a packet changes
nothing while the pipeline runs); the armed origin is a Boolean, since the
camera is pinned for the session; `stream_type` and the credentials do not
matter to any property.

### Core

| TLA+ | Code |
|---|---|
| `conn[s]` | where the connection's task is: waiting for a message, awaiting the camera's answer (`login`), gathering init info and about to apply the action (`apply`), in `teardown_video` before `pool.release` (`logout`, `closing`), ended |
| `camera`, `has_auth`, `video`, `live_port` | `SessionState`; `video_listener` is merged with `video`, as they are set and taken together |
| `local_plane`, `local_port` | `new_video` of the DispatchAction; and the `port` local of `teardown_video` |
| `listener`, `port`, `aborted` | the task spawned in `ensure_session_video`: spawned, at its bind, bound, failed, port surrendered, gone |
| `starts[v]` | the addresses that spawned `start` tasks of plane `v` will dial |
| `in_use`, `occupied` | the pool's set, and ports of other processes |

`ReusePlane`, `NewPlane` and `PoolExhausted` are the three ends of
`ensure_session_video`; `ApplyLogin` is the block that applies the
DispatchAction; `TakePlane` and `ReleasePort` are `teardown_video` before and
after the await of the pool's lock. `TakePlane` calls `stop`, whose own
interleavings are the subject of `VideoServer`; it touches no variable of
`Core`. The pool's walk is one step here; `PortPool` shows how it comes about
that what the walk returns is not in `in_use`. An early `alloc` failure at a
counter wrap (see the findings) leads to the same refusal as `PoolExhausted`.
An aborted listener that was never polled is dropped before its bind; one that
was polled binds first, because `bind` of a loopback address does not yield.
CGI, snapshot and the stubbed commands change no state of `Core`'s; `Dialogue` has
them. The Origin check makes all logins of one connection name one host, so a
camera is represented by the address its name resolved to (`Addrs`).

### Dialogue

| TLA+ | Code |
|---|---|
| `tab`, `AskPort`, `Connect` | how far the tab is: it asks the service manager for the core's port (`service_manager.rs`), then opens the core connection and gets its HELLO |
| `inbox` | messages in the socket; the loop reads one at a time, while it handles one it reads none |
| `request`, `outbox` | the message being handled, and the answers of its DispatchAction not yet sent |
| `user` | `SessionState.user` and `.pwd` |
| `resolved` | the address `validate_resolved` has passed for the login that is being handled |
| `told` | the port that the tab last heard of in an init info, until it logs out (the tab is external) |
| `ReadIgnored`, `ReadStub`, `ReadLogout`, `ReadOpen`, `ReadClose`, `ReadCamera` | the arms of `dispatch_message`; `ReadIgnored` is each of the frames that have no answer |
| `LoginRejected`, `LoginClaimed` | the checks of a login before the camera is asked |
| `Refused`, `Unreachable`, `TooManySessions`, `Authenticated`, `LoginAnswers`, `LoginDone` | `handle_login` from the camera's answer on |
| `CameraAnswers` | `handle_cgi`, `handle_snapshot`: the camera's answer or a failure |
| `Deliver`, `DeliverLost`, `SendFails` | one `ws.send`: the tab gets it; the tab is gone and the send does not notice; it does, and the loop ends |

The variables of `Core` are those of `Dialogue`, except for two that are computed:
`peer` is `Present` (the loop still has something of the tab's to handle) and
`has_auth` is `HasAuth` (`user` is set). So a tab that vanishes is gone for `Core`
when the loop has come to its end, and the messages it had sent ahead count until
they are handled or lost.


### RtspClient

| TLA+ | Code |
|---|---|
| `pc`, `waiting` | the request that `handshake` is at, and whether it awaits the answer: `options`; `describe` (`try_describe`); `challenge` and `authorize` (the two halves of `digest_describe`); `setup` (`do_setup_track`), `setup_challenge` (`fetch_setup_challenge`); `play` |
| `cseq`, `session` | the fields of the same names; a session is represented by the number of the connection that gave it |
| `challenge` | the `challenge` argument of `setup_all_tracks`, or `www_auth` |
| `conn`, `open`, `asked`, `replies`, `accepted` | the TCP connections and what is in the current one |
| `Send`, `ReadAnswer`, `ReadGarbled`, `ReadsEnd`, `Timeout` | `send_request`, `read_response` and its errors, the 3 s limit of the authorized DESCRIBE |
| `Leftover`, `part`, `torn` | what stays in the stream of an answer whose first line is none; which part of the answer it is; and a history variable, whether it happened on this connection |
| `Understand`, `NoAnswer` | what each request makes of its answer, or of having none |
| `Reconnect`, `ReconnectFails` | `reconnect`: a new connection, CSeq 1, the session kept |
| `Answer`, `CameraCloses` | the camera (external) |

The digest itself, URLs and SDP text are left out; "refused" stands for every
answer without use. Not modelled: the functions nobody calls.

Nothing compares the CSeq of an answer with that of the request: whatever is read
next is taken for the answer. An answer whose first line `parse_status_code`
cannot take, a blank line before it for instance, makes the request fail with the
rest of the answer still in the stream, and that rest may be a well-formed answer,
a header that passes for a status line (any line whose second word is a number of
16 bits), or another line that cannot be parsed. `Leftover` allows all of them, and
`AnswersMatch` says where the client gives the connection up in time and where it
does not.

After PLAY the camera sends frames (`CameraStreams`, external), and `Interleaved`
reads them. A cell of `wire` is a byte that has arrived, labelled with its frame
and its place in it; the two bytes of a length are one cell. `ReadAhead` is what
the BufReader swallowed with the answer to PLAY and `read_rtp_packet`, which takes
the socket from under it, never sees: it may end anywhere. `Resync` skips a byte
that is no `$`, `ReadFrame` reads a frame from its beginning, `ReadFalseFrame` is
what happens at a byte of a length or payload that looks like a `$`: whatever
follows passes for a channel and a length. `got` is what the reader has returned,
with frame 0 for what was no frame.

### RtpParser, FlvMuxer, AudioTranscoder, Pipeline

`Parse(p)` is what `parse` does to `fu_buffer` and `fu_active`, `Parsed(p)` what
it returns; `ProcessNal(nal)` and `Tags(nal)` likewise for `process_nal`, and
`Transcode(pcm)`, `TranscodeFails(pcm, f)` and `AudioTags(pcm)` for `process_rtp`
with `push_pcm`. The bytes of a NAL are abstracted to the camera's fragments they
are made of, so that the properties can tell a whole unit from a torn one. An end
fragment without a start is emitted by the code, with the type that the first byte
of its data happens to spell (`looks_like`). A sample is abstracted to its number,
so that the properties can tell which ones a tag holds; `Rate`, `FrameLen` and
`MaxMs` are 8000, 1024 and 2^32 - 1.

`Receive` and `ReceivePcm` are one turn of `run_pipeline`'s loop. `units` is a
history variable, what the camera has sent and which of it was lost; `packets` and
`recorded` count its audio packets and the samples in them, `accepted` are the
samples that reached the transcoder. An error of the encoder, at any frame of a
packet, leaves the queue as it was at that point, returns nothing and ends
nothing, as in the code. The timestamps of the video muxer and the layout of tags
are left out.

### HttpFlv

| TLA+ | Code |
|---|---|
| `Session` | every step of `VideoServer`, whose variables are those of `HttpFlv`: start and stop, lock by lock, overlapping as they may, and the pipeline and its reader |
| `SendTag` | the pipeline task's broadcast, until it has been dropped |
| `foreign`, `Gate`, `Forbidden`, `passed` | a request whose Origin is not the camera's; `handle_request`'s reading of the armed origin; and a history variable, the starts that had armed by then |
| `Subscribe`, `NotFound` | the second read of a request: the sender in the slot |
| `Writing` | `try_read` fails while the slot is written, and a slot that cannot be read counts as empty |
| `channel`, `pos` | a viewer's `broadcast::Receiver` |
| `forwarder`, `first`, `held` | the task spawned by `flv_stream_response`: at `recv`, or at `send` with a chunk |
| `queue` | the mpsc channel that is the response's body |
| `client`, `got` | the HTTP client |

The channel is the library's, modelled from its contract: the last `Capacity`
tags are kept, a receiver behind them gets `Lagged` and goes on with the oldest,
`Closed` comes when all senders are dropped and everything is read. A request
without an Origin is one that is not `foreign`: the gate lets it pass. Requests
for the audio stream have the same code; playlist, health and preflight answers
are fixed and change nothing.

As the session's calls may overlap, two properties have a condition, as in
`VideoServer`: `ForeignPageGetsNothing` is `ForeignPageIsRefused` as long as no two
calls overlapped (`clash = {}`), and `StoppedStreamsEnd` speaks of streams whose
sender left its slot before any two did. The other properties of viewers and the
refinement have none.

`HttpFlv` implements `TagStream`, where a viewer is nothing but the tags delivered
to it (`view` is `got`). A stream is closed when no sender of it is left (`Closed`);
`Gate`, `NotFound` and all steps of forwarders are stutters, so that receiver,
forwarder and queue may only be places where a tag waits. `Deliver` may skip a tag
that is not among the last `Capacity` ones when it is called, and no other, and
`Finish` needs the last tag to have been delivered: unlike `NoGapUnlessLagging` and
`FinishedIsComplete` this binds viewers that have lagged, too.

## 3. The runs

| Run | Instance | Shows |
|---|---|---|
| `port_pool` | 3 clients, 4 ports, base 6 of a port space of 8, counter modulo 8 | type, `NoneMeansExhausted`, `LeaseSpec` |
| `port_pool_wrap` | 3 ports, counter modulo 8 | `NoneMeansExhausted` is violated |
| `video_server` | 2 starts and the handler | `NoLostPipeline`, `SlotsAgree`, `StopLeavesNothing`, `AbortedStreamEnds` |
| `video_server_orphan` | 1 start | `ClosedTabLeavesNoPipeline` is violated |
| `core` | 2 connections, 2 planes, 2 ports, 1 address, at most 1 foreign port | `NoPortLeak`, `LeasesExclusive`, `PortServesItsSession`, `ClosedTabReturnsPort` |
| `core_relogin` | `Dialogue` with 1 tab, 1 message sent ahead, 2 planes, 1 port, 2 addresses, 1 user | `ArmedTogether`, `DialsPinnedAddress`, `TabKnowsItsPort`, `DialogueIsCore`, `ClosedTabEnds` |
| `core_shared_port` | 2 connections, 1 port | `SessionsHaveOwnPorts` is violated |
| `rtsp_client` | up to 3 tracks, any answers, one part left of each, 2 frames of 3 payload cells | `ChallengeOfConnection`, `AnswersMatch`, `PlaysWhatIsSet`, `StaysInSync`, `HandshakeEnds` |
| `pipeline` | 4 NAL units or audio packets, up to 3 fragments a unit and 3 samples a packet, a cap that two fragments fill, frames of 2 samples, timestamps up to 3 | `BufferIsSound`, `WholeUnitsAreParsed`, `OnlyUnitsAreParsed`, `HeaderThenFrames`, `TagsTellTheTime`, `NoSampleIsSkipped` |
| `http_flv` | 1 viewer, 1 start and the handler, 4 tags, a channel of 2, a queue of 1 | `StreamIsWellFormed`, `NoGapUnlessLagging`, `FinishedIsComplete`, `ForeignPageGetsNothing`, `TagStreamSpec`, `StoppedStreamsEnd` |
| `http_flv_gate` | 1 viewer, 1 start, 1 tag | `ForeignPageIsRefused` is violated |
| `http_flv_late` | 1 viewer, 1 start, 3 tags | `FramesFollowHeader` is violated |

**Bounds.** `PortPool` has no artificial bound: the counter wraps, so its state
space is finite. The instance of `port_pool` is scaled so that the range wraps
past the end of the port space (ports 6, 7, 0, 1, port 0 included), the counter
wraps several times in a behaviour, and three clients with foreign binds can
exhaust the pool. `VideoServer` bounds the number of openVideo requests: two are
the least with which starts overlap, and the handler may stop any number of
times. `Core` bounds the planes ever allocated (`MaxPlanes`) and the ports other
processes hold at once (`MaxForeign`). Two planes and two ports let two sessions
contend for a port, exhaust the pool, log out and log in again. The theorems hold
without these bounds: they are proved for every `MaxPlanes` and `MaxForeign`.
`Dialogue` adds `MaxInbox`, the messages sent ahead: one is enough for a tab to
have a message waiting while another is handled, and to vanish with it; tabs share
nothing but the pool, and `core` has two of them contend for it. `RtspClient`
bounds the tracks of the SDP (three: a first, a middle and a last one) and the
parts in which an answer may be read (`MaxParts`: with one, an answer that could
not be parsed is followed by one more that may mean anything; the theorems have
any number); the retries are finite. The frames after PLAY are bounded by `MaxFrames`; two
suffice, because the reader keeps nothing from one packet to the next but its
place in the stream: one that it finds, and one that it could miss or take for
something else. Three payload cells leave room for a false header inside a frame,
and `MaxSkip`, the largest of the lengths it may spell, lets it end within the
frame, at its end or in the next one. `Pipeline` bounds what the camera sends
(`MaxSent`), a unit's fragments (`MaxParts`) and a packet's samples (`MaxPcm`):
four units are an SPS, a PPS, one more parameter set and a frame, or a unit torn
by losses, another torn one, and a whole one after it; three fragments are a
start, a continuation and an end, and make a unit that is too long for the cap,
while two fill it to the last byte; packets of one to three samples fill less
than a frame of two, one with a rest, or two, and a failure of the encoder on the
first of two frames leaves the other in the queue for a later packet; twelve
samples at two thirds of a millisecond each reach a timestamp that saturates.
`HttpFlv` bounds starts and tags: four tags through a channel of two and a queue of
one let a viewer lag and then go on. One start, of which every lock may come before
or after every lock of the handler's stops, is enough for an origin and a sender
that disagree, and for a pipeline that is stopped at any point of its viewer's
stream; what needs a second one, that a later start has a channel of its own, is in
the theorems, which have any number of starts for each safety property of the run.
One viewer is enough, because viewers share nothing but the channel, and a sender
never waits for a receiver; the theorems have any number.

**Deadlock** is checked except in the runs of `VideoServer`, where a session
that is closed and whose tasks are over really stops, of `Dialogue`, where a
closed tab does not come back, of `RtspClient`, where the handshake fails or the
reader ends, and of `Pipeline` and `HttpFlv`, where the camera's stream does.

**Fairness.** `VideoServer` assumes that the runtime polls ready tasks: a call
gets its next lock (no lock is held across an await), an aborted task is
dropped, a closed channel is noticed. `PacketFindsNoPipeline` is fair only if
the camera keeps sending, which `AbortedStreamEnds` therefore presupposes: on a
silent camera the reader stays for ever, as nothing else ends its read. No
message, packet or failure is promised besides. `Core` assumes that a handler
that is serving makes progress (its HTTP calls have a 15 s timeout) and that a
read on a closed socket ends; nothing is assumed of tabs, listeners or other
processes. `Dialogue` assumes the same of `Handle`, all a connection's task does,
and again nothing of tabs: they may send, stay silent or go. `RtspClient` assumes
that the client's task runs and that the camera answers or closes in the end: reads
have no time limit, except for one, so a silent camera keeps the client waiting (a
finding). `HttpFlv` assumes what
`VideoServer` does, that forwarders are polled, and that a client reads what it is
sent or goes away; nothing in the code makes it.

**Mutants.** For each property, a definition named `...Keeps...`, `...Forgotten`
and so on next to the definition it changes, marked "Mutant of" in its comment,
is a plausible bug that makes the property fail. They are not part of any
specification.

## 4. What the checks found

* `alloc` may answer `None` with a port free (`port_pool_wrap`): the 16-bit
  counter wraps in the middle of a range whose size does not divide 65536, as the
  default 6000 does not. `ports.rs:72` promises `None` only "if the pool is
  exhausted". It matters only when the pool is nearly full at the wrap.
* A closed tab may leave its RTSP pipeline running (`video_server_orphan`): the
  `start` that openVideo spawned is not waited for, and one that runs after the
  teardown's `stop` is never aborted. `README.md:165-166` says the opposite.
* Two sessions may get the same live port (`core_shared_port`): a listener that
  lost its port between the probe and its bind releases it although its session
  goes on announcing it. `ports.rs:6-7` says each session has its own.
* A live stream may be left without an armed origin (`http_flv_gate`): `start` arms
  it (`mod.rs:150`) before it fills the sender's slot (154), `stop` clears the slot
  (198) before it disarms (200), and a stop that cuts in between leaves the sender
  in its slot and no origin. The gate takes that for "nothing is live" and lets
  every page pass, where `README.md:182-186` promises a 403.
* The client's steps have no time limits, but for the authorized DESCRIBE and the
  connect of a reconnect, although `README.md:193-194` speaks of "bounded read
  buffers and per-step timeouts" (no read has a limit of length either).
  `HandshakeEnds` passes in `rtsp_client` only because its specification supposes
  that the camera answers or closes; without `WF_vars(Answer \/ CameraCloses)`
  the client may wait for the answer to OPTIONS for ever.
* A late viewer gets no sequence header (`http_flv_late`), although it is "cached
  so new clients receive it on connect" (`flv_muxer.rs:102`).

Seen while modelling; the models follow the code in each case, and those that are
hazards are listed as such:

* Login: a camera that answers with a status other than 2xx gives an `Ok` of
  `proxy_login`, and the session is armed, although `core.rs:63-65` says the
  credentials are set "on successful login". A re-login checks the credentials at
  the address the name resolves to now, while the session keeps the first one. Its
  answer carries a default init info but for the port. `error_response`
  (`core.rs:446-455`) nests its command, which `messages.rs:55-56` says an answer
  must not. A malformed login, and openVideo or closeVideo without one, get no
  answer. `cgi.rs:220` says its requests are made in parallel; they are awaited one
  by one. The answer to the upgrade prompt has `enable` 0 where the comment at
  `core.rs:410` says 1.
* `OriginInfo::parse` rejects a bracketed IPv6 host without a port.
* RTSP: channels are given to tracks in SDP order but read as video and audio
  (`rtsp_client.rs:50-56` and 111-113 disagree), which `StaysInSync` states under
  the condition that the SDP lists video first; `reconnect` keeps the session of the
  closed connection; the status of PLAY is ignored; from the 129th track on the u8
  channels are all 255, and the odd ones overflow (402, 502), so that
  `ClientAssumption` has 128 tracks at most.
* An answer is not compared with the CSeq of the request. After a blank line before
  the answer to the first DESCRIBE, `digest_describe` sends the next request and acts
  at line 189 on the rest of the answer to the one before. It shifts every later
  answer of that connection by one, so that a SETUP may be taken for accepted that
  was not; a reconnect ends it. `AnswersMatch` and `PlaysWhatIsSet` except it.
* `&json[..json.len().min(200)]` (`core.rs:264`) and the like of it at
  `cgi.rs:106`, which are evaluated when debug messages are logged, panic if byte
  200 is inside of a character: the connection's task then ends without its
  teardown. Text is not modelled.
* Parameter sets in an aggregate are lost: `parse_stap_a` returns the last NAL only
  (`rtp_parser.rs:302`), and those that "are processed separately" (267-269) are
  processed nowhere. One packet shows it; `WholeUnitsAreParsed` excepts them.
* Two overlapping starts drop the first one's handle (`mod.rs:187`): its pipeline is
  detached, and no stop ends it or its viewers' streams.
* Media: a stray end fragment passes for a NAL; an error of the encoder in the
  middle of a packet drops the access units already made of it and leaves whole
  frames queued; audio timestamps count the samples received, so that each lost
  packet moves the sound ahead of the picture; `AudioTranscoder::new()` failing ends
  the pipeline after its reader was spawned.
* A pipeline that ended by itself leaves its sender in the slot; a forwarder
  notices that its client has left only when it sends.

The passing properties that these behaviours would break are stated with the
condition under which the code keeps them (`NoSurrender`, `clash`, `torn`).

## 5. What is proved

`PortPoolProofs`, assuming `PoolAssumption` (positive range, counter modulus and
port space; `NoPort` is not a number; `NoClient` is not a client):

* `TypeCorrect`: `Spec => []TypeOK`.
* `PoolImplementsLease`: `Spec => LeaseSpec`. The inductive invariant adds to the
  types that `in_use` is exactly the set of leased ports, that leases are
  disjoint, and that who is inside `alloc` holds nothing: without the first, a
  walk's test of `in_use` says nothing about the leases.
* `NoneIsExhaustion`: if `Count` divides `CounterMod`, `Spec =>
  []NoneMeansExhausted`. The invariant `WalkCovers` says that the walk has passed
  over the candidates of `tried` consecutive remainders; the arithmetic lemmas
  (`RemainderUnique`, `NextRemainder`, `AdvanceRemainder`) show that the counter
  keeps them consecutive, across its wrap too, which is where divisibility is used.

`CoreProofs`, assuming `CoreAssumption` (the bound is a number, `None` and
`NoPort` differ from the values they stand beside):

* `TypeCorrect`, `NoLeak`, `Exclusive`, `Together`, `ServesItsOwn`,
  `DialsPinned`: each of Core's safety properties, for every set of connections,
  ports and addresses and every number of planes.

None of them is inductive: between `alloc` and the moment the session learns of
its port, and again between the teardown's take and the release, the port is
known only to a local variable of a handler. `IInv` says what the locals hold in
each state of a handler (`LocalsFit`), that video server and port come together
(`VideoHasPort`), that credentials and camera do (`Armed`), which port and which
session a plane has (`PlanesKnown`, `PlanesOwned`), and that nothing is started on
a plane before a session has it (`NoEarlyStart`). There is a lemma per group of
actions, with a step per conjunct.

`DialogueProofs`, assuming `DialogueAssumption` (the bounds are numbers; `None`,
`NoPort` and `NoUser` differ from the values they stand beside):

* `DialogueImplementsCore`: `Spec => DialogueIsCore`, the refinement. The invariant
  `Tidy` ties a connection's place in `Core` to the message it handles: a login is
  under way only for a message that asked for one. Each action of `Dialogue` is then
  shown to be an action of `Core` under the mapping, or to leave its state alone.
* `Together`, `DialsPinned`: what `CoreProofs` proves of `Core` holds of the
  dialogue, as its invariant does (`P == INSTANCE CoreProofs WITH ...`; the lemmas
  `SameHandlers` and its like say that both instances of `Core` are the same).
* `TabKnows`: `Spec => []TabKnowsItsPort`. Between a login and its answer the tab
  and the session disagree; `Tidy` says that the last answer on its way settles it
  (`Announced`).
* `TypeCorrect`.

`VideoServerProofs`, assuming `ServerAssumption`, for any number of starts:

* `NothingLost`, `SlotsConsistent`, `StopCleans`, `TypeCorrect`. What a slot holds
  depends on how far each call is, so the invariant says for every place of a call
  what the slots hold there (`SlotsFollowCall`), that there is one such call as long
  as none overlapped (`OneCall`), and, as long as no two starts did, that the handle
  is free when a start comes to store its own (`OneStart`, `HandleFree`), before
  which it has no pipeline (`SpawnedLate`).

`HttpFlvProofs`, assuming `HttpFlvAssumption` (the capacities are positive; `WS` and
`None` are not starts), for any number of viewers, starts and tags, and whatever
calls overlap unless a theorem says otherwise:

* `WellFormedStreams`, `NoGap`, `Finished`, `GateHolds`, `TypeCorrect`. The session's
  part of the invariant is that of `VideoServerProofs` (`P == INSTANCE
  VideoServerProofs`), whose lemmas are used for the session's steps. Per viewer it
  says what the gate has promised (`GateOK`), where the forwarder is (`LifeOK`), how
  far the receiver may be behind (`ReachOK`), and what is given, queued and held,
  taken together (`StreamOK`). `GateHolds` is under `clash = {}`: as long as no calls
  overlapped, a foreign request that is let pass finds every start that has armed
  done and disarmed, with its sender out of the slot for good (`NothingUnguarded`).
* `DeliversTheStream`: `Spec => TagStreamSpec`, the refinement. The added invariant
  (`PromiseOK`) says of every tag between the subscription and the receiver's
  position where it is: among those taken for the viewer, or dropped by the channel;
  and that a forwarder has ended only behind a closed channel, which stays closed
  (`ClosedStays`). What the client reads next is then the next tag taken
  (`NoneBetween`), and what lies before it was dropped. The newest tag is never
  dropped, so a response that ends has delivered it.

`RtspClientProofs`, assuming `ClientAssumption` and the framing's, for up to 128
tracks, any number of frames and of parts in which an answer may be read:

* `OwnChallenge`, `OwnAnswer`, `AllSetUp`, `TypeCorrect` (with it, that a handshake
  opens three connections at most). `PhaseOK` says what is known in each phase,
  `BudgetOK` how many connections have been used by then, `ChallengeOK` that the
  challenge held is the connection's, `InFlight` that on a connection that is not torn
  there is one request or one answer under way, and that a torn one is the first or
  about to be given up, and `SetupsOK` that the tracks before the current one have
  been accepted. `OwnAnswer` has the exception of a torn first connection, `AllSetUp`
  that of a torn one.
* `InSync`: `Spec => []StaysInSync`. What has not been read is the rest of the
  camera's frames from some byte on, without a gap (`Unbroken`), and once a frame has
  been read that byte is the first of a later one (`Behind`): from there on only whole
  frames are taken, so that a `$` inside of one is never looked at. Before that it
  may be any byte, as the BufReader may have swallowed any beginning of the stream.
  That a frame's channel tells its track needs what the handshake promises: the
  tracks have the channels they were offered (`SetupsOffered`, `Channels`).

`PipelineProofs`, assuming the parser's, the transcoder's and `PipelineAssumption`
(positive sizes; one fragment fits into the buffer; `NoData`, the `None` of the SPS
and the PPS, is not the data of a NAL), for every cap, fragment size and frame
length, whatever is lost:

* `TypeCorrect`, which bounds the reassembly buffer, `SoundBuffer`, `WholeParsed`
  and `OnlyUnits`. `InHand` says that the buffer is what has been sent of the unit
  under way, or that unit is damaged; `HeldOK` that a buffer that is anything else
  has a fragment of a damaged unit; `ParsedOK` that what was parsed ends before the
  unit under way. The first gives `WholeParsed`, the others `OnlyUnits`.

`MediaProofs`, from the same assumptions and for every sample rate as well:

* `TimeIsTold`, `NothingIsSkipped`. Neither says on its own where the next frame
  will come from, so the invariant gives every tag a place among the accepted
  samples (`PlacesOK`). What is queued is what was accepted behind the samples taken
  (`QueueOK`): the frames of the next packet follow there, at places behind all the
  others, and the timestamp, which the code counts back from the total, is the place
  (`AvailableFrames`). A failure of the encoder takes samples without a tag and
  leaves places out, which is why `TagsTellTheTime` asks for their order and not for
  their distance; without one, tag `i` is at `(i - 2) * FrameLen` (`NothingSkipped`).
  That samples are numbered (`Numbered`) makes a tag's place unique.
* `HeaderFirstThenFrames`: `Spec => []HeaderThenFrames`. The muxer remembers an SPS
  and a PPS, the property is about the NALs that were parsed; `Holds` says that the
  former are the latest of the latter. The lemmas `FitBefore`, `FitFirst` and
  `FitAfter` are what one more NAL does to the tags before, at and after the first
  with which both are known.

`HeaderThenFrames`, `TagsTellTheTime` and `NoSampleIsSkipped` are histories compared
with a function of all of them. A recursive definition of that function (a filter, a
flattened sequence) would need induction, which is out of the prover's reach; they
are stated by the place of each element instead: a count of frames, an index, a
multiple of the frame length.

**Model-checked only:** the liveness properties `AbortedStreamEnds`,
`ClosedTabReturnsPort`, `ClosedTabEnds`, `HandshakeEnds` and `StoppedStreamsEnd`,
because fairness is out of the prover's reach, and the violations. Every invariant
and every safety property that a passing run checks is stated by a theorem.

## 6. What is not modelled

* `g711.rs`: a pure function of one byte, which the repository's own tests compare
  with reference values; samples are numbers here.
* The text of things: URLs, digests, SDP, XML fields and their redaction, JSON but
  for the kind of a message and the port of an init info, the address ranges of
  `net.rs` and the spelling of an Origin. What a check of them may come to is a
  choice of the actions that make it.
* The timestamps of the video muxer, which are the wall clock's, and the bytes of
  tags.
* The queue of 128 packets between the reader and the pipeline: a reader that finds
  it full waits, and nothing is lost in it.
* HTTP answers that are fixed and change nothing: playlist, health, preflight.
* `main.rs`, which starts the two servers, and the failure of an accept: it ends the
  service manager (`service_manager.rs:24`) or the core (`core.rs:78`), while the
  HTTP-FLV server logs it and goes on (`http_flv.rs:89-92`).
* Packaging, logging, library internals, the unused `state.rs`, and functions that
  nobody calls (`teardown`, `try_describe_basic`, `get_digest_challenge`).

What could be added: several tabs in one `Dialogue` run, and a second start in the
run of `HttpFlv`, both of which need longer than the runs are given.

----------------------------- MODULE RtspClient ------------------------------
(***************************************************************************)
(* RtspClient (src/src/video/rtsp_client.rs): connect, the RTSP handshake  *)
(* OPTIONS, DESCRIBE, SETUP of every track, PLAY, with its digest retries. *)
(* A digest challenge holds for one TCP connection, so the client fetches  *)
(* it and uses it on the same one; two things make it start over on a new  *)
(* connection: a second failed DESCRIBE, and a failed SETUP.               *)
(*                                                                         *)
(* After PLAY the same connection carries the packets (Interleaved).       *)
(*                                                                         *)
(* The camera is external: it answers the requests of a connection in      *)
(* order, after any delay and with any status, or closes the connection.   *)
(* An answer is as long as it says, but its first line may be none that    *)
(* parse_status_code takes, a blank one say; then the rest of it stays in  *)
(* the stream and is read for the answer to the next request, as an answer *)
(* that comes after a timeout would be: nothing compares the CSeq numbers. *)
(* URLs, digests and SDP text are abstracted to what the steps depend on.  *)
(***************************************************************************)
EXTENDS Interleaved

CONSTANTS MaxTracks,  \* bound: media sections of the camera's SDP
          MaxParts,   \* bound: the parts in which the client may read an answer
          None        \* no session, no challenge

\* A channel is a u8: from the 129th track on the even channels are all 255 and
\* the odd ones overflow (rtsp_client.rs:402, 502).
ASSUME ClientAssumption == MaxTracks \in 0 .. 128 /\ MaxParts \in Nat /\ None \notin Nat

Kinds == {"video", "audio"}
Offers == UNION {[1 .. n -> Kinds] : n \in 0 .. MaxTracks}

VARIABLES
    \* the client
    pc,        \* the request it is about to send, or has sent
    waiting,   \* it has sent it and reads the answer
    retried,   \* DESCRIBE has been moved to a second connection
    conn,      \* the TCP connections it has opened so far
    cseq,      \* the number of the next request
    session,   \* the session header it remembers: the connection that gave it
    challenge, \* the digest challenge it holds: the connection that gave it
    media,     \* the tracks, once described
    track,     \* the track being set up
    \* the current connection
    open,      \* the camera has not closed it
    asked,     \* requests the camera has not answered
    replies,   \* answers the client has not read
    accepted,  \* the SETUPs the camera accepted: track, first channel, and
               \* whether the answer had a Session header
    torn,      \* a request failed on the first line of an answer, and the rest
               \* of the answer was left in the stream
    \* the camera
    playing,   \* it has accepted PLAY
    offer      \* the tracks of its SDP

progress == <<retried, media>>
tcp == <<conn, open, accepted, torn>>
camera == <<playing, offer>>
handshake == <<pc, waiting, progress, tcp, cseq, session, challenge, track,
               asked, replies, camera>>
vars == <<handshake, stream>>
------------------------------------------------------------------------------
Init ==
    /\ pc = "options" /\ waiting = FALSE
    /\ retried = FALSE
    /\ conn = 1 /\ cseq = 1
    /\ session = None /\ challenge = None
    /\ media = <<>> /\ track = 1
    /\ open = TRUE
    /\ asked = <<>> /\ replies = <<>>
    /\ accepted = {} /\ torn = FALSE
    /\ playing = FALSE /\ offer \in Offers
    /\ StreamInit

FirstChannel(i) == 2 * (i - 1)

\* What the request at pc carries: its method, the track and channel it sets up,
\* a session and an authorization.
Request(label) ==
    [cseq    |-> cseq,
     play    |-> label = "play",
     setup   |-> IF label = "setup" THEN track ELSE IF label = "setup_challenge" THEN 1 ELSE 0,
     session |-> IF label \in {"setup", "play"} THEN session ELSE None,
     auth    |-> IF label \in {"authorize", "setup"} THEN challenge ELSE None]

Asking == pc \in {"options", "describe", "challenge", "authorize",
                  "setup", "setup_challenge", "play"}

Send ==
    /\ Asking /\ ~waiting
    /\ asked' = Append(asked, Request(pc))
    /\ cseq' = cseq + 1
    /\ waiting' = TRUE
    /\ UNCHANGED <<pc, progress, tcp, session, challenge, track, replies, camera, stream>>
------------------------------------------------------------------------------
(***************************************************************************)
(* The camera.                                                             *)
(***************************************************************************)

\* "refused" stands for every answer a request has no use for: another status, a
\* 401 without a challenge, a 200 without an SDP.
Statuses == {"ok", "unauthorized", "refused", "garbled"}

\* With the status, whether there is a Session header.
Contents == {c \in Statuses \X BOOLEAN : c[2] => c[1] = "ok"}

Answer ==
    /\ open
    /\ asked # <<>>
    /\ LET i == Head(asked).setup IN
       \E status \in Statuses, named \in BOOLEAN :
        /\ <<status, named>> \in Contents
        /\ named => i # 0
        /\ replies' = Append(replies, [to |-> Head(asked).cseq, status |-> status,
                                       named |-> named, part |-> 0])
        /\ accepted' = IF status = "ok" /\ i # 0
                       THEN accepted \cup {<<i, FirstChannel(i), named>>} ELSE accepted
        /\ playing' = (playing \/ (status = "ok" /\ Head(asked).play))
    /\ asked' = Tail(asked)
    /\ UNCHANGED <<pc, waiting, progress, conn, open, torn, cseq, session, challenge,
                   track, offer, stream>>

\* It sends packets, and reports about them, on the channels that were set up.
CameraStreams ==
    /\ open /\ playing
    /\ \E a \in accepted, rtcp \in 0 .. 1, size \in Sizes : Write(a[2] + rtcp, size)
    /\ UNCHANGED handshake

CameraCloses ==
    /\ open
    /\ open' = FALSE
    /\ UNCHANGED <<pc, waiting, progress, conn, accepted, torn, cseq, session, challenge,
                   track, asked, replies, camera, stream>>
------------------------------------------------------------------------------
(***************************************************************************)
(* What the client does with an answer.                                    *)
(***************************************************************************)

\* Mutant of DescribeFails: it is tried again without end.
DescribeFailsAgain ==
    /\ pc' = "reconnect"
    /\ UNCHANGED <<session, challenge, media, track>>

\* A failed digest DESCRIBE: once, it is tried again on a new connection.
DescribeFails ==
    /\ pc' = IF retried THEN "failed" ELSE "reconnect"
    /\ UNCHANGED <<session, challenge, media, track>>

\* An SDP with media sections: their SETUP begins, without authorization.
Described ==
    /\ offer # <<>>
    /\ media' = offer
    /\ track' = 1
    /\ challenge' = None
    /\ pc' = "setup"
    /\ UNCHANGED session

\* Mutant of Challenged: authorized SETUPs go on where the first try stopped.
ChallengedResumes(next) ==
    /\ challenge' = conn
    /\ pc' = next
    /\ UNCHANGED <<session, media, track>>

\* A challenge came, and holds for this connection.
Challenged(next) ==
    /\ challenge' = conn
    /\ pc' = next
    /\ track' = 1
    /\ UNCHANGED <<session, media>>

GoTo(next) == pc' = next /\ UNCHANGED <<session, challenge, media, track>>

\* A SETUP that is not accepted: the first time everything starts over on a new
\* connection with authorization, then the handshake fails.
SetupFails == GoTo(IF challenge = None THEN "reconnect" ELSE "failed")

\* The session of the answer, if it has one, replaces the one remembered.
TrackSet(named) ==
    /\ session' = IF named THEN conn ELSE session
    /\ track' = track + 1
    /\ pc' = IF track = Len(media) THEN "play" ELSE "setup"
    /\ UNCHANGED <<challenge, media>>

\* What an answer with this status, with or without a session, means.  OPTIONS
\* and PLAY take any.
Understand(status, named) ==
    \/ pc = "options" /\ GoTo("describe")
    \/ pc = "describe" /\ IF status = "ok" /\ offer # <<>> THEN Described ELSE GoTo("challenge")
    \/ pc = "challenge" /\ IF status = "ok" /\ offer # <<>> THEN Described
                           ELSE IF status = "unauthorized" THEN Challenged("authorize")
                           ELSE DescribeFails
    \/ pc = "authorize" /\ IF status = "ok" /\ offer # <<>> THEN Described ELSE DescribeFails
    \/ pc = "setup" /\ IF status = "ok" THEN TrackSet(named) ELSE SetupFails
    \/ pc = "setup_challenge" /\ IF status = "unauthorized" THEN Challenged("setup")
                                 ELSE GoTo("failed")
    \/ pc = "play" /\ GoTo("connected")

\* No answer could be read: the request has failed.
NoAnswer ==
    \/ pc \in {"options", "setup_challenge", "play"} /\ GoTo("failed")
    \/ pc = "describe" /\ GoTo("challenge")
    \/ pc \in {"challenge", "authorize"} /\ DescribeFails
    \/ pc = "setup" /\ SetupFails

\* What may be left of an answer when a line of it has been taken for a whole one:
\* nothing, or text that passes for any answer or for none.
Leftover(answer) ==
    {<<>>} \cup
    {<<[answer EXCEPT !.status = kind[1], !.named = kind[2], !.part = @ + 1]>> :
       kind \in IF answer.part < MaxParts THEN Contents ELSE {}}

ReadAnswer ==
    /\ waiting
    /\ replies # <<>>
    /\ Head(replies).status # "garbled"
    /\ Understand(Head(replies).status, Head(replies).named)
    /\ IF pc = "play" THEN \E n \in 0 .. Len(wire) : ReadAhead(n) ELSE UNCHANGED stream
    /\ \E rest \in IF Head(replies).part > 0 THEN Leftover(Head(replies)) ELSE {<<>>} :
           replies' = rest \o Tail(replies)
    /\ waiting' = FALSE
    /\ UNCHANGED <<retried, tcp, cseq, asked, camera>>

\* A line that is no status line: the request has failed, and the lines after it
\* stay in the stream.
ReadGarbled ==
    /\ waiting
    /\ replies # <<>>
    /\ Head(replies).status = "garbled"
    /\ NoAnswer
    /\ \E rest \in Leftover(Head(replies)) :
        /\ replies' = rest \o Tail(replies)
        /\ torn' = (torn \/ rest # <<>>)
    /\ waiting' = FALSE
    /\ UNCHANGED <<retried, conn, open, accepted, cseq, asked, camera, stream>>

\* Mutant of ReadsEnd: an empty read is taken for a silent camera.
ReadsEndWaits ==
    /\ waiting
    /\ replies = <<>>
    /\ ~open
    /\ UNCHANGED vars

\* The end of a closed connection (or the send on it failed).
ReadsEnd ==
    /\ waiting
    /\ replies = <<>>
    /\ ~open
    /\ NoAnswer
    /\ waiting' = FALSE
    /\ UNCHANGED <<retried, tcp, cseq, asked, replies, camera, stream>>

\* The authorized DESCRIBE is the one request with a time limit.
Timeout ==
    /\ waiting
    /\ pc = "authorize"
    /\ DescribeFails
    /\ waiting' = FALSE
    /\ UNCHANGED <<retried, tcp, cseq, asked, replies, camera, stream>>

\* The control URL of a track points at another host, or the challenge cannot be
\* answered (it has no realm or nonce): no SETUP is sent.
TrackRefused ==
    /\ ~waiting
    /\ \/ pc = "setup" /\ SetupFails
       \/ pc = "setup_challenge" /\ GoTo("failed")
    /\ UNCHANGED <<waiting, retried, tcp, cseq, asked, replies, camera, stream>>

\* Mutant of AfterReconnect: the challenge of the old connection is used.
AfterReconnectSameChallenge == IF media = <<>> THEN "authorize" ELSE "setup_challenge"

\* A described client reconnects for its SETUPs, another one for DESCRIBE.
AfterReconnect == IF media = <<>> THEN "challenge" ELSE "setup_challenge"

\* Mutant of Reconnect: the request is repeated on the same connection.
ReconnectSkipped ==
    /\ pc = "reconnect"
    /\ pc' = AfterReconnect
    /\ retried' = TRUE
    /\ UNCHANGED <<waiting, tcp, cseq, session, challenge, media, track, asked, replies, camera, stream>>

\* A new connection, numbered from 1 again; the session is not reset.
Reconnect ==
    /\ pc = "reconnect"
    /\ pc' = AfterReconnect
    /\ retried' = TRUE
    /\ conn' = conn + 1
    /\ cseq' = 1
    /\ open' = TRUE
    /\ asked' = <<>> /\ replies' = <<>>
    /\ accepted' = {} /\ torn' = FALSE
    /\ UNCHANGED <<waiting, session, challenge, media, track, camera, stream>>

ReconnectFails ==
    /\ pc = "reconnect"
    /\ GoTo("failed")
    /\ UNCHANGED <<waiting, retried, tcp, cseq, asked, replies, camera, stream>>
------------------------------------------------------------------------------
(***************************************************************************)
(* After the handshake: the reader task of the pipeline.                   *)
(***************************************************************************)

\* An answer that is left in the stream comes before the packets and is skipped.
SkipAnswer ==
    /\ pc = "connected"
    /\ replies # <<>>
    /\ SkipText
    /\ replies' = Tail(replies)
    /\ UNCHANGED <<pc, waiting, progress, tcp, cseq, session, challenge, track, asked, camera>>

ReadPacket ==
    /\ pc = "connected"
    /\ replies = <<>>
    /\ ReadRtp
    /\ UNCHANGED handshake

\* The end of the connection.
ReaderEnds ==
    /\ pc = "connected"
    /\ ~open /\ (AtFrame => replies # <<>>)
    /\ GoTo("ended")
    /\ UNCHANGED <<waiting, retried, tcp, cseq, asked, replies, camera, stream>>
------------------------------------------------------------------------------
Client == Send \/ ReadAnswer \/ ReadGarbled \/ ReadsEnd \/ Reconnect \/ ReconnectFails

Reader == SkipAnswer \/ ReadPacket \/ ReaderEnds

Next == Client \/ Timeout \/ TrackRefused \/ Reader \/ Answer \/ CameraCloses \/ CameraStreams

\* The client's task is run, and the camera does not stay silent for ever: it
\* answers or closes the connection.  Reads have no time limit, except for one.
Fairness == WF_vars(Client) /\ WF_vars(Answer \/ CameraCloses)

Spec == Init /\ [][Next]_vars
FairSpec == Spec /\ Fairness
------------------------------------------------------------------------------
(***************************************************************************)
(* Properties.                                                             *)
(***************************************************************************)

Requests == [cseq : Nat, play : BOOLEAN, setup : 0 .. MaxTracks, session : Nat \cup {None},
             auth : Nat \cup {None}]

\* The values the variables take; a handshake opens three connections at most.
TypeOK ==
    /\ pc \in {"options", "describe", "challenge", "authorize", "reconnect", "setup",
               "setup_challenge", "play", "connected", "ended", "failed"}
    /\ waiting \in BOOLEAN /\ retried \in BOOLEAN /\ open \in BOOLEAN /\ torn \in BOOLEAN
    /\ conn \in 1 .. 3 /\ cseq \in Nat
    /\ session \in (1 .. conn) \cup {None}
    /\ challenge \in (1 .. conn) \cup {None}
    /\ offer \in Offers /\ media \in {<<>>, offer}
    /\ track \in 1 .. MaxTracks + 1
    /\ asked \in Seq(Requests)
    /\ replies \in Seq([to : Nat, status : Statuses, named : BOOLEAN, part : 0 .. MaxParts])
    /\ playing \in BOOLEAN
    /\ frames \in Seq([channel : 0 .. FirstChannel(MaxTracks) + 1, size : Sizes])
    /\ Len(frames) <= MaxFrames
    /\ wire \in Seq([frame : 1 .. Len(frames), at : Nat])
    /\ got \in Seq([frame : 0 .. MaxFrames, kind : Kinds])
    /\ accepted \subseteq {<<i, FirstChannel(i), b>> : i \in 1 .. MaxTracks, b \in BOOLEAN}

\* An authorization answers a challenge of the connection it is sent on: "the
\* challenge must be fetched and consumed on the SAME connection"
\* (rtsp_client.rs:374-376), through every retry and reconnect.
ChallengeOfConnection ==
    \A k \in 1 .. Len(asked) : asked[k].auth \in {None, conn}

\* The client takes an answer for the answer to another request only where
\* DESCRIBE goes on over the first connection after an answer that could not be
\* parsed (rtsp_client.rs:158-176).  Every other failed read, the timed out
\* DESCRIBE whose answer is still to come included, gives the connection up, so
\* that on a second or third connection every answer is the request's own.
AnswersMatch ==
    (waiting /\ replies # <<>> /\ Head(replies).status # "garbled") =>
        Head(replies).to = cseq - 1 \/ (torn /\ conn = 1)

\* PLAY is sent, and the handshake succeeds, only after the camera has accepted
\* on this very connection a SETUP of every track, each on a channel pair of its
\* own, and PLAY names the session they gave, if any of them gave one
\* (rtsp_client.rs:111-128, 370-377); unless the connection is torn, where a SETUP
\* may be taken for accepted on the answer to an earlier request.  reconnect keeps
\* `session', so that a SETUP may name a session of the closed connection, and so
\* may PLAY if the camera gives none.
PlaysWhatIsSet ==
    (pc \in {"play", "connected"} /\ ~torn) =>
        /\ media # <<>>
        /\ (\E a \in accepted : a[3]) => session = conn
        /\ \A i \in 1 .. Len(media) : \E b \in BOOLEAN : <<i, FirstChannel(i), b>> \in accepted

\* The frames of the video and of the audio track, provided the SDP lists video
\* first and audio second.
Listed == \A i \in DOMAIN offer : i <= 2 => offer[i] = <<"video", "audio">>[i]
Media == {k \in DOMAIN frames : frames[k].channel \in {FirstChannel(1), FirstChannel(2)}}
InWire(k) == [frame |-> k, at |-> 1] \in {wire[i] : i \in DOMAIN wire}

\* Once the reader has met a frame it misses none and takes nothing else for
\* one, whatever the BufReader had read ahead: it returns the packets of the two
\* tracks, all and in order, each as one of its track, and no RTCP report
\* (rtsp_client.rs:553-586).
StaysInSync ==
    \A i \in DOMAIN got :
        LET k == got[i].frame IN
        k # 0 =>
            /\ k \in Media
            /\ \A j \in i + 1 .. Len(got) : got[j].frame > k
            /\ Listed => got[i].kind = offer[frames[k].channel \div 2 + 1]
            /\ \A m \in Media : m > k => InWire(m) \/ m \in {got[j].frame : j \in DOMAIN got}

\* connect comes to an end, provided the camera answers or closes: there is no
\* cycle of retries (rtsp_client.rs:158-176, 378-391).
HandshakeEnds == <>(pc \in {"connected", "ended", "failed"})

==============================================================================

------------------------------ MODULE Pipeline -------------------------------
(***************************************************************************)
(* The loop of run_pipeline (src/src/video/mod.rs): every packet of the    *)
(* video track goes through the parser, every NAL that comes out of it     *)
(* through the muxer, every packet of the audio track through the          *)
(* transcoder, and the tags go to a broadcast channel per track.           *)
(*                                                                         *)
(* The camera is external.  It sends NAL units one after the other, each   *)
(* alone in a packet, in fragments, or with the next one in an aggregate,  *)
(* and packets of samples between them.  A packet may be lost before the   *)
(* pipeline: read_rtp_packet skips what it cannot frame, among it what the *)
(* BufReader has taken from the socket together with the answer to PLAY    *)
(* (rtsp_client.rs:558-564).                                               *)
(***************************************************************************)
EXTENDS RtpParser, FlvMuxer, AudioTranscoder, FiniteSets

CONSTANTS
    MaxSent,   \* bound: NAL units and audio packets the camera sends
    MaxParts,  \* bound: fragments of one unit
    MaxPcm     \* bound: samples of an audio packet

Fragments == [unit : 1 .. MaxSent, part : 1 .. MaxParts, type : NalTypes]

ASSUME PipelineAssumption ==
    /\ MaxSent \in Nat
    /\ MaxParts \in Nat \ {0}
    /\ MaxPcm \in Nat
    /\ NoData \notin Seq(Fragments)

VARIABLES
    units,  \* what the camera has sent: type, number of packets, those lost
    part,   \* fragments sent of the last unit, 0 when it is complete
    nals,   \* NALs parsed so far
    tags,   \* tags sent to the video broadcast
    packets,        \* audio packets the camera has sent
    recorded,       \* the samples in them
    accepted,       \* samples that reached the transcoder
    encoder_failed, \* the AAC encoder has failed at least once
    audio_tags      \* tags sent to the audio broadcast

video == <<parser, muxer, units, part, nals, tags>>
audio == <<transcoder, packets, recorded, accepted, encoder_failed, audio_tags>>
vars == <<video, audio>>
------------------------------------------------------------------------------
Init ==
    /\ ParserInit /\ MuxerInit
    /\ units = <<>> /\ part = 0
    /\ nals = <<>> /\ tags = <<>>
    /\ TranscoderInit
    /\ packets = 0 /\ recorded = 0 /\ accepted = <<>>
    /\ encoder_failed = FALSE
    /\ audio_tags = <<>>

Sent == Len(units) + packets

\* One turn of run_pipeline's loop.
Receive(p) ==
    LET nal == Parsed(p) IN
    /\ Parse(p)
    /\ IF nal = NoNal THEN UNCHANGED <<muxer, nals, tags>>
       ELSE /\ ProcessNal(nal)
            /\ nals' = Append(nals, nal)
            /\ tags' = tags \o Tags(nal)

Lose == UNCHANGED <<parser, muxer, nals, tags>>

Fragment(u, i, type) == [unit |-> u, part |-> i, type |-> type]
Whole(u, type) == Nal(type, <<Fragment(u, 1, type)>>)

Single(u, type) == [kind |-> "nal", nal |-> Whole(u, type)]

Fu(u, i, n, type, t) ==
    [kind |-> "fu", start |-> i = 1, end |-> i = n,
     fragment |-> Fragment(u, i, type), looks_like |-> t]

Aggregate(u, t1, t2) == [kind |-> "stap", nals |-> <<Whole(u, t1), Whole(u + 1, t2)>>]

Unit(type, parts, lost, hidden) ==
    [type |-> type, parts |-> parts, lost |-> lost, hidden |-> hidden]

Next1 == Len(units) + 1

SendSingle ==
    /\ part = 0 /\ Sent < MaxSent
    /\ \E type \in NalTypes, lost \in BOOLEAN :
        /\ IF lost THEN Lose ELSE Receive(Single(Next1, type))
        /\ units' = Append(units, Unit(type, 1, lost, FALSE))
    /\ UNCHANGED part

SendAggregate ==
    /\ part = 0 /\ Sent + 1 < MaxSent
    /\ \E t1, t2 \in NalTypes, lost \in BOOLEAN :
        /\ IF lost THEN Lose ELSE Receive(Aggregate(Next1, t1, t2))
        /\ units' = Append(Append(units, Unit(t1, 1, lost, TRUE)), Unit(t2, 1, lost, FALSE))
    /\ UNCHANGED part

SendStart ==
    /\ part = 0 /\ Sent < MaxSent
    /\ \E type \in NalTypes, n \in 2 .. MaxParts, lost \in BOOLEAN :
        /\ IF lost THEN Lose ELSE Receive(Fu(Next1, 1, n, type, type))
        /\ units' = Append(units, Unit(type, n, lost, FALSE))
    /\ part' = 1

\* A later fragment of the unit; t is what its first byte would pass for.
SendFragment ==
    LET u == Len(units)
        n == units[u].parts
        type == units[u].type
    IN
    /\ part # 0
    /\ \E t \in NalTypes, lost \in BOOLEAN :
        /\ (lost \/ part + 1 < n \/ fu_active) => t = type
        /\ IF lost THEN Lose ELSE Receive(Fu(u, part + 1, n, type, t))
        /\ units' = [units EXCEPT ![u].lost = @ \/ lost]
    /\ part' = IF part + 1 = n THEN 0 ELSE part + 1

------------------------------------------------------------------------------
\* The packet is no PCMU packet that the transcoder takes, or was lost.
LosePcm == UNCHANGED <<transcoder, accepted, encoder_failed, audio_tags>>

\* A turn of the loop for an audio packet; an error ends nothing.
ReceivePcm(pcm) ==
    /\ accepted' = accepted \o pcm
    /\ \/ /\ Transcode(pcm)
          /\ audio_tags' = audio_tags \o AudioTags(pcm)
          /\ UNCHANGED encoder_failed
       \/ /\ \E f \in 1 .. Frames(pcm) : TranscodeFails(pcm, f)
          /\ encoder_failed' = TRUE
          /\ UNCHANGED audio_tags

SendPcm ==
    /\ Sent < MaxSent
    /\ \E n \in 1 .. MaxPcm :
        /\ LosePcm \/ ReceivePcm([i \in 1 .. n |-> recorded + i])
        /\ recorded' = recorded + n
    /\ packets' = packets + 1
------------------------------------------------------------------------------
SendVideo == SendSingle \/ SendAggregate \/ SendStart \/ SendFragment

Next == (SendVideo /\ UNCHANGED audio) \/ (SendPcm /\ UNCHANGED video)

Spec == Init /\ [][Next]_vars
------------------------------------------------------------------------------
(***************************************************************************)
(* Properties.                                                             *)
(***************************************************************************)

\* The values the variables take.  The reassembly buffer is "hard-capped": fragments
\* without an end "must not grow this without bound" (rtp_parser.rs:55-57).
TypeOK ==
    /\ fu_buffer \in Seq(Fragments) /\ Bytes(fu_buffer) <= Cap /\ fu_active \in BOOLEAN
    /\ sps \in Seq(Fragments) \cup {NoData} /\ pps \in Seq(Fragments) \cup {NoData}
    /\ initialized \in BOOLEAN
    /\ units \in Seq([type : NalTypes, parts : 1 .. MaxParts, lost : BOOLEAN, hidden : BOOLEAN])
    /\ part \in 0 .. MaxParts - 1
    /\ nals \in Seq([type : NalTypes, data : Seq(Fragments)])
    /\ pending \in Seq(Nat) /\ (~encoder_failed => Len(pending) < FrameLen)
    /\ accepted \in Seq(Nat) /\ samples_total = Len(accepted)
    /\ seq_sent \in BOOLEAN /\ encoder_failed \in BOOLEAN
    /\ packets \in Nat /\ recorded \in Nat /\ Sent <= MaxSent

\* The parser is between units or holds a unit from its first fragment on,
\* whatever is lost and however long the units are: a unit that was given up
\* leaves nothing that a later fragment could be added to (rtp_parser.rs:190-259).
BufferIsSound ==
    /\ fu_active <=> fu_buffer # <<>>
    /\ fu_active => fu_buffer[1].part = 1

NalOf(u) ==
    Nal(units[u].type, [i \in 1 .. units[u].parts |-> Fragment(u, i, units[u].type)])

Complete(u) == u < Len(units) \/ part = 0
TooLong(u) == 1 + FragmentSize * units[u].parts > Cap

\* A unit that arrived whole is parsed, whatever was lost before it, unless it
\* is too long or was not the last of an aggregate (rtp_parser.rs:209-313): "parsing
\* recovers on the next start bit" (rtp_parser.rs:245-247).
WholeUnitsAreParsed ==
    \A u \in DOMAIN units :
        (Complete(u) /\ ~units[u].lost /\ ~units[u].hidden
            /\ ~TooLong(u))
        => \E i \in DOMAIN nals : nals[i] = NalOf(u)

\* What is parsed is a unit of the camera, from its first to its last fragment,
\* unless a packet of one of the units it is made of was lost or one of them is
\* too long; and one unit is not parsed twice, nor after a later one.
OnlyUnitsAreParsed ==
    \A i \in DOMAIN nals :
        LET data == nals[i].data
            Damaged(u) == units[u].lost \/ TooLong(u)
            LastUnit(nal) == nal.data[Len(nal.data)].unit
        IN
        /\ \/ nals[i] = NalOf(data[1].unit)
           \/ \E k \in DOMAIN data : Damaged(data[k].unit)
        /\ \A j \in DOMAIN nals : j < i => LastUnit(nals[j]) < LastUnit(nals[i])

\* Both parameter sets are among the first n of the NALs s.
Known(s, n) == \A type \in {"sps", "pps"} : \E i \in 1 .. n : s[i].type = type

\* Among the first n NALs the last of this type has these data.
IsLatest(s, n, type, data) ==
    \E i \in 1 .. n : /\ s[i].type = type /\ s[i].data = data
                      /\ \A j \in i + 1 .. n : s[j].type # type

\* The number of frames among NALs n + 1 to i.
FramesAmong(s, n, i) == Cardinality({j \in n + 1 .. i : ~IsParameter(s[j])})

\* The tags are a function of the NALs: nothing before both an SPS and a PPS have
\* come, then the script tag and the header with the latest of them, once, then
\* every NAL that is neither, in order.  No frame goes out before the header, and
\* none is left out after it (flv_muxer.rs:119-180); parameter sets that come later
\* are not announced, and the frames after them follow the header all the same.
HeaderThenFrames ==
    /\ ~Known(nals, Len(nals)) => tags = <<>>
    /\ \A n \in DOMAIN nals :
          Known(nals, n) /\ ~Known(nals, n - 1) =>
              /\ Len(tags) = 2 + FramesAmong(nals, n, Len(nals))
              /\ tags[1] = Script
              /\ tags[2] = Header(tags[2].sps, tags[2].pps)
              /\ IsLatest(nals, n, "sps", tags[2].sps) /\ IsLatest(nals, n, "pps", tags[2].pps)
              /\ \A i \in n + 1 .. Len(nals) :
                    ~IsParameter(nals[i]) => tags[2 + FramesAmong(nals, n, i)] = Frame(nals[i])

\* Where the samples in a tag are among the accepted ones.
Starts(t) == {k \in 0 .. Len(accepted) - FrameLen : t.data = SubSeq(accepted, k + 1, k + FrameLen)}

\* A tag is stamped with the time of the samples in it: its data are a frame of
\* accepted samples, its timestamp is what those before it last, and tags come in
\* this order - after a failure of the encoder as well, whatever was queued then
\* (aac.rs:100-130, transcode.rs:81-90).
TagsTellTheTime ==
    \A i \in DOMAIN audio_tags :
        audio_tags[i] # AacHeader =>
            \E k \in Starts(audio_tags[i]) :
                /\ audio_tags[i].ts = Ms(k)
                /\ \A j \in 1 .. i - 1 : audio_tags[j] # AacHeader =>
                        \A l \in Starts(audio_tags[j]) : l + FrameLen <= k

\* Samples that have been put into tags, as long as the encoder has not failed.
Encoded == IF audio_tags = <<>> THEN 0 ELSE (Len(audio_tags) - 1) * FrameLen

\* Unless the encoder fails, the AAC header comes first and once, and every sample
\* that was accepted is in a tag, or queued, exactly once and in order
\* (transcode.rs:52-62, "emitted exactly once, ahead of the first raw tag").
NoSampleIsSkipped ==
    /\ \A i \in DOMAIN audio_tags : (audio_tags[i] = AacHeader) <=> (i = 1)
    /\ ~encoder_failed =>
          /\ Encoded <= Len(accepted)
          /\ pending = SubSeq(accepted, Encoded + 1, Len(accepted))
          /\ \A i \in 2 .. Len(audio_tags) :
                audio_tags[i].data = SubSeq(accepted, (i - 2) * FrameLen + 1, (i - 1) * FrameLen)
==============================================================================

--------------------------- MODULE AudioTranscoder ---------------------------
(***************************************************************************)
(* AudioTranscoder (src/src/audio/transcode.rs) and the AacEncoder in it   *)
(* (src/src/audio/aac.rs): G.711 packets into FLV audio tags.  The samples *)
(* of the packets are queued, and every full frame of them is encoded.     *)
(*                                                                         *)
(* A sample is abstracted to its number in what the camera recorded; the   *)
(* data of a tag is the samples it was encoded from.  The AAC codec is     *)
(* external: it may fail on any frame.                                     *)
(***************************************************************************)
EXTENDS Naturals, Sequences

CONSTANTS
    FrameLen,  \* samples of an access unit, 1024
    Rate,      \* samples of a second, 8000
    MaxMs      \* the largest timestamp, 2^32 - 1

ASSUME TranscoderAssumption ==
    /\ FrameLen \in Nat \ {0}
    /\ Rate \in Nat \ {0}
    /\ MaxMs \in Nat

VARIABLES
    pending,        \* samples queued
    samples_total,  \* samples accepted so far
    seq_sent        \* the AAC sequence header has been emitted

transcoder == <<pending, samples_total, seq_sent>>

TranscoderInit == pending = <<>> /\ samples_total = 0 /\ seq_sent = FALSE

AacHeader == [tag |-> "aac header"]
Raw(data, ts) == [tag |-> "aac", data |-> data, ts |-> ts]

\* A sample's number as a timestamp in ms; it saturates.
Ms(pts) == LET ms == (pts * 1000) \div Rate IN IF ms <= MaxMs THEN ms ELSE MaxMs

Available(pcm) == pending \o pcm
Frames(pcm) == Len(Available(pcm)) \div FrameLen

\* Frame i of what is queued once pcm is accepted, and its first sample's number
\* among the accepted ones: all of them but those still queued.
FrameOf(pcm, i) == SubSeq(Available(pcm), (i - 1) * FrameLen + 1, i * FrameLen)

\* Mutant of Pts: the total is taken before the packet is counted.
PtsOfPacket(pcm, i) == samples_total + (i - 1) * FrameLen

Pts(pcm, i) ==
    samples_total + Len(pcm) - (Len(Available(pcm)) - (i - 1) * FrameLen)

\* Mutant of Push: what does not fill a frame is dropped.
PushWholeFrames(pcm, n) ==
    /\ pending' = <<>>
    /\ samples_total' = samples_total + Len(pcm)

\* pcm is queued and the first n frames are taken out of the queue.
Push(pcm, n) ==
    /\ pending' = SubSeq(Available(pcm), n * FrameLen + 1, Len(Available(pcm)))
    /\ samples_total' = samples_total + Len(pcm)

\* The tags of a packet: the header before the first access unit, and a tag for
\* each unit.
AudioTags(pcm) ==
    IF Frames(pcm) = 0 THEN <<>>
    ELSE (IF seq_sent THEN <<>> ELSE <<AacHeader>>)
         \o [i \in 1 .. Frames(pcm) |-> Raw(FrameOf(pcm, i), Ms(Pts(pcm, i)))]

\* Every full frame is encoded.
Transcode(pcm) ==
    /\ Push(pcm, Frames(pcm))
    /\ seq_sent' = (seq_sent \/ Frames(pcm) > 0)

\* The encoder fails on frame f: that frame and those before it of this packet are
\* lost, those after it stay queued.
TranscodeFails(pcm, f) ==
    /\ f \in 1 .. Frames(pcm)
    /\ Push(pcm, f)
    /\ UNCHANGED seq_sent
==============================================================================

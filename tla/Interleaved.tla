----------------------------- MODULE Interleaved -----------------------------
(***************************************************************************)
(* read_rtp_packet (src/src/video/rtsp_client.rs): the packets of all      *)
(* tracks arrive in frames on the RTSP connection, each a `$', a channel,  *)
(* a length and a payload.  The reader takes the socket from under the     *)
(* BufReader, so that what the BufReader had read ahead is lost, and looks *)
(* for a `$' wherever that leaves it.                                      *)
(*                                                                         *)
(* A cell of `wire' is a byte that has arrived and has not been read (the  *)
(* two bytes of a length are one cell).  A byte of a payload or a length   *)
(* may be a `$' as well; then what follows it passes for a channel and a   *)
(* length.                                                                 *)
(***************************************************************************)
EXTENDS Naturals, Sequences

CONSTANTS
    MaxFrames, \* bound: frames the camera sends
    Sizes,     \* the lengths of their payloads, in cells
    MaxSkip    \* bound: what may pass for a length

ASSUME FramingAssumption ==
    /\ MaxFrames \in Nat
    /\ Sizes \subseteq Nat
    /\ MaxSkip \in Nat

VARIABLES
    frames, \* frames the camera has sent
    wire,   \* cells that have not been read
    got     \* packets the reader has returned: their frame, and the track's kind

stream == <<frames, wire, got>>

StreamInit == frames = <<>> /\ wire = <<>> /\ got = <<>>

\* The `$', the channel and the length.
Header == 3

\* The camera sends a frame.
Write(channel, size) ==
    LET k == Len(frames) + 1 IN
    /\ k <= MaxFrames
    /\ frames' = Append(frames, [channel |-> channel, size |-> size])
    /\ wire' = wire \o [i \in 1 .. Header + size |-> [frame |-> k, at |-> i]]
    /\ UNCHANGED got

Skip(n) == wire' = SubSeq(wire, n + 1, Len(wire))

\* The BufReader has read n cells together with the answer to PLAY.
ReadAhead(n) ==
    /\ n <= Len(wire)
    /\ Skip(n)
    /\ UNCHANGED <<frames, got>>

\* A byte that is no `$' is skipped.
Resync ==
    /\ wire # <<>> /\ Head(wire).at # 1
    /\ Skip(1)
    /\ UNCHANGED <<frames, got>>

\* Channels 0 and 2 are for the pipeline.
Return(k, channel) ==
    IF channel \in {0, 2}
    THEN got' = Append(got, [frame |-> k, kind |-> IF channel = 0 THEN "video" ELSE "audio"])
    ELSE UNCHANGED got

\* Mutant of Take: the payload of a packet that is not returned is not read.
TakeHeader(k, channel, size) ==
    /\ Header + size <= Len(wire)
    /\ Skip(IF channel \in {0, 2} THEN Header + size ELSE Header)
    /\ Return(k, channel)
    /\ UNCHANGED frames

\* A frame, or what passes for one, is read to its end.
Take(k, channel, size) ==
    /\ Header + size <= Len(wire)
    /\ Skip(Header + size)
    /\ Return(k, channel)
    /\ UNCHANGED frames

AtFrame == wire # <<>> /\ Head(wire).at = 1

ReadFrame ==
    /\ AtFrame
    /\ LET k == Head(wire).frame IN Take(k, frames[k].channel, frames[k].size)

\* A `$' in a length or a payload; it makes frame 0, and 3 stands for any channel
\* that is not returned.
ReadFalseFrame ==
    /\ wire # <<>> /\ Head(wire).at >= Header
    /\ \E channel \in 0 .. 3, size \in 0 .. MaxSkip : Take(0, channel, size)

\* Text that comes before the frames has no frame in it; a `$' in it (of several,
\* the last) makes frame 0, whose payload may reach into the frames.
SkipText ==
    \/ UNCHANGED stream
    \/ \E channel \in 0 .. 3, size \in 0 .. MaxSkip :
        /\ size <= Len(wire)
        /\ Skip(size)
        /\ Return(0, channel)
        /\ UNCHANGED frames

ReadRtp == Resync \/ ReadFrame \/ ReadFalseFrame

==============================================================================

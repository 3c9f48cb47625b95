------------------------------- MODULE FlvMuxer ------------------------------
(***************************************************************************)
(* FlvMuxer (src/src/video/flv_muxer.rs): NAL units into FLV tags.  The    *)
(* script tag and the sequence header, built of the SPS and the PPS, are   *)
(* emitted once, when both are known; frames before that are dropped.      *)
(* The bytes of the tags and their timestamps are left out.                *)
(***************************************************************************)
EXTENDS Naturals, Sequences

CONSTANT NoData  \* no SPS, no PPS yet

VARIABLES sps, pps, initialized

muxer == <<sps, pps, initialized>>

MuxerInit == sps = NoData /\ pps = NoData /\ initialized = FALSE

Script == [tag |-> "script"]
Header(s, p) == [tag |-> "header", sps |-> s, pps |-> p]
Frame(nal) == [tag |-> "frame", data |-> nal.data]

Sps(nal) == IF nal.type = "sps" THEN nal.data ELSE sps
Pps(nal) == IF nal.type = "pps" THEN nal.data ELSE pps

IsParameter(nal) == nal.type \in {"sps", "pps"}

\* Mutant of Completes: a new SPS or PPS is announced again.
CompletesAgain(nal) ==
    /\ IsParameter(nal)
    /\ Sps(nal) # NoData /\ Pps(nal) # NoData

\* The NAL is the first with which both parameter sets are known.
Completes(nal) ==
    /\ IsParameter(nal)
    /\ ~initialized
    /\ Sps(nal) # NoData /\ Pps(nal) # NoData

ProcessNal(nal) ==
    /\ sps' = Sps(nal)
    /\ pps' = Pps(nal)
    /\ initialized' = (initialized \/ Completes(nal))

\* The tags process_nal returns.
Tags(nal) ==
    IF Completes(nal) THEN <<Script, Header(Sps(nal), Pps(nal))>>
    ELSE IF initialized /\ ~IsParameter(nal) THEN <<Frame(nal)>>
    ELSE <<>>
==============================================================================

------------------------------ MODULE RtpParser ------------------------------
(***************************************************************************)
(* RtpParser (src/src/video/rtp_parser.rs): H.264 NAL units out of RTP     *)
(* packets.  A packet carries one NAL unit, several (STAP-A) or a fragment *)
(* of one (FU-A); fragments are put together in fu_buffer.  Sequence       *)
(* numbers are not looked at.                                              *)
(*                                                                         *)
(* The bytes of a fragment are abstracted to [unit, part, type]: part      *)
(* `part` of the camera's NAL unit `unit`, whose type is `type`.  The data *)
(* of a NAL is the sequence of its fragments.                              *)
(***************************************************************************)
EXTENDS Naturals, Sequences

CONSTANTS
    FragmentSize,  \* data bytes of a FU-A packet
    Cap            \* MAX_FU_BUFFER_BYTES

\* One fragment always fits: its packet has a length of 16 bits, the cap is 2^20.
ASSUME ParserAssumption ==
    /\ FragmentSize \in Nat \ {0}
    /\ Cap \in Nat
    /\ 1 + FragmentSize <= Cap

\* "frame" stands for every other type; key frames differ in a flag only.
NalTypes == {"sps", "pps", "frame"}

VARIABLES fu_buffer, fu_active

parser == <<fu_buffer, fu_active>>

ParserInit == fu_buffer = <<>> /\ fu_active = FALSE

Nal(type, data) == [type |-> type, data |-> data]
NoNal == Nal("none", <<>>)

\* A buffer begun by a start fragment has the NAL header before its data.
Bytes(buffer) == IF buffer = <<>> THEN 0 ELSE 1 + FragmentSize * Len(buffer)
Fits == Bytes(fu_buffer) + FragmentSize <= Cap

IsStart(p) == p.kind = "fu" /\ p.start
IsEnd(p) == p.kind = "fu" /\ p.end /\ ~p.start
IsContinuation(p) == p.kind = "fu" /\ ~p.start /\ ~p.end

\* Mutant of Start: what is left of an earlier unit stays in the buffer.
StartAppends(p) ==
    /\ fu_buffer' = IF Fits THEN Append(fu_buffer, p.fragment) ELSE <<p.fragment>>
    /\ fu_active' = TRUE

\* A start drops what is in the buffer.
Start(p) == fu_buffer' = <<p.fragment>> /\ fu_active' = TRUE

\* Mutant of End: a unit that is too long stays in the buffer.
EndKeepsOverflow(p) ==
    /\ fu_buffer' = IF Fits THEN <<>> ELSE fu_buffer
    /\ fu_active' = FALSE

\* The end clears the buffer, whether the unit is too long or not.
End(p) == fu_buffer' = <<>> /\ fu_active' = FALSE

\* Mutant of Continuation: no test of the cap.
ContinuationUncapped(p) ==
    /\ fu_buffer' = IF fu_active THEN Append(fu_buffer, p.fragment) ELSE fu_buffer
    /\ UNCHANGED fu_active

\* A continuation without a start is discarded; one that does not fit drops the unit.
Continuation(p) ==
    \/ ~fu_active /\ UNCHANGED parser
    \/ fu_active /\ Fits /\ fu_buffer' = Append(fu_buffer, p.fragment) /\ UNCHANGED fu_active
    \/ fu_active /\ ~Fits /\ fu_buffer' = <<>> /\ fu_active' = FALSE

\* What parse does to the parser.
Parse(p) ==
    \/ IsStart(p) /\ Start(p)
    \/ IsContinuation(p) /\ Continuation(p)
    \/ IsEnd(p) /\ End(p)
    \/ p.kind \in {"nal", "stap"} /\ UNCHANGED parser

\* Mutant of FuNal: the NAL is taken before the last fragment is appended.
FuNalTooEarly(p) ==
    IF fu_buffer = <<>> THEN Nal(p.looks_like, <<p.fragment>>)
    ELSE Nal(fu_buffer[1].type, fu_buffer)

\* The NAL an end fragment completes.  An end without a start is not discarded:
\* the first byte of its data passes for the NAL header.
FuNal(p) ==
    IF fu_buffer = <<>> THEN Nal(p.looks_like, <<p.fragment>>)
    ELSE Nal(fu_buffer[1].type, Append(fu_buffer, p.fragment))

\* What parse returns: of an aggregate, only the last NAL.
Parsed(p) ==
    CASE p.kind = "nal"      -> p.nal
      [] p.kind = "stap"     -> p.nals[Len(p.nals)]
      [] IsEnd(p) /\ Fits    -> FuNal(p)
      [] OTHER               -> NoNal
==============================================================================

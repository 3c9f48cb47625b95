--------------------------- MODULE PipelineProofs ----------------------------
(***************************************************************************)
(* Proofs about Pipeline, for every cap, fragment size and frame length,   *)
(* and whatever is lost: the type invariant with the cap on the reassembly *)
(* buffer, BufferIsSound, WholeUnitsAreParsed and OnlyUnitsAreParsed.      *)
(*                                                                         *)
(* The invariant relates the reassembly buffer to what the camera is in    *)
(* the middle of sending: either the unit is damaged, or the buffer is     *)
(* what has been sent of it (InHand); a buffer that is anything else has a *)
(* fragment of a damaged unit in it (HeldOK); and what has been parsed     *)
(* ends before the unit under way (ParsedOK).                              *)
(***************************************************************************)
EXTENDS Pipeline, SequenceTheorems, TLAPS

Damaged(u) == units[u].lost \/ TooLong(u)

\* The first n fragments of a unit.
Run(u, n, type) == [i \in 1 .. n |-> Fragment(u, i, type)]
Prefix(u, n) == Run(u, n, units[u].type)

\* The unit under way.
UnderWay == part # 0 => Len(units) >= 1 /\ part < units[Len(units)].parts

InHand == part # 0 => Damaged(Len(units)) \/ fu_buffer = Prefix(Len(units), part)

HeldOK ==
    /\ \A k \in 1 .. Len(fu_buffer) : fu_buffer[k].unit \in 1 .. Len(units)
    /\ \/ fu_buffer = <<>>
       \/ part # 0 /\ fu_buffer = Prefix(Len(units), part)
       \/ \E k \in 1 .. Len(fu_buffer) : Damaged(fu_buffer[k].unit)

\* The last unit a NAL may come from.
LastSent == IF part = 0 THEN Len(units) ELSE Len(units) - 1

ParsedOK ==
    \A i \in 1 .. Len(nals) :
        /\ nals[i].data # <<>>
        /\ \A k \in 1 .. Len(nals[i].data) : nals[i].data[k].unit \in 1 .. Len(units)
        /\ nals[i].data[Len(nals[i].data)].unit <= LastSent

IInv ==
    /\ TypeOK
    /\ BufferIsSound
    /\ UnderWay
    /\ InHand
    /\ HeldOK
    /\ ParsedOK
    /\ WholeUnitsAreParsed
    /\ OnlyUnitsAreParsed
------------------------------------------------------------------------------
(***************************************************************************)
(* Types.                                                                  *)
(***************************************************************************)

Units == [type : NalTypes, parts : 1 .. MaxParts, lost : BOOLEAN, hidden : BOOLEAN]
NalSet == [type : NalTypes, data : Seq(Fragments)]

ParserTypes == fu_buffer \in Seq(Fragments) /\ Bytes(fu_buffer) <= Cap /\ fu_active \in BOOLEAN

NalTypesOK ==
    /\ sps \in Seq(Fragments) \cup {NoData} /\ pps \in Seq(Fragments) \cup {NoData}
    /\ initialized \in BOOLEAN
    /\ nals \in Seq(NalSet)

CameraTypes ==
    /\ units \in Seq(Units)
    /\ part \in 0 .. MaxParts - 1
    /\ packets \in Nat /\ recorded \in Nat /\ Sent <= MaxSent

AudioTypes ==
    /\ pending \in Seq(Nat) /\ (~encoder_failed => Len(pending) < FrameLen)
    /\ accepted \in Seq(Nat) /\ samples_total = Len(accepted)
    /\ seq_sent \in BOOLEAN /\ encoder_failed \in BOOLEAN

\* The parts of the type invariant.
LEMMA TypeParts == TypeOK <=> ParserTypes /\ NalTypesOK /\ CameraTypes /\ AudioTypes
BY DEF TypeOK, ParserTypes, NalTypesOK, CameraTypes, AudioTypes, Units, NalSet

\* A fragment more in the buffer.
LEMMA AppendFragment ==
    ASSUME NEW b \in Seq(Fragments), NEW f \in Fragments
    PROVE  /\ Append(b, f) \in Seq(Fragments) /\ Append(b, f) # <<>>
           /\ Len(Append(b, f)) = Len(b) + 1
           /\ Append(b, f)[Len(b) + 1] = f
           /\ \A k \in 1 .. Len(b) : Append(b, f)[k] = b[k]
           /\ b # <<>> => Bytes(Append(b, f)) = Bytes(b) + FragmentSize
<1>1. /\ Append(b, f) \in Seq(Fragments) /\ Append(b, f) # <<>>
      /\ Len(Append(b, f)) = Len(b) + 1
      /\ Append(b, f)[Len(b) + 1] = f
      /\ \A k \in 1 .. Len(b) : Append(b, f)[k] = b[k]
  BY AppendProperties
<1>2. PICK n \in Nat : n = Len(b)
  BY LenProperties
<1>3. FragmentSize * (n + 1) = FragmentSize * n + FragmentSize
  BY ParserAssumption
<1>4. FragmentSize * n \in Nat
  BY ParserAssumption
<1>5. b # <<>> => Bytes(Append(b, f)) = Bytes(b) + FragmentSize
  BY <1>1, <1>2, <1>3, <1>4, ParserAssumption DEF Bytes
<1> QED
  BY <1>1, <1>5

\* The first fragments of a unit, one after the other.
LEMMA RunProperties ==
    ASSUME NEW u \in 1 .. MaxSent, NEW n \in 1 .. MaxParts, NEW type \in NalTypes
    PROVE  /\ Run(u, n, type) \in Seq(Fragments) /\ Run(u, n, type) # <<>>
           /\ Len(Run(u, n, type)) = n
           /\ \A i \in 1 .. n : Run(u, n, type)[i] = Fragment(u, i, type)
           /\ Fragment(u, n, type) \in Fragments
           /\ n = 1 => Run(u, n, type) = <<Fragment(u, 1, type)>>
           /\ n > 1 => Run(u, n, type) = Append(Run(u, n - 1, type), Fragment(u, n, type))
<1> USE PipelineAssumption
<1>1. \A i \in 1 .. n : Fragment(u, i, type) \in Fragments
  BY DEF Fragment, Fragments
<1>2. Run(u, n, type) \in Seq(Fragments) /\ Len(Run(u, n, type)) = n
      /\ \A i \in 1 .. n : Run(u, n, type)[i] = Fragment(u, i, type)
  BY <1>1 DEF Run
<1>3. Run(u, n, type) # <<>>
  BY <1>2, EmptySeq
<1>4. Fragment(u, n, type) \in Fragments /\ Fragment(u, 1, type) \in Fragments
  BY <1>1
<1>5. ASSUME n = 1 PROVE Run(u, n, type) = <<Fragment(u, 1, type)>>
  <2>1. <<Fragment(u, 1, type)>> \in Seq(Fragments)
        /\ Len(<<Fragment(u, 1, type)>>) = 1
        /\ <<Fragment(u, 1, type)>>[1] = Fragment(u, 1, type)
    BY <1>4
  <2> QED
    BY <1>2, <1>5, <2>1, SeqEqual
<1>6. ASSUME n > 1 PROVE Run(u, n, type) = Append(Run(u, n - 1, type), Fragment(u, n, type))
  <2>1. PICK m \in Nat : m = n - 1 /\ n = m + 1
    BY <1>6
  <2>2. Run(u, m, type) \in Seq(Fragments) /\ Len(Run(u, m, type)) = m
        /\ \A i \in 1 .. m : Run(u, m, type)[i] = Fragment(u, i, type)
    BY <1>1, <2>1 DEF Run
  <2>3. PICK a \in Seq(Fragments) : a = Append(Run(u, m, type), Fragment(u, n, type))
    BY <1>4, <2>2, AppendProperties
  <2>4. Len(a) = m + 1 /\ a[m + 1] = Fragment(u, n, type)
        /\ \A i \in 1 .. m : a[i] = Run(u, m, type)[i]
    BY <1>4, <2>2, <2>3, AppendProperties
  <2>5. \A i \in 1 .. n : a[i] = Run(u, n, type)[i]
    BY <1>2, <2>1, <2>2, <2>4
  <2> QED
    BY <1>2, <2>1, <2>3, <2>4, <2>5, SeqEqual
<1> QED
  BY <1>2, <1>3, <1>4, <1>5, <1>6

\* A unit is its first to its last fragment.
LEMMA NalIsRun ==
    ASSUME NEW u
    PROVE  NalOf(u) = Nal(units[u].type, Run(u, units[u].parts, units[u].type))
BY DEF NalOf, Run
------------------------------------------------------------------------------
(***************************************************************************)
(* What a step does to the units and to the NALs.                          *)
(***************************************************************************)

\* The units that are there stay what they are; a lost one stays lost.
Grow ==
    /\ Len(units) <= Len(units')
    /\ \A u \in 1 .. Len(units) :
          /\ units'[u].type = units[u].type /\ units'[u].parts = units[u].parts
          /\ units'[u].hidden = units[u].hidden
          /\ units[u].lost => units'[u].lost

\* A unit stays the same, and damaged.
LEMMA GrowKeeps ==
    ASSUME Grow, NEW u \in 1 .. Len(units)
    PROVE  NalOf(u)' = NalOf(u) /\ (Damaged(u) => Damaged(u)')
           /\ \A n : Prefix(u, n)' = Prefix(u, n)
BY DEF Grow, NalOf, Damaged, TooLong, Prefix, Run, Nal, Fragment

\* A unit that ought to have been parsed by now.
Due(u) == Complete(u) /\ ~units[u].lost /\ ~units[u].hidden /\ ~TooLong(u)

\* The properties of the NALs.
NalsOK == ParsedOK /\ WholeUnitsAreParsed /\ OnlyUnitsAreParsed

\* The fragments of a NAL.
LEMMA DataOf ==
    ASSUME IInv, NEW i \in 1 .. Len(nals)
    PROVE  nals[i] \in NalSet /\ nals[i].data \in Seq(Fragments)
<1>1. nals \in Seq(NalSet)
  BY TypeParts DEF IInv, NalTypesOK
<1>2. nals[i] \in NalSet
  BY <1>1, ElementOfSeq
<1> QED
  BY <1>2 DEF NalSet

\* No NAL is parsed, and no unit becomes due.
LEMMA NothingParsed ==
    ASSUME IInv, Grow, nals' = nals, LastSent <= LastSent', LastSent' \in Nat,
           \A u \in 1 .. Len(units') : Due(u)' => u <= Len(units) /\ Due(u)
    PROVE  NalsOK'
<1> DEFINE L == Len(units)
           M == Len(units')
<1>0. L \in Nat /\ units \in Seq(Units) /\ LastSent \in Int /\ L <= M
      /\ DOMAIN units = 1 .. L /\ nals \in Seq(NalSet) /\ DOMAIN nals = 1 .. Len(nals)
  BY TypeParts, LenProperties DEF IInv, CameraTypes, NalTypesOK, LastSent, Grow
<1>1. ParsedOK'
  <2> SUFFICES ASSUME NEW i \in 1 .. Len(nals)
               PROVE  /\ nals[i].data # <<>>
                      /\ \A k \in 1 .. Len(nals[i].data) : nals[i].data[k].unit \in 1 .. M
                      /\ nals[i].data[Len(nals[i].data)].unit <= LastSent'
    BY DEF ParsedOK
  <2>1. PICK d \in Seq(Fragments) : d = nals[i].data
    BY <1>0, DataOf
  <2>2. /\ d # <<>> /\ Len(d) \in 1 .. Len(d)
        /\ \A k \in 1 .. Len(d) : d[k].unit \in 1 .. L
        /\ d[Len(d)].unit <= LastSent
    BY <2>1, EmptySeq DEF IInv, ParsedOK
  <2>3. d[Len(d)].unit \in 1 .. L
    BY <2>2
  <2>4. \A k \in 1 .. Len(d) : d[k].unit \in 1 .. M
    BY <1>0, <2>2
  <2>5. d[Len(d)].unit <= LastSent'
    BY <1>0, <2>2, <2>3
  <2> QED
    BY <2>1, <2>2, <2>4, <2>5
<1>2. WholeUnitsAreParsed'
  <2> SUFFICES ASSUME NEW u \in DOMAIN units', Due(u)'
               PROVE  \E i \in DOMAIN nals : nals[i] = NalOf(u)'
    BY DEF WholeUnitsAreParsed, Due
  <2>1. u \in 1 .. M
    BY DEF IInv
  <2> QED
    BY <1>0, <2>1, GrowKeeps DEF IInv, WholeUnitsAreParsed, Due
<1>3. OnlyUnitsAreParsed'
  <2> SUFFICES ASSUME NEW i \in DOMAIN nals
               PROVE  \/ nals[i] = NalOf(nals[i].data[1].unit)'
                      \/ \E k \in DOMAIN nals[i].data : Damaged(nals[i].data[k].unit)'
    BY DEF OnlyUnitsAreParsed, Damaged, IInv
  <2>1. PICK d \in Seq(Fragments) : d = nals[i].data
    BY <1>0, DataOf
  <2>2. /\ 1 \in 1 .. Len(d) /\ DOMAIN d = 1 .. Len(d)
        /\ \A k \in 1 .. Len(d) : d[k].unit \in 1 .. L
    BY <1>0, <2>1, EmptySeq, LenProperties DEF IInv, ParsedOK
  <2>3. \/ nals[i] = NalOf(d[1].unit)
        \/ \E k \in DOMAIN d : Damaged(d[k].unit)
    BY <2>1 DEF IInv, OnlyUnitsAreParsed, Damaged
  <2> QED
    BY <2>1, <2>2, <2>3, GrowKeeps
<1> QED
  BY <1>1, <1>2, <1>3 DEF NalsOK

\* A NAL is parsed: it ends with a unit that none before it does, and it is that
\* unit or is made of a damaged one; no other unit becomes due.
LEMMA NalParsed ==
    ASSUME IInv, Grow, NEW nal \in NalSet, nals' = Append(nals, nal), LastSent <= LastSent',
           LastSent' \in Nat,
           nal.data # <<>>,
           \A k \in 1 .. Len(nal.data) : nal.data[k].unit \in 1 .. Len(units'),
           nal.data[Len(nal.data)].unit > LastSent,
           nal.data[Len(nal.data)].unit <= LastSent',
           \/ nal = NalOf(nal.data[1].unit)'
           \/ \E k \in 1 .. Len(nal.data) : Damaged(nal.data[k].unit)',
           \A u \in 1 .. Len(units') :
              Due(u)' => nal = NalOf(u)' \/ (u <= Len(units) /\ Due(u))
    PROVE  NalsOK'
<1> DEFINE L == Len(units)
           M == Len(units')
<1> PICK N : N = Len(nals)
  OBVIOUS
<1>0. L \in Nat /\ units \in Seq(Units) /\ LastSent \in Int /\ L <= M
      /\ DOMAIN units = 1 .. L /\ nals \in Seq(NalSet) /\ DOMAIN nals = 1 .. N /\ N \in Nat
  BY TypeParts, LenProperties DEF IInv, CameraTypes, NalTypesOK, LastSent, Grow
<1>1. /\ nals' \in Seq(NalSet) /\ Len(nals') = N + 1 /\ DOMAIN nals' = 1 .. N + 1
      /\ nals'[N + 1] = nal
      /\ \A i \in 1 .. N : nals'[i] = nals[i]
  BY <1>0, AppendProperties, LenProperties
<1>2. \A i \in 1 .. N :
         /\ nals[i].data # <<>>
         /\ \A k \in 1 .. Len(nals[i].data) : nals[i].data[k].unit \in 1 .. L
         /\ nals[i].data[Len(nals[i].data)].unit \in 1 .. L
         /\ nals[i].data[Len(nals[i].data)].unit <= LastSent
  <2> SUFFICES ASSUME NEW i \in 1 .. N
               PROVE  nals[i].data[Len(nals[i].data)].unit \in 1 .. L
    BY DEF IInv, ParsedOK
  <2>1. PICK d \in Seq(Fragments) : d = nals[i].data
    BY DataOf
  <2>2. Len(d) \in 1 .. Len(d)
    BY <2>1, EmptySeq DEF IInv, ParsedOK
  <2> QED
    BY <2>1, <2>2 DEF IInv, ParsedOK
<1>3. ParsedOK'
  <2> SUFFICES ASSUME NEW i \in 1 .. N + 1
               PROVE  /\ nals'[i].data # <<>>
                      /\ \A k \in 1 .. Len(nals'[i].data) : nals'[i].data[k].unit \in 1 .. M
                      /\ nals'[i].data[Len(nals'[i].data)].unit <= LastSent'
    BY <1>1 DEF ParsedOK
  <2>1. CASE i = N + 1
    BY <1>1, <2>1
  <2>2. CASE i \in 1 .. N
    <3>1. \A k \in 1 .. Len(nals[i].data) : nals[i].data[k].unit \in 1 .. M
      BY <1>0, <1>2, <2>2
    <3>2. nals[i].data[Len(nals[i].data)].unit <= LastSent'
      BY <1>0, <1>2, <2>2
    <3> QED
      BY <1>1, <1>2, <2>2, <3>1, <3>2
  <2> QED
    BY <1>0, <2>1, <2>2
<1>4. WholeUnitsAreParsed'
  <2> SUFFICES ASSUME NEW u \in DOMAIN units', Due(u)'
               PROVE  \E i \in DOMAIN nals' : nals'[i] = NalOf(u)'
    BY DEF WholeUnitsAreParsed, Due
  <2>1. u \in 1 .. M
    BY DEF IInv
  <2>2. CASE nal = NalOf(u)'
    <3>1. N + 1 \in DOMAIN nals' /\ nals'[N + 1] = NalOf(u)'
      BY <1>0, <1>1, <2>2
    <3> QED
      BY <3>1
  <2>3. CASE u <= L /\ Due(u)
    <3>1. PICK i \in 1 .. N : nals[i] = NalOf(u)
      BY <1>0, <2>1, <2>3 DEF IInv, WholeUnitsAreParsed, Due
    <3>2. i \in DOMAIN nals' /\ nals'[i] = nals[i]
      BY <1>0, <1>1
    <3>3. NalOf(u)' = NalOf(u)
      BY <1>0, <2>1, <2>3, GrowKeeps
    <3> QED
      BY <3>1, <3>2, <3>3, Zenon
  <2> QED
    BY <2>1, <2>2, <2>3
<1>5. OnlyUnitsAreParsed'
  <2>1. ASSUME NEW i \in 1 .. N + 1
        PROVE  \/ nals'[i] = NalOf(nals[i].data[1].unit)'
               \/ \E k \in DOMAIN nals'[i].data : Damaged(nals[i].data[k].unit)'
    <3>1. CASE i = N + 1
      <4>1. DOMAIN nal.data = 1 .. Len(nal.data)
        BY LenProperties DEF NalSet
      <4> QED
        BY <1>1, <3>1, <4>1
    <3>2. CASE i \in 1 .. N
      <4>1. PICK d \in Seq(Fragments) : d = nals[i].data
        BY <3>2, DataOf
      <4>2. /\ 1 \in 1 .. Len(d) /\ DOMAIN d = 1 .. Len(d)
            /\ \A k \in 1 .. Len(d) : d[k].unit \in 1 .. L
        BY <1>2, <3>2, <4>1, EmptySeq, LenProperties
      <4>3. \/ nals[i] = NalOf(d[1].unit)
            \/ \E k \in DOMAIN d : Damaged(d[k].unit)
        BY <1>0, <3>2, <4>1 DEF IInv, OnlyUnitsAreParsed, Damaged
      <4> QED
        BY <1>1, <3>2, <4>1, <4>2, <4>3, GrowKeeps
    <3> QED
      BY <1>0, <3>1, <3>2
  <2>2. ASSUME NEW i \in 1 .. N + 1, NEW j \in 1 .. N + 1, j < i
        PROVE  nals'[j].data[Len(nals'[j].data)].unit < nals'[i].data[Len(nals'[i].data)].unit
    <3>0. j \in 1 .. N
      BY <1>0, <2>2
    <3>1. CASE i = N + 1
      <4>1. PICK x \in Nat : x = nals[j].data[Len(nals[j].data)].unit /\ x <= LastSent
        <5>1. /\ nals[j].data[Len(nals[j].data)].unit \in 1 .. L
              /\ nals[j].data[Len(nals[j].data)].unit <= LastSent
          BY <1>2, <3>0
        <5>2. 1 .. L \subseteq Nat
          BY <1>0
        <5> QED
          BY <5>1, <5>2
      <4>2. PICK y \in Nat : y = nal.data[Len(nal.data)].unit /\ y > LastSent
        <5>1. PICK d \in Seq(Fragments) : d = nal.data
          BY DEF NalSet
        <5>2. Len(d) \in 1 .. Len(d)
          BY <5>1, EmptySeq
        <5>3. d[Len(d)].unit \in Nat
          <6>1. PICK e \in 1 .. Len(d) : e = Len(d)
            BY <5>2
          <6>2. d[e] \in Fragments
            BY <5>1, ElementOfSeq
          <6> QED
            BY <6>1, <6>2 DEF Fragments
        <5> QED
          BY <5>1, <5>3
      <4> QED
        <5>1. x < y
          <6>1. PICK z \in Int : z = LastSent
            BY <1>0
          <6>2. x <= z /\ y > z
            BY <4>1, <4>2, <6>1
          <6> QED
            BY <6>2
        <5>2. nals'[i] = nal /\ nals'[j] = nals[j]
          BY <1>1, <3>0, <3>1
        <5> QED
          BY <4>1, <4>2, <5>1, <5>2
    <3>2. CASE i \in 1 .. N
      BY <1>0, <1>1, <2>2, <3>0, <3>2 DEF IInv, OnlyUnitsAreParsed
    <3>3. i = N + 1 \/ i \in 1 .. N
      BY <1>0
    <3> QED
      BY <3>1, <3>2, <3>3
  <2> QED
    BY <1>1, <2>1, <2>2 DEF OnlyUnitsAreParsed, Damaged
<1> QED
  BY <1>3, <1>4, <1>5 DEF NalsOK
------------------------------------------------------------------------------
(***************************************************************************)
(* What the packets are to the parser.                                     *)
(***************************************************************************)

\* A NAL unit alone in a packet.
LEMMA SinglePacket ==
    ASSUME NEW u, NEW type
    PROVE  /\ Parsed(Single(u, type)) = Whole(u, type)
           /\ Parse(Single(u, type)) => UNCHANGED parser
BY DEF Parsed, Single, Parse, IsStart, IsContinuation, IsEnd

\* Two in one packet: the second is returned.
LEMMA AggregatePacket ==
    ASSUME NEW u, NEW t1, NEW t2
    PROVE  /\ Parsed(Aggregate(u, t1, t2)) = Whole(u + 1, t2)
           /\ Parse(Aggregate(u, t1, t2)) => UNCHANGED parser
BY DEF Parsed, Aggregate, Parse, IsStart, IsContinuation, IsEnd

\* The first fragment of a unit.
LEMMA StartPacket ==
    ASSUME NEW u, NEW n \in Nat, n > 1, NEW type, NEW t
    PROVE  /\ Parsed(Fu(u, 1, n, type, t)) = NoNal
           /\ Parse(Fu(u, 1, n, type, t)) =>
                 fu_buffer' = <<Fragment(u, 1, type)>> /\ fu_active' = TRUE
BY DEF Parsed, Fu, Parse, IsStart, IsContinuation, IsEnd, Start

\* A fragment that is neither the first nor the last.
LEMMA MiddlePacket ==
    ASSUME NEW u, NEW n \in Nat, NEW i \in Nat, 1 < i, i < n, NEW type, NEW t
    PROVE  /\ Parsed(Fu(u, i, n, type, t)) = NoNal
           /\ Parse(Fu(u, i, n, type, t)) => Continuation(Fu(u, i, n, type, t))
           /\ Fu(u, i, n, type, t).fragment = Fragment(u, i, type)
<1>1. PICK p : p = Fu(u, i, n, type, t)
  OBVIOUS
<1>2. p.kind = "fu" /\ ~p.start /\ ~p.end /\ p.fragment = Fragment(u, i, type)
  <2>1. p.kind = "fu" /\ p.fragment = Fragment(u, i, type)
    BY <1>1 DEF Fu
  <2>2. p.start = (i = 1) /\ p.end = (i = n)
    BY <1>1, Zenon DEF Fu
  <2>3. i # 1 /\ i # n
    OBVIOUS
  <2> QED
    BY <2>1, <2>2, <2>3, Zenon
<1>3. ~IsStart(p) /\ ~IsEnd(p) /\ IsContinuation(p)
  BY <1>2 DEF IsStart, IsEnd, IsContinuation
<1>4. Parsed(p) = NoNal
  BY <1>2, <1>3 DEF Parsed
<1>5. Parse(p) => Continuation(p)
  BY <1>2, <1>3 DEF Parse
<1> QED
  BY <1>1, <1>2, <1>4, <1>5

\* The last fragment of a unit.
LEMMA EndPacket ==
    ASSUME NEW u, NEW n \in Nat, n > 1, NEW type, NEW t
    PROVE  /\ Parsed(Fu(u, n, n, type, t)) =
                 IF ~Fits THEN NoNal
                 ELSE IF fu_buffer = <<>> THEN Nal(t, <<Fragment(u, n, type)>>)
                 ELSE Nal(fu_buffer[1].type, Append(fu_buffer, Fragment(u, n, type)))
           /\ Parse(Fu(u, n, n, type, t)) => fu_buffer' = <<>> /\ fu_active' = FALSE
<1>1. PICK p : p = Fu(u, n, n, type, t)
  OBVIOUS
<1>2. p.kind = "fu" /\ ~p.start /\ p.end /\ p.fragment = Fragment(u, n, type) /\ p.looks_like = t
  <2>1. p.kind = "fu" /\ p.fragment = Fragment(u, n, type) /\ p.looks_like = t
    BY <1>1 DEF Fu
  <2>2. p.start = (n = 1) /\ p.end = (n = n)
    BY <1>1, Zenon DEF Fu
  <2>3. n # 1
    OBVIOUS
  <2> QED
    BY <2>1, <2>2, <2>3, Zenon
<1>3. ~IsStart(p) /\ IsEnd(p) /\ ~IsContinuation(p)
  BY <1>2 DEF IsStart, IsEnd, IsContinuation
<1>4. Parsed(p) = IF Fits THEN FuNal(p) ELSE NoNal
  BY <1>2, <1>3 DEF Parsed
<1>5. Parse(p) => End(p)
  BY <1>2, <1>3 DEF Parse
<1> QED
  BY <1>1, <1>2, <1>4, <1>5 DEF FuNal, End

\* A NAL is handed to the muxer, or none is.
LEMMA Muxed ==
    ASSUME NalTypesOK, NEW p, Parsed(p) \in NalSet \cup {NoNal}, Receive(p)
    PROVE  /\ NalTypesOK'
           /\ Parsed(p) = NoNal => nals' = nals
           /\ Parsed(p) # NoNal => nals' = Append(nals, Parsed(p))
<1>1. CASE Parsed(p) = NoNal
  BY <1>1 DEF Receive, NalTypesOK, muxer
<1>2. CASE Parsed(p) # NoNal
  <2>1. PICK nal \in NalSet : nal = Parsed(p)
    BY <1>2
  <2>2. nals' = Append(nals, nal) /\ ProcessNal(nal)
    BY <1>2, <2>1 DEF Receive
  <2>3. nals' \in Seq(NalSet)
    BY <2>2, AppendProperties DEF NalTypesOK
  <2>4. sps' \in Seq(Fragments) \cup {NoData} /\ pps' \in Seq(Fragments) \cup {NoData}
    BY <2>2 DEF ProcessNal, Sps, Pps, NalTypesOK, NalSet
  <2>5. initialized' \in BOOLEAN
    <3>1. initialized' = (initialized \/ Completes(nal))
      BY <2>2 DEF ProcessNal
    <3> QED
      BY <3>1, Zenon
  <2> QED
    BY <1>2, <2>1, <2>2, <2>3, <2>4, <2>5 DEF NalTypesOK
<1> QED
  BY <1>1, <1>2
------------------------------------------------------------------------------
(***************************************************************************)
(* The steps.                                                              *)
(***************************************************************************)

\* The parts of the invariant.
LEMMA InvParts ==
    IInv <=> /\ ParserTypes /\ NalTypesOK /\ CameraTypes /\ AudioTypes
             /\ BufferIsSound /\ UnderWay /\ InHand /\ HeldOK /\ NalsOK
BY TypeParts DEF IInv, NalsOK

LEMMA InvAgain ==
    ASSUME ParserTypes', NalTypesOK', CameraTypes', AudioTypes',
           BufferIsSound', UnderWay', InHand', HeldOK', NalsOK'
    PROVE  IInv'
<1>1. TypeOK'
  BY DEF TypeOK, ParserTypes, NalTypesOK, CameraTypes, AudioTypes, Units, NalSet
<1> QED
  BY <1>1 DEF IInv, NalsOK

\* New units, when the last one is complete.
LEMMA NewUnits ==
    ASSUME IInv, part = 0, units' \in Seq(Units), Len(units) < Len(units'),
           \A u \in 1 .. Len(units) : units'[u] = units[u]
    PROVE  /\ Grow
           /\ \A u \in 1 .. Len(units') : Due(u)' => u > Len(units) \/ (u <= Len(units) /\ Due(u))
           /\ fu_buffer' = fu_buffer => HeldOK'
<1>1. Len(units) \in Nat /\ Len(units') \in Nat
  BY TypeParts, LenProperties DEF IInv, CameraTypes
<1>2. Grow
  BY <1>1 DEF Grow
<1>3. ASSUME NEW u \in 1 .. Len(units'), Due(u)' PROVE u > Len(units) \/ (u <= Len(units) /\ Due(u))
  BY <1>1, <1>3 DEF Due, Complete, TooLong
<1>4. ASSUME fu_buffer' = fu_buffer PROVE HeldOK'
  <2>1. \A k \in 1 .. Len(fu_buffer) : fu_buffer[k].unit \in 1 .. Len(units')
    BY <1>1 DEF IInv, HeldOK
  <2>2. fu_buffer = <<>> \/ \E k \in 1 .. Len(fu_buffer) : Damaged(fu_buffer[k].unit)
    BY DEF IInv, HeldOK
  <2>3. ASSUME NEW k \in 1 .. Len(fu_buffer), Damaged(fu_buffer[k].unit)
        PROVE  Damaged(fu_buffer[k].unit)'
    <3>1. PICK w \in 1 .. Len(units) : w = fu_buffer[k].unit
      BY DEF IInv, HeldOK
    <3>2. Damaged(w)'
      BY <1>2, <2>3, <3>1, GrowKeeps
    <3> QED
      BY <1>4, <3>1, <3>2
  <2> QED
    BY <1>4, <2>1, <2>2, <2>3 DEF HeldOK
<1> QED
  BY <1>2, <1>3, <1>4

\* One more.
LEMMA OneMoreUnit ==
    ASSUME IInv, part = 0, Sent < MaxSent, NEW x \in Units, units' = Append(units, x),
           part' \in {0, 1}, part' < x.parts, UNCHANGED audio
    PROVE  /\ units' \in Seq(Units) /\ Len(units) \in Nat /\ Len(units') = Len(units) + 1
           /\ Len(units') \in 1 .. MaxSent
           /\ units'[Len(units')] = x
           /\ \A u \in 1 .. Len(units) : units'[u] = units[u]
           /\ CameraTypes' /\ UnderWay'
<1> USE PipelineAssumption
<1>1. /\ units \in Seq(Units) /\ packets \in Nat /\ recorded \in Nat
      /\ Len(units) + packets < MaxSent
  BY TypeParts DEF IInv, CameraTypes, Sent
<1>2. PICK n \in Nat : n = Len(units)
  BY <1>1, LenProperties
<1>3. /\ units' \in Seq(Units) /\ Len(units') = n + 1 /\ units'[n + 1] = x
      /\ \A u \in 1 .. n : units'[u] = units[u]
  BY <1>1, <1>2, AppendProperties
<1>4. packets' = packets /\ recorded' = recorded
  BY DEF audio
<1>5. CameraTypes'
  <2>1. part' \in 0 .. MaxParts - 1
    BY DEF Units
  <2>2. n + 1 + packets <= MaxSent
    BY <1>1, <1>2
  <2> QED
    BY <1>1, <1>3, <1>4, <2>1, <2>2 DEF CameraTypes, Sent
<1>6. UnderWay'
  BY <1>2, <1>3 DEF UnderWay
<1>7. n + 1 \in 1 .. MaxSent
  BY <1>1, <1>2
<1> QED
  BY <1>2, <1>3, <1>5, <1>6, <1>7

\* A unit alone in a packet.
LEMMA SingleStep == ASSUME IInv, SendSingle, UNCHANGED audio PROVE IInv'
<1> USE PipelineAssumption
<1>1. PICK type \in NalTypes, lost \in BOOLEAN :
         /\ IF lost THEN Lose ELSE Receive(Single(Next1, type))
         /\ units' = Append(units, Unit(type, 1, lost, FALSE))
  BY DEF SendSingle
<1>2. PICK x \in Units : x = Unit(type, 1, lost, FALSE)
  <2>1. 1 \in 1 .. MaxParts /\ FALSE \in BOOLEAN
    OBVIOUS
  <2> QED
    BY <2>1, Zenon DEF Units, Unit
<1>3. part = 0 /\ part' = 0 /\ Sent < MaxSent /\ x.parts = 1 /\ x.lost = lost /\ x.type = type
  BY <1>2 DEF SendSingle, Unit
<1>4. /\ units' \in Seq(Units) /\ Len(units) \in Nat /\ Len(units') = Len(units) + 1
      /\ Len(units') \in 1 .. MaxSent
      /\ units'[Len(units')] = x
      /\ \A u \in 1 .. Len(units) : units'[u] = units[u]
      /\ CameraTypes' /\ UnderWay'
  <2>1. part' \in {0, 1} /\ part' < x.parts /\ units' = Append(units, x)
    <3>1. units' = Append(units, x)
      BY <1>1, <1>2
    <3> QED
      BY <1>3, <3>1
  <2> QED
    BY <1>3, <2>1, OneMoreUnit
<1>5. /\ Grow
      /\ \A u \in 1 .. Len(units') : Due(u)' => u > Len(units) \/ (u <= Len(units) /\ Due(u))
      /\ fu_buffer' = fu_buffer => HeldOK'
  BY <1>3, <1>4, NewUnits
<1>6. PICK n \in 1 .. MaxSent : n = Len(units') /\ n = Next1
  BY <1>4 DEF Next1
<1>7. Whole(n, type) \in NalSet /\ Whole(n, type).data = <<Fragment(n, 1, type)>>
      /\ Whole(n, type) = NalOf(n)'
  <2>1. 1 \in 1 .. MaxParts
    OBVIOUS
  <2>2. /\ Run(n, 1, type) \in Seq(Fragments)
        /\ Run(n, 1, type) = <<Fragment(n, 1, type)>>
    BY <2>1, RunProperties
  <2>3. Whole(n, type) = Nal(type, Run(n, 1, type))
    BY <2>2 DEF Whole
  <2>4. NalOf(n)' = Nal(type, Run(n, 1, type))
    BY <1>3, <1>4, <1>6 DEF NalOf, Run, Nal, Fragment
  <2> QED
    BY <2>2, <2>3, <2>4 DEF NalSet, Nal
<1>8. LastSent = Len(units) /\ LastSent' = Len(units')
  BY <1>3 DEF LastSent
<1>9. UNCHANGED parser /\ NalTypesOK' /\ NalsOK'
  <2>1. CASE lost
    <3>1. UNCHANGED <<parser, muxer, nals, tags>>
      BY <1>1, <2>1 DEF Lose
    <3>2. NalTypesOK'
      BY <3>1, InvParts DEF NalTypesOK, muxer
    <3>3. \A u \in 1 .. Len(units') : Due(u)' => u <= Len(units) /\ Due(u)
      <4>1. units'[Len(units')].lost
        BY <1>3, <1>4, <2>1
      <4>2. \A u \in 1 .. Len(units') : Due(u)' => u # Len(units')
        BY <4>1 DEF Due
      <4> QED
        BY <1>4, <1>5, <4>2
    <3> QED
      BY <1>4, <1>5, <1>8, <3>1, <3>2, <3>3, NothingParsed
  <2>2. CASE ~lost
    <3>1. Parsed(Single(n, type)) = Whole(n, type) /\ Receive(Single(n, type))
          /\ UNCHANGED parser
      BY <1>1, <1>6, <2>2, SinglePacket DEF Receive
    <3>2. Whole(n, type) # NoNal
      BY DEF Whole, NoNal, Nal, NalTypes
    <3>3. NalTypesOK' /\ nals' = Append(nals, Whole(n, type))
      BY <1>7, <3>1, <3>2, InvParts, Muxed
    <3>4. /\ Whole(n, type).data # <<>> /\ Len(Whole(n, type).data) = 1
          /\ Whole(n, type).data[1].unit = n
      BY <1>7 DEF Fragment
    <3>5. \A u \in 1 .. Len(units') : Due(u)' => Whole(n, type) = NalOf(u)' \/ (u <= Len(units) /\ Due(u))
      BY <1>4, <1>5, <1>6, <1>7
    <3>6. PICK nal \in NalSet : nal = Whole(n, type)
      BY <1>7
    <3> QED
      BY <1>4, <1>5, <1>6, <1>7, <1>8, <3>1, <3>3, <3>4, <3>5, <3>6, NalParsed
  <2> QED
    BY <2>1, <2>2
<1>10. ParserTypes' /\ BufferIsSound' /\ HeldOK'
  BY <1>5, <1>9, InvParts DEF ParserTypes, BufferIsSound, Bytes, parser
<1>11. InHand' /\ AudioTypes'
  BY <1>3, InvParts DEF InHand, AudioTypes, audio, transcoder
<1> QED
  BY <1>4, <1>9, <1>10, <1>11, InvAgain

\* The first fragment of a unit.
LEMMA StartStep == ASSUME IInv, SendStart, UNCHANGED audio PROVE IInv'
<1> USE PipelineAssumption
<1>1. PICK type \in NalTypes, n \in 2 .. MaxParts, lost \in BOOLEAN :
         /\ IF lost THEN Lose ELSE Receive(Fu(Next1, 1, n, type, type))
         /\ units' = Append(units, Unit(type, n, lost, FALSE))
  BY DEF SendStart
<1>2. PICK x \in Units : x = Unit(type, n, lost, FALSE)
  <2>1. n \in 1 .. MaxParts /\ FALSE \in BOOLEAN
    OBVIOUS
  <2> QED
    BY <2>1, Zenon DEF Units, Unit
<1>3. part = 0 /\ part' = 1 /\ Sent < MaxSent /\ x.parts = n /\ x.lost = lost /\ x.type = type
  BY <1>2 DEF SendStart, Unit
<1>4. /\ units' \in Seq(Units) /\ Len(units) \in Nat /\ Len(units') = Len(units) + 1
      /\ Len(units') \in 1 .. MaxSent
      /\ units'[Len(units')] = x
      /\ \A u \in 1 .. Len(units) : units'[u] = units[u]
      /\ CameraTypes' /\ UnderWay'
  <2>1. units' = Append(units, x)
    BY <1>1, <1>2
  <2>2. part' \in {0, 1} /\ part' < x.parts
    BY <1>3
  <2> QED
    BY <1>3, <2>1, <2>2, OneMoreUnit
<1>5. /\ Grow
      /\ \A u \in 1 .. Len(units') : Due(u)' => u > Len(units) \/ (u <= Len(units) /\ Due(u))
      /\ fu_buffer' = fu_buffer => HeldOK'
  BY <1>3, <1>4, NewUnits
<1>6. PICK m \in 1 .. MaxSent : m = Len(units') /\ m = Next1
  BY <1>4 DEF Next1
<1>7. LastSent = Len(units) /\ LastSent' = Len(units)
  BY <1>3, <1>4 DEF LastSent
<1>8. \A u \in 1 .. Len(units') : Due(u)' => u <= Len(units) /\ Due(u)
  <2>1. \A u \in 1 .. Len(units') : Due(u)' => u < Len(units')
    BY <1>3 DEF Due, Complete
  <2> QED
    BY <1>4, <1>5, <2>1
<1>9. CASE lost
  <2>1. UNCHANGED <<parser, muxer, nals, tags>>
    BY <1>1, <1>9 DEF Lose
  <2>2. NalTypesOK' /\ ParserTypes' /\ AudioTypes' /\ BufferIsSound'
    BY <2>1, InvParts DEF NalTypesOK, ParserTypes, Bytes, parser, muxer, AudioTypes, audio,
                          transcoder, BufferIsSound
  <2>3. NalsOK'
    BY <1>4, <1>5, <1>7, <1>8, <2>1, NothingParsed
  <2>4. InHand'
    <3>1. units'[Len(units')].lost
      BY <1>3, <1>4, <1>9
    <3> QED
      BY <3>1 DEF InHand, Damaged
  <2> QED
    BY <1>4, <1>5, <2>1, <2>2, <2>3, <2>4, InvAgain DEF parser
<1>10. CASE ~lost
  <2>1. /\ Receive(Fu(m, 1, n, type, type)) /\ Parsed(Fu(m, 1, n, type, type)) = NoNal
        /\ fu_buffer' = <<Fragment(m, 1, type)>> /\ fu_active' = TRUE
    <3>1. n \in Nat /\ n > 1
      OBVIOUS
    <3>2. Receive(Fu(m, 1, n, type, type))
      BY <1>1, <1>6, <1>10
    <3>3. Parse(Fu(m, 1, n, type, type))
      BY <3>2 DEF Receive
    <3> QED
      BY <3>1, <3>2, <3>3, StartPacket
  <2>2. NalTypesOK' /\ nals' = nals
    BY <2>1, InvParts, Muxed
  <2>3. NalsOK'
    BY <1>4, <1>5, <1>7, <1>8, <2>2, NothingParsed
  <2>4. /\ Run(m, 1, type) \in Seq(Fragments) /\ Len(Run(m, 1, type)) = 1
        /\ Run(m, 1, type) = fu_buffer' /\ Run(m, 1, type)[1] = Fragment(m, 1, type)
        /\ fu_buffer' # <<>>
    <3>1. 1 \in 1 .. MaxParts
      OBVIOUS
    <3> QED
      BY <2>1, <3>1, RunProperties
  <2>5. ParserTypes'
    <3>1. FragmentSize * 1 = FragmentSize
      BY ParserAssumption
    <3> QED
      BY <2>1, <2>4, <3>1, ParserAssumption DEF ParserTypes, Bytes
  <2>6. BufferIsSound'
    BY <2>1, <2>4 DEF BufferIsSound, Fragment
  <2>7. fu_buffer' = Prefix(Len(units), part)'
    BY <1>3, <1>4, <1>6, <2>4 DEF Prefix, Run, Fragment
  <2>8. InHand' /\ HeldOK'
    <3>1. Len(fu_buffer') = 1 /\ fu_buffer'[1].unit = m
      BY <2>4 DEF Fragment
    <3>2. \A k \in 1 .. Len(fu_buffer') : fu_buffer'[k].unit \in 1 .. Len(units')
      BY <1>6, <3>1
    <3>3. part' # 0
      BY <1>3
    <3> QED
      BY <2>7, <3>2, <3>3 DEF InHand, HeldOK
  <2>9. AudioTypes'
    BY InvParts DEF AudioTypes, audio, transcoder
  <2> QED
    BY <1>4, <2>2, <2>3, <2>5, <2>6, <2>8, <2>9, InvAgain
<1> QED
  BY <1>9, <1>10

\* Two units in one packet.
LEMMA AggregateStep == ASSUME IInv, SendAggregate, UNCHANGED audio PROVE IInv'
<1> USE PipelineAssumption
<1>1. PICK t1 \in NalTypes, t2 \in NalTypes, lost \in BOOLEAN :
         /\ IF lost THEN Lose ELSE Receive(Aggregate(Next1, t1, t2))
         /\ units' = Append(Append(units, Unit(t1, 1, lost, TRUE)), Unit(t2, 1, lost, FALSE))
  BY DEF SendAggregate
<1>2. PICK x \in Units, y \in Units : x = Unit(t1, 1, lost, TRUE) /\ y = Unit(t2, 1, lost, FALSE)
  <2>1. 1 \in 1 .. MaxParts /\ FALSE \in BOOLEAN /\ TRUE \in BOOLEAN
    OBVIOUS
  <2> QED
    BY <2>1, Zenon DEF Units, Unit
<1>3. /\ part = 0 /\ part' = 0 /\ x.hidden /\ x.lost = lost
      /\ y.parts = 1 /\ y.lost = lost /\ y.type = t2
  BY <1>2 DEF SendAggregate, Unit
<1>4. PICK l \in Nat : l = Len(units) /\ l + 1 + packets < MaxSent
  <2>1. Len(units) \in Nat
    BY InvParts, LenProperties DEF CameraTypes
  <2>2. Len(units) + packets + 1 < MaxSent /\ packets \in Nat
    BY InvParts DEF SendAggregate, Sent, CameraTypes
  <2> QED
    BY <2>1, <2>2
<1>5. /\ units' \in Seq(Units) /\ Len(units') = l + 2
      /\ units'[l + 1] = x /\ units'[l + 2] = y
      /\ \A u \in 1 .. l : units'[u] = units[u]
  <2>1. PICK a \in Seq(Units) : a = Append(units, x)
    BY InvParts, AppendProperties DEF CameraTypes
  <2>2. Len(a) = l + 1 /\ a[l + 1] = x /\ \A u \in 1 .. l : a[u] = units[u]
    BY <1>4, <2>1, InvParts, AppendProperties DEF CameraTypes
  <2>3. units' = Append(a, y)
    BY <1>1, <1>2, <2>1
  <2>4. /\ units' \in Seq(Units) /\ Len(units') = l + 1 + 1 /\ units'[l + 1 + 1] = y
        /\ \A u \in 1 .. l + 1 : units'[u] = a[u]
    BY <2>2, <2>3, AppendProperties
  <2>5. l + 1 + 1 = l + 2 /\ l + 1 \in 1 .. l + 1 /\ \A u \in 1 .. l : u \in 1 .. l + 1
    OBVIOUS
  <2> QED
    BY <2>2, <2>4, <2>5
<1>6. CameraTypes' /\ UnderWay' /\ l + 2 \in 1 .. MaxSent /\ l + 1 \in Nat
  <2>1. packets \in Nat /\ recorded \in Nat /\ packets' = packets /\ recorded' = recorded
    BY InvParts DEF CameraTypes, audio
  <2>2. l + 2 + packets <= MaxSent
    BY <1>4, <2>1
  <2> QED
    BY <1>3, <1>4, <1>5, <2>1, <2>2 DEF CameraTypes, UnderWay, Sent
<1>7. /\ Grow
      /\ \A u \in 1 .. Len(units') : Due(u)' => u > Len(units) \/ (u <= Len(units) /\ Due(u))
      /\ fu_buffer' = fu_buffer => HeldOK'
  <2>1. Len(units) < Len(units')
    BY <1>4, <1>5
  <2>2. \A u \in 1 .. Len(units) : units'[u] = units[u]
    BY <1>4, <1>5
  <2> QED
    BY <1>3, <1>5, <2>1, <2>2, NewUnits
<1>8. \A u \in 1 .. Len(units') :
         Due(u)' => (u = l + 2 /\ ~lost) \/ (u <= Len(units) /\ Due(u))
  <2>1. \A u \in 1 .. Len(units') : u > Len(units) => u = l + 1 \/ u = l + 2
    BY <1>4, <1>5
  <2>2. ~Due(l + 1)'
    BY <1>3, <1>5 DEF Due
  <2>3. lost => ~Due(l + 2)'
    BY <1>3, <1>5 DEF Due
  <2> QED
    BY <1>7, <2>1, <2>2, <2>3
<1>9. /\ Whole(l + 2, t2) \in NalSet /\ Whole(l + 2, t2).data = <<Fragment(l + 2, 1, t2)>>
      /\ Whole(l + 2, t2) = NalOf(l + 2)'
  <2>1. 1 \in 1 .. MaxParts
    OBVIOUS
  <2>2. /\ Run(l + 2, 1, t2) \in Seq(Fragments)
        /\ Run(l + 2, 1, t2) = <<Fragment(l + 2, 1, t2)>>
    BY <1>6, <2>1, RunProperties
  <2>3. Whole(l + 2, t2) = Nal(t2, Run(l + 2, 1, t2))
    BY <2>2 DEF Whole
  <2>4. NalOf(l + 2)' = Nal(t2, Run(l + 2, 1, t2))
    BY <1>3, <1>5 DEF NalOf, Run, Nal, Fragment
  <2> QED
    BY <2>2, <2>3, <2>4 DEF NalSet, Nal
<1>10. LastSent = l /\ LastSent' = l + 2
  BY <1>3, <1>4, <1>5 DEF LastSent
<1>11. UNCHANGED parser /\ NalTypesOK' /\ NalsOK'
  <2>1. CASE lost
    <3>1. UNCHANGED <<parser, muxer, nals, tags>>
      BY <1>1, <2>1 DEF Lose
    <3>2. NalTypesOK'
      BY <3>1, InvParts DEF NalTypesOK, muxer
    <3>3. LastSent <= LastSent' /\ LastSent' \in Nat
      BY <1>10
    <3> QED
      BY <1>7, <1>8, <2>1, <3>1, <3>2, <3>3, NothingParsed
  <2>2. CASE ~lost
    <3>0. Next1 + 1 = l + 2 /\ Receive(Aggregate(Next1, t1, t2))
      BY <1>1, <1>4, <2>2 DEF Next1
    <3>1. Parsed(Aggregate(Next1, t1, t2)) = Whole(l + 2, t2) /\ UNCHANGED parser
      BY <3>0, AggregatePacket DEF Receive
    <3>2. Whole(l + 2, t2) # NoNal
      BY DEF Whole, NoNal, Nal, NalTypes
    <3>3. NalTypesOK' /\ nals' = Append(nals, Whole(l + 2, t2))
      BY <1>9, <3>0, <3>1, <3>2, InvParts, Muxed
    <3>4. PICK nal \in NalSet : nal = Whole(l + 2, t2)
      BY <1>9
    <3>5. /\ nal.data # <<>> /\ Len(nal.data) = 1 /\ nal.data[1].unit = l + 2
      <4>1. PICK f : f = Fragment(l + 2, 1, t2)
        OBVIOUS
      <4>2. f.unit = l + 2
        BY <4>1 DEF Fragment
      <4>3. nal.data = <<f>>
        BY <1>9, <3>4, <4>1
      <4> QED
        BY <4>2, <4>3
    <3>6. \A u \in 1 .. Len(units') : Due(u)' => nal = NalOf(u)' \/ (u <= Len(units) /\ Due(u))
      BY <1>8, <1>9, <3>4
    <3>7. nal = NalOf(nal.data[1].unit)'
      BY <1>9, <3>4, <3>5
    <3>8. /\ LastSent <= LastSent' /\ LastSent' \in Nat
          /\ l + 2 > LastSent /\ l + 2 <= LastSent' /\ l + 2 \in 1 .. Len(units')
      BY <1>5, <1>10
    <3> QED
      BY <1>7, <3>1, <3>3, <3>4, <3>5, <3>6, <3>7, <3>8, NalParsed
  <2> QED
    BY <2>1, <2>2
<1>12. ParserTypes' /\ BufferIsSound' /\ HeldOK'
  BY <1>7, <1>11, InvParts DEF ParserTypes, BufferIsSound, Bytes, parser
<1>13. InHand' /\ AudioTypes'
  BY <1>3, InvParts DEF InHand, AudioTypes, audio, transcoder
<1> QED
  BY <1>6, <1>11, <1>12, <1>13, InvAgain

\* What a later fragment finds: the unit under way, or a damaged one.
LEMMA UnitUnderWay ==
    ASSUME IInv, part # 0
    PROVE  /\ Len(units) \in 1 .. MaxSent
           /\ units[Len(units)] \in Units
           /\ part \in 1 .. MaxParts - 1 /\ part < units[Len(units)].parts
           /\ units[Len(units)].parts \in 1 .. MaxParts
           /\ units[Len(units)].type \in NalTypes
<1>1. /\ units \in Seq(Units) /\ Len(units) \in Nat /\ part \in 0 .. MaxParts - 1
      /\ packets \in Nat /\ Len(units) + packets <= MaxSent
  BY InvParts, LenProperties DEF CameraTypes, Sent
<1>2. Len(units) \in 1 .. MaxSent /\ part < units[Len(units)].parts
  BY <1>1, PipelineAssumption DEF IInv, UnderWay
<1>3. units[Len(units)] \in Units
  BY <1>1, <1>2, ElementOfSeq
<1> QED
  BY <1>1, <1>2, <1>3, PipelineAssumption DEF Units

\* A fragment of the unit under way, lost or not.
LEMMA NextFragment ==
    ASSUME IInv, part # 0, NEW lost \in BOOLEAN,
           units' = [units EXCEPT ![Len(units)].lost = @ \/ lost],
           part' = IF part + 1 = units[Len(units)].parts THEN 0 ELSE part + 1, UNCHANGED audio
    PROVE  /\ CameraTypes' /\ UnderWay' /\ Grow /\ Len(units') = Len(units)
           /\ lost => Damaged(Len(units))'
           /\ ~lost => Damaged(Len(units))' = Damaged(Len(units))
           /\ \A w \in 1 .. Len(units) : w # Len(units) => units'[w] = units[w]
<1>1. PICK u \in 1 .. MaxSent : u = Len(units)
  BY UnitUnderWay
<1>2. units \in Seq(Units) /\ units[u] \in Units /\ part \in 1 .. MaxParts - 1
      /\ part < units[u].parts /\ units[u].parts \in 1 .. MaxParts /\ u \in 1 .. Len(units)
  BY <1>1, InvParts, UnitUnderWay, PipelineAssumption DEF CameraTypes
<1>3. PICK x \in Units :
         /\ x = [units[u] EXCEPT !.lost = @ \/ lost]
         /\ x.type = units[u].type /\ x.parts = units[u].parts /\ x.hidden = units[u].hidden
         /\ units[u].lost => x.lost
         /\ lost => x.lost
         /\ ~lost => x.lost = units[u].lost
  <2>1. PICK b \in BOOLEAN : b = (units[u].lost \/ lost)
    BY Zenon
  <2>2. [units[u] EXCEPT !.lost = b] \in Units
    BY <1>2 DEF Units
  <2>3. units[u].lost \in BOOLEAN
    BY <1>2 DEF Units
  <2>4. (units[u].lost => b) /\ (lost => b) /\ (~lost => b = units[u].lost)
    BY <2>1, <2>3, Zenon
  <2>5. [units[u] EXCEPT !.lost = @ \/ lost] = [units[u] EXCEPT !.lost = b]
    BY <2>1
  <2>6. PICK y \in Units : y = [units[u] EXCEPT !.lost = b]
    BY <2>2
  <2>7. y.type = units[u].type /\ y.parts = units[u].parts /\ y.hidden = units[u].hidden /\ y.lost = b
    BY <1>2, <2>6 DEF Units
  <2> QED
    BY <2>4, <2>5, <2>6, <2>7
<1>4. units' = [units EXCEPT ![u] = x]
  BY <1>1, <1>2, <1>3
<1>5. /\ units' \in Seq(Units) /\ Len(units') = Len(units)
      /\ units'[u] = x
      /\ \A w \in 1 .. Len(units) : w # u => units'[w] = units[w]
  <2>1. x \in Units /\ u \in 1 .. Len(units) /\ units \in Seq(Units)
    BY <1>2, <1>3
  <2>2. /\ [units EXCEPT ![u] = x] \in Seq(Units)
        /\ Len([units EXCEPT ![u] = x]) = Len(units)
        /\ \A w \in 1 .. Len(units) :
              [units EXCEPT ![u] = x][w] = IF w = u THEN x ELSE units[w]
    BY <2>1, ExceptSeq
  <2> QED
    BY <1>4, <2>1, <2>2, Zenon
<1>6. Grow
  BY <1>1, <1>3, <1>5 DEF Grow
<1>7. CameraTypes'
  <2>1. part' \in 0 .. MaxParts - 1
    BY <1>1, <1>2, PipelineAssumption
  <2>2. Sent' = Sent /\ packets' = packets /\ recorded' = recorded
    BY <1>5 DEF Sent, audio
  <2> QED
    BY <1>5, <2>1, <2>2, InvParts DEF CameraTypes
<1>8. UnderWay'
  <2>1. part' # 0 => part' < units[u].parts
    BY <1>1, <1>2
  <2> QED
    BY <1>1, <1>3, <1>5, <2>1 DEF UnderWay
<1>9. /\ lost => Damaged(u)'
      /\ ~lost => Damaged(u)' = Damaged(u)
  BY <1>3, <1>5 DEF Damaged, TooLong
<1> QED
  BY <1>1, <1>5, <1>6, <1>7, <1>8, <1>9

\* A unit that is not damaged is in the buffer, and what follows of it will fit.
LEMMA HandFits ==
    ASSUME IInv, part # 0, ~Damaged(Len(units))
    PROVE  /\ fu_buffer = Prefix(Len(units), part) /\ fu_active /\ Fits
           /\ fu_buffer # <<>> /\ fu_buffer[1].type = units[Len(units)].type
<1>1. PICK u \in 1 .. MaxSent : u = Len(units)
  BY UnitUnderWay
<1>2. PICK n \in 1 .. MaxParts : n = units[u].parts
  BY <1>1, UnitUnderWay
<1>3. part \in 1 .. MaxParts /\ part + 1 <= n /\ n \in Nat /\ part \in Nat
  BY <1>1, <1>2, UnitUnderWay, PipelineAssumption
<1>4. PICK type \in NalTypes : type = units[u].type
  BY <1>1, UnitUnderWay
<1>5. fu_buffer = Run(u, part, type)
  BY <1>1, <1>4 DEF IInv, InHand, Prefix
<1>6. /\ fu_buffer # <<>> /\ Len(fu_buffer) = part
      /\ fu_buffer[1] = Fragment(u, 1, type)
  BY <1>3, <1>5, RunProperties
<1>7. Fits
  <2>1. 1 + FragmentSize * n <= Cap
    <3>1. ~(1 + FragmentSize * n > Cap)
      BY <1>1, <1>2 DEF Damaged, TooLong
    <3>2. PICK z \in Nat : z = FragmentSize * n
      BY <1>3, ParserAssumption
    <3> QED
      BY <3>1, <3>2, ParserAssumption
  <2>2. FragmentSize * (part + 1) = FragmentSize * part + FragmentSize
    BY <1>3, ParserAssumption
  <2>3. FragmentSize * (part + 1) <= FragmentSize * n
    BY <1>3, ParserAssumption
  <2>4. FragmentSize * part \in Nat /\ FragmentSize * n \in Nat
    BY <1>3, ParserAssumption
  <2>5. Bytes(fu_buffer) = 1 + FragmentSize * part
    BY <1>6 DEF Bytes
  <2> QED
    BY <2>1, <2>2, <2>3, <2>4, <2>5, ParserAssumption DEF Fits
<1>8. fu_active
  BY <1>6 DEF IInv, BufferIsSound
<1>9. fu_buffer[1].type = type
  BY <1>6 DEF Fragment
<1> QED
  BY <1>1, <1>4, <1>5, <1>6, <1>7, <1>8, <1>9 DEF Prefix

\* With one more fragment the unit under way is as long as it should be.
LEMMA PrefixGrows ==
    ASSUME IInv, part # 0
    PROVE  /\ Fragment(Len(units), part + 1, units[Len(units)].type) \in Fragments
           /\ Prefix(Len(units), part + 1) =
                 Append(Prefix(Len(units), part),
                        Fragment(Len(units), part + 1, units[Len(units)].type))
           /\ part + 1 = units[Len(units)].parts =>
                 NalOf(Len(units)) = Nal(units[Len(units)].type, Prefix(Len(units), part + 1))
<1>1. PICK u \in 1 .. MaxSent : u = Len(units)
  BY UnitUnderWay
<1>2. PICK type \in NalTypes : type = units[u].type
  BY <1>1, UnitUnderWay
<1>3. PICK n \in 1 .. MaxParts : n = part + 1
  BY <1>1, UnitUnderWay, PipelineAssumption
<1>4. n > 1 /\ n - 1 = part
  BY <1>3, UnitUnderWay, PipelineAssumption
<1>5. /\ Fragment(u, n, type) \in Fragments
      /\ Run(u, n, type) = Append(Run(u, n - 1, type), Fragment(u, n, type))
  BY <1>4, RunProperties
<1>6. n = units[u].parts => NalOf(u) = Nal(type, Run(u, n, type))
  BY <1>2, NalIsRun
<1> QED
  BY <1>1, <1>2, <1>3, <1>4, <1>5, <1>6 DEF Prefix

\* Of the units that are there, only the one under way can become due.
LEMMA NextDue ==
    ASSUME IInv, part # 0, Len(units') = Len(units),
           \A w \in 1 .. Len(units) : w # Len(units) => units'[w] = units[w],
           NEW w \in 1 .. Len(units'), Due(w)'
    PROVE  (w = Len(units) /\ part' = 0 /\ ~Damaged(Len(units))') \/ (w <= Len(units) /\ Due(w))
<1>1. Len(units) \in Nat
  BY UnitUnderWay
<1>2. CASE w = Len(units)
  BY <1>1, <1>2 DEF Due, Complete, Damaged
<1>3. CASE w < Len(units)
  BY <1>1, <1>3 DEF Due, Complete, TooLong
<1> QED
  BY <1>1, <1>2, <1>3

\* A later fragment of the unit under way that is lost.
LEMMA LostFragment ==
    ASSUME IInv, part # 0, UNCHANGED <<parser, muxer, nals, tags>>,
           units' = [units EXCEPT ![Len(units)].lost = @ \/ TRUE],
           part' = IF part + 1 = units[Len(units)].parts THEN 0 ELSE part + 1, UNCHANGED audio
    PROVE  IInv'
<1>1. PICK u \in 1 .. MaxSent : u = Len(units)
  BY UnitUnderWay
<1>2. /\ CameraTypes' /\ UnderWay' /\ Grow /\ Len(units') = u /\ Damaged(u)'
      /\ \A w \in 1 .. u : w # u => units'[w] = units[w]
  BY <1>1, NextFragment
<1>3. ParserTypes' /\ NalTypesOK' /\ AudioTypes' /\ BufferIsSound'
  BY InvParts DEF ParserTypes, NalTypesOK, AudioTypes, BufferIsSound, Bytes, parser, muxer, audio,
                  transcoder
<1>4. InHand'
  BY <1>2 DEF InHand
<1>5. HeldOK'
  <2>1. fu_buffer' = fu_buffer /\ \A k \in 1 .. Len(fu_buffer) : fu_buffer[k].unit \in 1 .. u
    BY <1>1 DEF parser, IInv, HeldOK
  <2>2. CASE fu_buffer = <<>>
    BY <1>2, <2>1, <2>2 DEF HeldOK
  <2>3. CASE fu_buffer = Prefix(Len(units), part)
    <3>1. 1 \in 1 .. Len(fu_buffer) /\ fu_buffer[1].unit = u
      <4>1. part \in 1 .. MaxParts /\ units[u].type \in NalTypes
        BY <1>1, UnitUnderWay, PipelineAssumption
      <4>2. fu_buffer = Run(u, part, units[u].type)
        BY <1>1, <2>3 DEF Prefix
      <4>3. Len(fu_buffer) = part /\ 1 \in 1 .. part
            /\ fu_buffer[1] = Fragment(u, 1, units[u].type)
        BY <4>1, <4>2, RunProperties, PipelineAssumption
      <4> QED
        BY <4>3 DEF Fragment
    <3> QED
      BY <1>2, <2>1, <3>1 DEF HeldOK
  <2>4. ASSUME NEW k \in 1 .. Len(fu_buffer), Damaged(fu_buffer[k].unit) PROVE HeldOK'
    <3>1. PICK w \in 1 .. Len(units) : w = fu_buffer[k].unit
      BY <1>1, <2>1
    <3>2. Damaged(w)'
      BY <1>2, <2>4, <3>1, GrowKeeps
    <3>3. Damaged(fu_buffer[k].unit)'
      BY <2>1, <3>1, <3>2
    <3> QED
      BY <1>2, <2>1, <3>3 DEF HeldOK
  <2> QED
    BY <2>2, <2>3, <2>4 DEF IInv, HeldOK
<1>6. NalsOK'
  <2>1. LastSent = u - 1 /\ LastSent' \in {u, u - 1}
    BY <1>1, <1>2 DEF LastSent
  <2>2. LastSent <= LastSent' /\ LastSent' \in Nat
    BY <2>1
  <2>3. \A w \in 1 .. Len(units') : Due(w)' => w <= Len(units) /\ Due(w)
    BY <1>1, <1>2, NextDue
  <2> QED
    BY <1>2, <2>2, <2>3, NothingParsed
<1> QED
  BY <1>2, <1>3, <1>4, <1>5, <1>6, InvAgain

\* A buffer that is given up is sound.
LEMMA GivenUp ==
    ASSUME fu_buffer' = <<>>, fu_active' = FALSE
    PROVE  ParserTypes' /\ BufferIsSound'
<1>1. <<>> \in Seq(Fragments)
  OBVIOUS
<1>2. ParserTypes'
  <2>1. Bytes(fu_buffer)' = 0
    BY Zenon DEF Bytes
  <2>2. Bytes(fu_buffer)' <= Cap
    BY <2>1, ParserAssumption
  <2>3. fu_active' \in BOOLEAN
    BY Zenon
  <2> QED
    BY <1>1, <2>2, <2>3 DEF ParserTypes
<1>3. BufferIsSound'
  BY DEF BufferIsSound
<1> QED
  BY <1>2, <1>3

\* A fragment in the middle of the unit under way arrives.
LEMMA MiddleFragment ==
    ASSUME IInv, part # 0, part + 1 < units[Len(units)].parts, NEW t,
           Receive(Fu(Len(units), part + 1, units[Len(units)].parts, units[Len(units)].type, t)),
           units' = [units EXCEPT ![Len(units)].lost = @ \/ FALSE],
           part' = IF part + 1 = units[Len(units)].parts THEN 0 ELSE part + 1, UNCHANGED audio
    PROVE  IInv'
<1>1. PICK u \in 1 .. MaxSent : u = Len(units)
  BY UnitUnderWay
<1>2. /\ CameraTypes' /\ UnderWay' /\ Grow /\ Len(units') = u
      /\ Damaged(u)' = Damaged(u)
      /\ \A w \in 1 .. u : w # u => units'[w] = units[w]
  BY <1>1, NextFragment
<1>3. PICK type \in NalTypes : type = units[u].type
  BY <1>1, UnitUnderWay
<1>4. PICK n \in Nat, i \in Nat : n = units[u].parts /\ i = part + 1 /\ 1 < i /\ i < n
  BY <1>1, UnitUnderWay, PipelineAssumption
<1>5. PICK f \in Fragments : f = Fragment(u, i, type) /\ f.unit = u
  BY <1>1, <1>3, <1>4, PrefixGrows DEF Fragment
<1>6. /\ Receive(Fu(u, i, n, type, t)) /\ Parsed(Fu(u, i, n, type, t)) = NoNal
      /\ Continuation(Fu(u, i, n, type, t)) /\ Fu(u, i, n, type, t).fragment = f
  <2>1. Receive(Fu(u, i, n, type, t))
    BY <1>1, <1>3, <1>4
  <2>2. Parse(Fu(u, i, n, type, t))
    BY <2>1 DEF Receive
  <2> QED
    BY <1>4, <1>5, <2>1, <2>2, MiddlePacket
<1>7. NalTypesOK' /\ nals' = nals /\ AudioTypes'
  BY <1>6, InvParts, Muxed DEF AudioTypes, audio, transcoder
<1>8. NalsOK'
  <2>1. part' # 0
    BY <1>1, <1>4
  <2>2. LastSent' = LastSent /\ LastSent = u - 1
    BY <1>1, <1>2, <2>1 DEF LastSent
  <2>3. LastSent <= LastSent' /\ LastSent' \in Nat
    BY <2>2
  <2>4. \A w \in 1 .. Len(units') : Due(w)' => w <= Len(units) /\ Due(w)
    BY <1>1, <1>2, <2>1, NextDue
  <2> QED
    BY <1>2, <1>7, <2>3, <2>4, NothingParsed
<1>9. part' = i /\ part' # 0
  BY <1>1, <1>4
<1>10. Prefix(u, i)' = Prefix(u, i) /\ Prefix(u, i) = Append(Prefix(u, part), f)
  BY <1>1, <1>2, <1>3, <1>4, <1>5, GrowKeeps, PrefixGrows, UnitUnderWay
<1>11. fu_buffer \in Seq(Fragments) /\ Bytes(fu_buffer) <= Cap
  BY InvParts DEF ParserTypes
<1>12. CASE fu_buffer' = <<>> /\ fu_active' = FALSE /\ (~fu_active \/ ~Fits)
  <2>1. Damaged(u)'
    BY <1>1, <1>2, <1>12, HandFits
  <2>2. ParserTypes' /\ BufferIsSound'
    BY <1>12, GivenUp
  <2>3. InHand' /\ HeldOK'
    BY <1>2, <1>12, <2>1 DEF InHand, HeldOK
  <2> QED
    BY <1>2, <1>7, <1>8, <2>2, <2>3, InvAgain
<1>13. CASE fu_active /\ Fits /\ fu_buffer' = Append(fu_buffer, f) /\ fu_active' = fu_active
  <2>1. PICK b \in Seq(Fragments) : b = fu_buffer /\ b # <<>> /\ Len(b) \in Nat \ {0}
    BY <1>11, <1>13, EmptySeq DEF IInv, BufferIsSound
  <2>2. PICK c \in Seq(Fragments) : c = Append(b, f) /\ c = fu_buffer'
    BY <1>13, <2>1, AppendFragment
  <2>3. /\ c # <<>> /\ Len(c) = Len(b) + 1 /\ c[Len(b) + 1] = f
        /\ \A k \in 1 .. Len(b) : c[k] = b[k]
        /\ Bytes(c) = Bytes(b) + FragmentSize
    <3>1. /\ Append(b, f) # <<>> /\ Len(Append(b, f)) = Len(b) + 1
          /\ Append(b, f)[Len(b) + 1] = f
          /\ \A k \in 1 .. Len(b) : Append(b, f)[k] = b[k]
          /\ Bytes(Append(b, f)) = Bytes(b) + FragmentSize
      BY <2>1, AppendFragment
    <3> QED
      BY <2>2, <3>1
  <2>4. ParserTypes'
    <3>1. Bytes(c) <= Cap
      BY <1>13, <2>1, <2>3 DEF Fits
    <3>2. Bytes(fu_buffer)' = Bytes(c)
      BY <2>2 DEF Bytes
    <3> QED
      BY <1>13, <2>2, <3>1, <3>2 DEF ParserTypes
  <2>5. BufferIsSound'
    <3>1. b[1].part = 1 /\ c[1] = b[1]
      <4>1. b[1].part = 1
        BY <1>13, <2>1 DEF IInv, BufferIsSound
      <4>2. 1 \in 1 .. Len(b)
        BY <2>1
      <4> QED
        BY <2>3, <4>1, <4>2
    <3> QED
      BY <1>13, <2>2, <2>3, <3>1 DEF BufferIsSound
  <2>6. InHand'
    <3>1. CASE Damaged(u)
      BY <1>2, <3>1 DEF InHand
    <3>2. CASE ~Damaged(u)
      <4>1. b = Prefix(u, part)
        BY <1>1, <2>1, <3>2, HandFits
      <4>2. c = Prefix(u, i)'
        BY <1>10, <2>2, <4>1
      <4> QED
        BY <1>2, <1>9, <2>2, <4>2 DEF InHand
    <3> QED
      BY <3>1, <3>2
  <2>7. HeldOK'
    <3>1. \A k \in 1 .. Len(c) : c[k].unit \in 1 .. u
      <4>1. \A k \in 1 .. Len(b) : c[k].unit \in 1 .. u
        BY <1>1, <2>1, <2>3 DEF IInv, HeldOK
      <4>2. \A k \in 1 .. Len(c) : k \in 1 .. Len(b) \/ k = Len(b) + 1
        BY <2>1, <2>3
      <4>3. c[Len(b) + 1].unit \in 1 .. u
        BY <1>5, <2>3
      <4> QED
        BY <4>1, <4>2, <4>3
    <3>2. CASE b = Prefix(Len(units), part)
      <4>1. c = Prefix(u, i)'
        BY <1>1, <1>10, <2>2, <3>2
      <4> QED
        BY <1>2, <1>9, <2>2, <3>1, <4>1 DEF HeldOK
    <3>3. ASSUME NEW k \in 1 .. Len(b), Damaged(b[k].unit) PROVE HeldOK'
      <4>1. PICK w \in 1 .. Len(units) : w = b[k].unit
        BY <2>1 DEF IInv, HeldOK
      <4>2. Damaged(w)' /\ c[k].unit = w /\ k \in 1 .. Len(c)
        BY <1>2, <2>1, <2>3, <3>3, <4>1, GrowKeeps
      <4>3. fu_buffer'[k].unit = w /\ k \in 1 .. Len(fu_buffer')
        BY <2>2, <4>2
      <4> QED
        BY <1>2, <2>2, <3>1, <4>2, <4>3 DEF HeldOK
    <3> QED
      BY <2>1, <3>2, <3>3 DEF IInv, HeldOK
  <2> QED
    BY <1>2, <1>7, <1>8, <2>4, <2>5, <2>6, <2>7, InvAgain
<1> QED
  <2>1. \/ ~fu_active /\ UNCHANGED parser
        \/ fu_active /\ Fits /\ fu_buffer' = Append(fu_buffer, f) /\ fu_active' = fu_active
        \/ fu_active /\ ~Fits /\ fu_buffer' = <<>> /\ fu_active' = FALSE
    BY <1>6 DEF Continuation
  <2>2. ~fu_active /\ UNCHANGED parser => fu_buffer' = <<>> /\ fu_active' = FALSE
    BY InvParts DEF BufferIsSound, parser, ParserTypes
  <2> QED
    BY <1>12, <1>13, <2>1, <2>2

\* The last fragment of the unit under way arrives.
LEMMA LastFragment ==
    ASSUME IInv, part # 0, part + 1 = units[Len(units)].parts, NEW t \in NalTypes,
           Receive(Fu(Len(units), part + 1, part + 1, units[Len(units)].type, t)),
           units' = [units EXCEPT ![Len(units)].lost = @ \/ FALSE],
           part' = IF part + 1 = units[Len(units)].parts THEN 0 ELSE part + 1, UNCHANGED audio
    PROVE  IInv'
<1>1. PICK u \in 1 .. MaxSent : u = Len(units)
  BY UnitUnderWay
<1>2. /\ CameraTypes' /\ UnderWay' /\ Grow /\ Len(units') = u /\ part' = 0
      /\ Damaged(u)' = Damaged(u)
      /\ \A w \in 1 .. u : w # u => units'[w] = units[w]
  BY <1>1, NextFragment
<1>3. PICK type \in NalTypes : type = units[u].type
  BY <1>1, UnitUnderWay
<1>4. PICK n \in Nat : n = part + 1 /\ n > 1
  BY <1>1, UnitUnderWay, PipelineAssumption
<1>5. PICK f \in Fragments : f = Fragment(u, n, type) /\ f.unit = u
  BY <1>1, <1>3, <1>4, PrefixGrows DEF Fragment
<1>6. PICK p : p = Fu(u, n, n, type, t)
  OBVIOUS
<1>7. /\ Receive(p) /\ fu_buffer' = <<>> /\ fu_active' = FALSE
      /\ Parsed(p) = IF ~Fits THEN NoNal
                     ELSE IF fu_buffer = <<>> THEN Nal(t, <<f>>)
                     ELSE Nal(fu_buffer[1].type, Append(fu_buffer, f))
  <2>1. Receive(Fu(u, n, n, type, t))
    BY <1>1, <1>3, <1>4
  <2>2. Parse(Fu(u, n, n, type, t))
    BY <2>1 DEF Receive
  <2> QED
    <3>1. /\ Parsed(Fu(u, n, n, type, t)) =
                IF ~Fits THEN NoNal
                ELSE IF fu_buffer = <<>> THEN Nal(t, <<Fragment(u, n, type)>>)
                ELSE Nal(fu_buffer[1].type, Append(fu_buffer, Fragment(u, n, type)))
          /\ fu_buffer' = <<>> /\ fu_active' = FALSE
      BY <1>4, <2>2, EndPacket
    <3> QED
      BY <1>5, <1>6, <2>1, <3>1
<1>8. ParserTypes' /\ BufferIsSound' /\ InHand' /\ HeldOK' /\ AudioTypes'
  <2>1. ParserTypes' /\ BufferIsSound'
    BY <1>7, GivenUp
  <2>2. InHand'
    BY <1>2 DEF InHand
  <2>3. HeldOK'
    BY <1>7, EmptySeq DEF HeldOK
  <2>4. AudioTypes'
    BY InvParts DEF AudioTypes, audio, transcoder
  <2> QED
    BY <2>1, <2>2, <2>3, <2>4
<1>9. LastSent = u - 1 /\ LastSent' = u /\ LastSent <= LastSent' /\ LastSent' \in Nat
  BY <1>1, <1>2 DEF LastSent
<1>10. \A w \in 1 .. Len(units') :
          Due(w)' => (w = u /\ ~Damaged(u)) \/ (w <= Len(units) /\ Due(w))
  BY <1>1, <1>2, NextDue
<1>11. CASE ~Fits
  <2>1. NalTypesOK' /\ nals' = nals
    BY <1>7, <1>11, InvParts, Muxed
  <2>2. Damaged(u)
    BY <1>1, <1>11, HandFits
  <2>3. NalsOK'
    BY <1>2, <1>9, <1>10, <2>1, <2>2, NothingParsed
  <2> QED
    BY <1>2, <1>8, <2>1, <2>3, InvAgain
<1>12. CASE Fits
  <2>1. PICK b \in Seq(Fragments) : b = fu_buffer
    BY InvParts DEF ParserTypes
  <2>2. PICK nal \in NalSet :
           /\ nal = Parsed(p)
           /\ nal.data = Append(b, f)
           /\ b # <<>> => nal.type = b[1].type
    <3>1. CASE b = <<>>
      <4>1. <<f>> = Append(b, f) /\ <<f>> \in Seq(Fragments)
        BY <3>1
      <4> QED
        <5>1. Parsed(p) = Nal(t, Append(b, f))
          BY <1>7, <1>12, <2>1, <3>1, <4>1
        <5>2. Nal(t, Append(b, f)) \in NalSet /\ Nal(t, Append(b, f)).data = Append(b, f)
          BY <4>1 DEF NalSet, Nal
        <5> QED
          BY <3>1, <5>1, <5>2
    <3>2. CASE b # <<>>
      <4>1. b[1] \in Fragments /\ Append(b, f) \in Seq(Fragments)
        BY <3>2, EmptySeq, ElementOfSeq, AppendFragment
      <4>2. b[1].type \in NalTypes
        BY <4>1 DEF Fragments
      <4> QED
        <5>1. Parsed(p) = Nal(b[1].type, Append(b, f))
          BY <1>7, <1>12, <2>1, <3>2
        <5>2. /\ Nal(b[1].type, Append(b, f)) \in NalSet
              /\ Nal(b[1].type, Append(b, f)).data = Append(b, f)
              /\ Nal(b[1].type, Append(b, f)).type = b[1].type
          BY <4>1, <4>2 DEF NalSet, Nal
        <5> QED
          BY <5>1, <5>2
    <3> QED
      BY <3>1, <3>2
  <2>3. PICK c \in Seq(Fragments) :
           /\ c = nal.data
           /\ c # <<>> /\ Len(c) = Len(b) + 1 /\ Len(b) \in Nat /\ c[Len(b) + 1] = f
           /\ \A k \in 1 .. Len(b) : c[k] = b[k]
    BY <2>2, AppendFragment, LenProperties
  <2>4. nal # NoNal
    BY DEF NalSet, NoNal, Nal, NalTypes
  <2>5. NalTypesOK' /\ nals' = Append(nals, nal)
    BY <1>7, <2>2, <2>4, InvParts, Muxed
  <2>6. \A k \in 1 .. Len(c) : c[k].unit \in 1 .. Len(units')
    <3>1. \A k \in 1 .. Len(b) : c[k].unit \in 1 .. u
      BY <1>1, <2>1, <2>3 DEF IInv, HeldOK
    <3>2. \A k \in 1 .. Len(c) : k \in 1 .. Len(b) \/ k = Len(b) + 1
      BY <2>3
    <3>3. c[Len(b) + 1].unit \in 1 .. u
      BY <1>5, <2>3
    <3> QED
      BY <1>2, <3>1, <3>2, <3>3
  <2>7. c[Len(c)].unit = u
    BY <1>5, <2>3
  <2>8. b = Prefix(u, part) => nal = NalOf(u)' /\ c[1].unit = u
    <3> SUFFICES ASSUME b = Prefix(u, part) PROVE nal = NalOf(u)' /\ c[1].unit = u
      OBVIOUS
    <3>1. NalOf(u) = Nal(type, Append(b, f)) /\ NalOf(u)' = NalOf(u)
      <4>1. NalOf(u) = Nal(type, Prefix(u, n))
            /\ Prefix(u, n) = Append(Prefix(u, part), Fragment(u, n, type))
        BY <1>1, <1>3, <1>4, PrefixGrows
      <4>2. u \in 1 .. Len(units)
        BY <1>1
      <4>3. NalOf(u)' = NalOf(u)
        BY <1>2, <4>2, GrowKeeps
      <4> QED
        BY <1>5, <4>1, <4>3
    <3>2. b # <<>> /\ b[1] = Fragment(u, 1, type) /\ 1 \in 1 .. Len(b)
      <4>1. part \in 1 .. MaxParts
        BY UnitUnderWay, PipelineAssumption
      <4>2. b = Run(u, part, type)
        BY <1>3 DEF Prefix
      <4>3. /\ Run(u, part, type) # <<>> /\ Len(Run(u, part, type)) = part
            /\ \A i \in 1 .. part : Run(u, part, type)[i] = Fragment(u, i, type)
        BY <4>1, RunProperties
      <4>4. 1 \in 1 .. part
        BY <4>1
      <4> QED
        BY <4>2, <4>3, <4>4
    <3>3. nal.type = type
      BY <2>2, <3>2 DEF Fragment
    <3>4. nal = Nal(type, Append(b, f))
      BY <2>2, <3>3 DEF NalSet, Nal
    <3>5. c[1].unit = u
      BY <2>3, <3>2 DEF Fragment
    <3> QED
      BY <3>1, <3>4, <3>5
  <2>9. \/ nal = NalOf(c[1].unit)'
        \/ \E k \in 1 .. Len(c) : Damaged(c[k].unit)'
    <3>1. CASE b = Prefix(u, part)
      BY <2>8, <3>1
    <3>2. CASE b = <<>>
      <4>1. Damaged(u)'
        BY <1>1, <1>2, <2>1, <3>2, HandFits
      <4>2. Len(b) + 1 \in 1 .. Len(c) /\ c[Len(b) + 1].unit = u
        BY <1>5, <2>3
      <4> QED
        BY <4>1, <4>2
    <3>3. ASSUME NEW k \in 1 .. Len(b), Damaged(b[k].unit)
          PROVE  \E l \in 1 .. Len(c) : Damaged(c[l].unit)'
      <4>1. PICK w \in 1 .. Len(units) : w = b[k].unit
        BY <2>1 DEF IInv, HeldOK
      <4>2. Damaged(w)' /\ c[k].unit = w /\ k \in 1 .. Len(c)
        BY <1>2, <2>3, <3>3, <4>1, GrowKeeps
      <4> QED
        BY <4>2
    <3> QED
      BY <1>1, <2>1, <3>1, <3>2, <3>3 DEF IInv, HeldOK
  <2>10. \A w \in 1 .. Len(units') : Due(w)' => nal = NalOf(w)' \/ (w <= Len(units) /\ Due(w))
    <3>1. ~Damaged(u) => b = Prefix(u, part)
      BY <1>1, <2>1, HandFits
    <3> QED
      BY <1>10, <2>8, <3>1
  <2>11. c[Len(c)].unit > LastSent /\ c[Len(c)].unit <= LastSent'
    BY <1>9, <2>7
  <2>12. NalsOK'
    BY <1>2, <1>9, <2>3, <2>5, <2>6, <2>9, <2>10, <2>11, NalParsed
  <2> QED
    BY <1>2, <1>8, <2>5, <2>12, InvAgain
<1> QED
  BY <1>11, <1>12

\* A later fragment.
LEMMA FragmentStep == ASSUME IInv, SendFragment, UNCHANGED audio PROVE IInv'
<1>1. PICK t \in NalTypes, lost \in BOOLEAN :
         /\ IF lost THEN Lose
            ELSE Receive(Fu(Len(units), part + 1, units[Len(units)].parts, units[Len(units)].type, t))
         /\ units' = [units EXCEPT ![Len(units)].lost = @ \/ lost]
  BY DEF SendFragment
<1>2. /\ part # 0
      /\ part' = IF part + 1 = units[Len(units)].parts THEN 0 ELSE part + 1
  BY DEF SendFragment
<1>3. CASE lost = TRUE
  <2>1. UNCHANGED <<parser, muxer, nals, tags>>
    BY <1>1, <1>3 DEF Lose
  <2>2. units' = [units EXCEPT ![Len(units)].lost = @ \/ TRUE]
    BY <1>1, <1>3
  <2> QED
    BY <1>2, <2>1, <2>2, LostFragment
<1>4. CASE lost = FALSE
  <2>1. /\ Receive(Fu(Len(units), part + 1, units[Len(units)].parts, units[Len(units)].type, t))
        /\ units' = [units EXCEPT ![Len(units)].lost = @ \/ FALSE]
    BY <1>1, <1>4
  <2>2. CASE part + 1 = units[Len(units)].parts
    <3>1. Receive(Fu(Len(units), part + 1, part + 1, units[Len(units)].type, t))
      BY <2>1, <2>2
    <3> QED
      BY <1>2, <2>1, <2>2, <3>1, LastFragment
  <2>3. CASE part + 1 # units[Len(units)].parts
    <3>1. part + 1 < units[Len(units)].parts
      BY <1>2, <2>3, UnitUnderWay, PipelineAssumption
    <3> QED
      BY <1>2, <2>1, <3>1, MiddleFragment
  <2> QED
    BY <2>2, <2>3
<1> QED
  BY <1>1, <1>3, <1>4
------------------------------------------------------------------------------
\* The quotient and what is left over.
LEMMA Quotient ==
    ASSUME NEW x \in Nat, NEW y \in Nat \ {0}
    PROVE  x \div y \in Nat /\ (x \div y) * y <= x /\ x - (x \div y) * y < y
<1>1. PICK q \in Int : q = x \div y
  OBVIOUS
<1>2. PICK r \in Int : r = x % y
  OBVIOUS
<1>3. r >= 0 /\ r < y
  BY <1>2
<1>4. x = y * q + r
  BY <1>1, <1>2
<1> QED
  BY <1>1, <1>3, <1>4

\* Products grow with their factors.
LEMMA Products ==
    ASSUME NEW y \in Nat, NEW m \in Nat, NEW n \in Nat, n <= m
    PROVE  n * y \in Nat /\ m * y \in Nat /\ n * y <= m * y
OBVIOUS

\* The queue of the transcoder after n frames of what is available are taken out.
LEMMA PushTypes ==
    ASSUME AudioTypes, NEW pcm \in Seq(Nat), NEW n \in 0 .. Frames(pcm), Push(pcm, n),
           accepted' = accepted \o pcm
    PROVE  /\ pending' \in Seq(Nat)
           /\ n = Frames(pcm) => Len(pending') < FrameLen
           /\ accepted' \in Seq(Nat) /\ samples_total' = Len(accepted')
<1> USE TranscoderAssumption
<1>1. PICK a \in Seq(Nat) : a = Available(pcm)
  BY ConcatProperties DEF AudioTypes, Available
<1>2. PICK l \in Nat : l = Len(a)
  BY LenProperties
<1>3. PICK m \in Nat : m = Frames(pcm) /\ m = l \div FrameLen
  <2>1. l \div FrameLen \in Nat
    BY <1>2, Quotient
  <2> QED
    BY <1>1, <1>2, <2>1 DEF Frames
<1>4. m * FrameLen <= l /\ l - m * FrameLen < FrameLen
  BY <1>2, <1>3, Quotient
<1>5. PICK k \in Nat : k = n * FrameLen /\ k <= l
  <2>1. n \in Nat /\ n <= m
    BY <1>3
  <2>2. n * FrameLen \in Nat /\ n * FrameLen <= m * FrameLen
    BY <2>1, Products
  <2>3. PICK k \in Nat, j \in Nat : k = n * FrameLen /\ j = m * FrameLen
    <3>1. m * FrameLen \in Nat
      BY Products
    <3> QED
      BY <2>2, <3>1
  <2>4. k <= l
    BY <1>4, <2>2, <2>3
  <2> QED
    BY <2>3, <2>4
<1>6. pending' = SubSeq(a, k + 1, l)
  BY <1>1, <1>2, <1>5 DEF Push
<1>7. pending' \in Seq(Nat) /\ Len(pending') = l - k
  <2>1. k + 1 \in Int /\ l \in Int /\ \A i \in k + 1 .. l : a[i] \in Nat
    <3>1. k \in Nat /\ l \in Nat /\ l = Len(a) /\ a \in Seq(Nat)
      BY <1>1, <1>2, <1>5
    <3>2. \A i \in k + 1 .. l : i \in 1 .. l
      BY <3>1
    <3> QED
      BY <3>1, <3>2
  <2>2. /\ SubSeq(a, k + 1, l) \in Seq(Nat)
        /\ Len(SubSeq(a, k + 1, l)) = IF k + 1 <= l THEN l - (k + 1) + 1 ELSE 0
    BY <2>1, SubSeqProperties
  <2>3. k \in Nat /\ l \in Nat /\ k <= l
    BY <1>2, <1>5
  <2>4. (IF k + 1 <= l THEN l - (k + 1) + 1 ELSE 0) = l - k
    BY <2>3
  <2> QED
    BY <1>6, <2>2, <2>4
<1>8. n = Frames(pcm) => Len(pending') < FrameLen
  BY <1>3, <1>4, <1>5, <1>7
<1>9. accepted' \in Seq(Nat) /\ Len(accepted') = Len(accepted) + Len(pcm)
  BY ConcatProperties DEF AudioTypes
<1>10. samples_total' = samples_total + Len(pcm)
  BY DEF Push
<1> QED
  BY <1>7, <1>8, <1>9, <1>10 DEF AudioTypes

\* An audio packet.
LEMMA PcmStep == ASSUME IInv, SendPcm, UNCHANGED video PROVE IInv'
<1> USE PipelineAssumption
<1>1. PICK n \in 1 .. MaxPcm :
         /\ LosePcm \/ ReceivePcm([i \in 1 .. n |-> recorded + i])
         /\ recorded' = recorded + n
  BY DEF SendPcm
<1>2. PICK pcm \in Seq(Nat) : pcm = [i \in 1 .. n |-> recorded + i]
  <2>1. recorded \in Nat /\ n \in Nat
    BY InvParts DEF CameraTypes
  <2>2. PICK r \in Nat : r = recorded
    BY <2>1
  <2>3. [i \in 1 .. n |-> r + i] \in [1 .. n -> Nat]
    BY <2>1
  <2>4. [i \in 1 .. n |-> r + i] \in Seq(Nat)
    BY <2>1, <2>3
  <2> QED
    BY <2>2, <2>4
<1>3. CameraTypes'
  <2>1. packets' = packets + 1 /\ Sent < MaxSent /\ units' = units /\ part' = part
    BY DEF SendPcm, video
  <2>2. Len(units) \in Nat /\ packets \in Nat /\ recorded \in Nat
    BY InvParts, LenProperties DEF CameraTypes
  <2>3. Sent' <= MaxSent
    BY <2>1, <2>2 DEF Sent
  <2> QED
    BY <1>1, <2>1, <2>2, <2>3, InvParts DEF CameraTypes
<1>4. AudioTypes'
  <2>1. CASE LosePcm
    BY <2>1, InvParts DEF LosePcm, AudioTypes, transcoder
  <2>2. CASE ReceivePcm(pcm)
    <3>0. accepted' = accepted \o pcm /\ AudioTypes /\ Frames(pcm) \in Nat
      <4>1. Available(pcm) \in Seq(Nat)
        BY InvParts, ConcatProperties DEF AudioTypes, Available
      <4>2. PICK l \in Nat : l = Len(Available(pcm))
        BY <4>1, LenProperties
      <4>3. l \div FrameLen \in Nat
        BY TranscoderAssumption
      <4> QED
        BY <2>2, <4>2, <4>3, InvParts DEF ReceivePcm, Frames
    <3>1. CASE Transcode(pcm) /\ UNCHANGED encoder_failed
      <4>1. Frames(pcm) \in 0 .. Frames(pcm)
        BY <3>0
      <4>2. /\ pending' \in Seq(Nat) /\ Len(pending') < FrameLen
            /\ accepted' \in Seq(Nat) /\ samples_total' = Len(accepted')
        BY <3>0, <3>1, <4>1, PushTypes DEF Transcode
      <4>3. seq_sent' \in BOOLEAN
        <5>1. seq_sent' = (seq_sent \/ Frames(pcm) > 0)
          BY <3>1 DEF Transcode
        <5> QED
          BY <5>1, Zenon
      <4>4. encoder_failed' \in BOOLEAN
        BY <3>0, <3>1 DEF AudioTypes
      <4> QED
        BY <4>2, <4>3, <4>4 DEF AudioTypes
    <3>2. ASSUME NEW f \in 1 .. Frames(pcm), TranscodeFails(pcm, f), encoder_failed' = TRUE
          PROVE  AudioTypes'
      <4>1. f \in 0 .. Frames(pcm)
        BY <3>0
      <4>2. /\ pending' \in Seq(Nat)
            /\ accepted' \in Seq(Nat) /\ samples_total' = Len(accepted')
        BY <3>0, <3>2, <4>1, PushTypes DEF TranscodeFails
      <4>3. seq_sent' \in BOOLEAN
        BY <3>0, <3>2 DEF TranscodeFails, AudioTypes
      <4> QED
        BY <3>2, <4>2, <4>3 DEF AudioTypes
    <3> QED
      BY <2>2, <3>1, <3>2 DEF ReceivePcm
  <2> QED
    BY <1>1, <1>2, <2>1, <2>2
<1>5. ParserTypes' /\ NalTypesOK' /\ BufferIsSound'
  BY InvParts DEF video, parser, muxer, ParserTypes, NalTypesOK, BufferIsSound, Bytes
<1>6. UnderWay' /\ InHand' /\ HeldOK'
  BY InvParts DEF video, parser, UnderWay, InHand, HeldOK, Prefix, Damaged, TooLong
<1>7. NalsOK'
  BY InvParts DEF video, NalsOK, ParsedOK, WholeUnitsAreParsed, OnlyUnitsAreParsed, LastSent,
                  Complete, TooLong, NalOf
<1> QED
  BY <1>3, <1>4, <1>5, <1>6, <1>7, InvAgain

\* The invariant holds in the beginning.
LEMMA InitInv == Init => IInv
<1> SUFFICES ASSUME Init PROVE IInv
  OBVIOUS
<1> USE DEF Init, ParserInit, MuxerInit, TranscoderInit
<1>1. ParserTypes /\ BufferIsSound
  <2>1. <<>> \in Seq(Fragments)
    OBVIOUS
  <2>2. Bytes(fu_buffer) = 0
    BY Zenon DEF Bytes
  <2>3. fu_active \in BOOLEAN
    BY Zenon
  <2> QED
    BY <2>1, <2>2, <2>3, ParserAssumption DEF ParserTypes, BufferIsSound
<1>2. NalTypesOK
  <2>1. <<>> \in Seq(NalSet)
    OBVIOUS
  <2> QED
    BY <2>1 DEF NalTypesOK
<1>3. CameraTypes
  <2>1. <<>> \in Seq(Units) /\ Len(<<>>) = 0
    BY EmptySeq
  <2> QED
    BY <2>1, PipelineAssumption DEF CameraTypes, Sent
<1>4. AudioTypes
  <2>1. <<>> \in Seq(Nat) /\ Len(<<>>) = 0
    BY EmptySeq
  <2>2. pending \in Seq(Nat) /\ Len(pending) < FrameLen
    BY <2>1, TranscoderAssumption
  <2>3. accepted \in Seq(Nat) /\ samples_total = Len(accepted)
    BY <2>1
  <2>4. seq_sent \in BOOLEAN /\ encoder_failed \in BOOLEAN
    BY Zenon
  <2> QED
    BY <2>2, <2>3, <2>4 DEF AudioTypes
<1>5. UnderWay /\ InHand /\ HeldOK
  BY EmptySeq DEF UnderWay, InHand, HeldOK
<1>6. NalsOK
  <2>1. DOMAIN <<>> = {} /\ 1 .. Len(<<>>) = {}
    OBVIOUS
  <2> QED
    BY <2>1 DEF NalsOK, ParsedOK, WholeUnitsAreParsed, OnlyUnitsAreParsed
<1> QED
  BY <1>1, <1>2, <1>3, <1>4, <1>5, <1>6, InvParts

\* Every step keeps it.
LEMMA NextInv == IInv /\ [Next]_vars => IInv'
<1> SUFFICES ASSUME IInv, [Next]_vars PROVE IInv'
  OBVIOUS
<1>1. CASE SendVideo /\ UNCHANGED audio
  BY <1>1, SingleStep, AggregateStep, StartStep, FragmentStep DEF SendVideo
<1>2. CASE SendPcm /\ UNCHANGED video
  BY <1>2, PcmStep
<1>3. CASE UNCHANGED vars
  <2>1. ParserTypes' /\ NalTypesOK' /\ BufferIsSound' /\ CameraTypes' /\ AudioTypes'
    BY <1>3, InvParts DEF vars, video, audio, parser, muxer, transcoder, ParserTypes, NalTypesOK,
                          BufferIsSound, Bytes, CameraTypes, Sent, AudioTypes
  <2>2. UnderWay' /\ InHand' /\ HeldOK'
    BY <1>3, InvParts DEF vars, video, parser, UnderWay, InHand, HeldOK, Prefix, Damaged, TooLong
  <2>3. NalsOK'
    BY <1>3, InvParts DEF vars, video, NalsOK, ParsedOK, WholeUnitsAreParsed, OnlyUnitsAreParsed,
                          LastSent, Complete, TooLong, NalOf
  <2> QED
    BY <2>1, <2>2, <2>3, InvAgain
<1> QED
  BY <1>1, <1>2, <1>3 DEF Next

\* The invariant holds in every behaviour.
LEMMA Invariant == Spec => []IInv
BY InitInv, NextInv, PTL DEF Spec

\* Every variable keeps its type, and the reassembly buffer its cap, whatever
\* the camera sends and whatever is lost.
THEOREM TypeCorrect == Spec => []TypeOK
<1>1. IInv => TypeOK
  BY DEF IInv
<1> QED
  BY <1>1, Invariant, PTL

\* The parser is between units or holds a unit from its first fragment on.
THEOREM SoundBuffer == Spec => []BufferIsSound
<1>1. IInv => BufferIsSound
  BY DEF IInv
<1> QED
  BY <1>1, Invariant, PTL

\* A unit that arrives whole and is not too long is parsed.
THEOREM WholeParsed == Spec => []WholeUnitsAreParsed
<1>1. IInv => WholeUnitsAreParsed
  BY DEF IInv
<1> QED
  BY <1>1, Invariant, PTL

\* What is parsed is a unit of the camera, or made of a damaged one.
THEOREM OnlyUnits == Spec => []OnlyUnitsAreParsed
<1>1. IInv => OnlyUnitsAreParsed
  BY DEF IInv
<1> QED
  BY <1>1, Invariant, PTL
==============================================================================

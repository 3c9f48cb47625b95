-------------------------- MODULE RtspClientProofs ---------------------------
(***************************************************************************)
(* Proofs about RtspClient, for any SDP: the type invariant, with it that  *)
(* a handshake opens three connections at most, ChallengeOfConnection,     *)
(* AnswersMatch and PlaysWhatIsSet; then StaysInSync, whatever the camera  *)
(* sends and the reader misses.                                            *)
(*                                                                         *)
(* The invariant of the handshake, IInv, says where it may be with what it *)
(* knows (PhaseOK), how many connections it has used by then (BudgetOK),   *)
(* whose challenge it holds (ChallengeOK), and, unless the connection is   *)
(* torn, what is under way between client and camera (InFlight) and which  *)
(* SETUPs have been accepted (SetupsOK).  That of the stream, SInv, is     *)
(* proved with IInv at hand: what has not been read is always the rest of  *)
(* the camera's frames from some byte on (Unbroken), of frames on the      *)
(* channels of tracks (Channels, SetupsOffered), behind all answers        *)
(* (TextFirst), and once a frame has been read that byte is the first of a *)
(* later one (Behind).                                                     *)
(***************************************************************************)
EXTENDS RtspClient, SequenceTheorems, TLAPS

Describing == {"options", "describe", "challenge", "authorize"}
SettingUp == {"setup", "setup_challenge"}
Playing == {"play", "connected", "ended"}

PhaseOK ==
    /\ pc \in Describing => media = <<>>
    /\ pc \in SettingUp \cup Playing => media # <<>>
    /\ pc = "setup" => track <= Len(media)
    /\ (pc = "reconnect" /\ media = <<>>) \/ pc \in {"options", "describe"} => ~retried
    /\ waiting => Asking

BudgetOK ==
    /\ media = <<>> => conn <= IF retried THEN 2 ELSE 1
    /\ pc = "reconnect" \/ (pc = "setup" /\ challenge = None) => conn <= 2

ChallengeOK ==
    /\ pc \in {"authorize", "setup"} => challenge \in {None, conn}
    /\ \A k \in 1 .. Len(asked) : asked[k].auth \in {None, conn}

\* The track that a request sent now would set up.
SetupOf == IF pc = "setup" THEN track ELSE IF pc = "setup_challenge" THEN 1 ELSE 0

Unanswered ==
    /\ replies = <<>>
    /\ open => Len(asked) = 1 /\ asked[1].cseq = cseq - 1 /\ asked[1].setup = SetupOf

Answered ==
    /\ open => asked = <<>>
    /\ Len(replies) = 1 /\ replies[1].to = cseq - 1 /\ replies[1].part = 0

\* A torn connection is the first one, or is about to be given up.
InFlight ==
    /\ ~torn /\ waiting => Unanswered \/ Answered
    /\ ~torn /\ ~waiting /\ pc \in Describing \cup SettingUp \cup Playing =>
           replies = <<>> /\ (open => asked = <<>>)
    /\ media = <<>> => \A k \in 1 .. Len(asked) : asked[k].setup = 0
    /\ torn => conn = 1 \/ pc \in {"reconnect", "failed"}

\* The answer to a SETUP is there, and it is yes.
Accepted == waiting /\ Len(replies) = 1 /\ replies[1].status = "ok"

Set(i) == \E b \in BOOLEAN : <<i, FirstChannel(i), b>> \in accepted

SetsInOrder ==
    /\ pc = "setup" => \A i \in 1 .. track - 1 : Set(i)
    /\ pc = "setup" /\ Accepted => <<track, FirstChannel(track), replies[1].named>> \in accepted
    /\ pc = "setup_challenge" => accepted = {} \/ Accepted
    /\ pc \in Playing => \A i \in 1 .. Len(media) : Set(i)
    /\ pc \in {"setup"} \cup Playing /\ (\E a \in accepted : a[3]) =>
           session = conn \/ (pc = "setup" /\ Accepted /\ replies[1].named)

SetupsOK ==
    /\ media = <<>> => accepted = {}
    /\ ~torn => SetsInOrder

IInv == TypeOK /\ PhaseOK /\ BudgetOK /\ ChallengeOK /\ InFlight /\ SetupsOK
------------------------------------------------------------------------------
(***************************************************************************)
(* Types.                                                                  *)
(***************************************************************************)

Labels == {"options", "describe", "challenge", "authorize", "reconnect", "setup",
           "setup_challenge", "play", "connected", "ended", "failed"}
Replies == [to : Nat, status : Statuses, named : BOOLEAN, part : 0 .. MaxParts]
FrameSet == [channel : 0 .. FirstChannel(MaxTracks) + 1, size : Sizes]
Cells(n) == [frame : 1 .. n, at : Nat]
Packets == [frame : 0 .. MaxFrames, kind : Kinds]

WireTypes ==
    /\ frames \in Seq(FrameSet)
    /\ Len(frames) <= MaxFrames
    /\ wire \in Seq(Cells(Len(frames)))
    /\ got \in Seq(Packets)

HandshakeTypes ==
    /\ pc \in Labels
    /\ waiting \in BOOLEAN /\ retried \in BOOLEAN /\ open \in BOOLEAN /\ torn \in BOOLEAN
    /\ conn \in 1 .. 3 /\ cseq \in Nat
    /\ session \in (1 .. conn) \cup {None}
    /\ challenge \in (1 .. conn) \cup {None}
    /\ offer \in Offers /\ media \in {<<>>, offer}
    /\ track \in 1 .. MaxTracks + 1
    /\ asked \in Seq(Requests)
    /\ replies \in Seq(Replies)
    /\ playing \in BOOLEAN
    /\ accepted \subseteq {<<i, FirstChannel(i), b>> : i \in 1 .. MaxTracks, b \in BOOLEAN}

\* The two halves of the type invariant.
LEMMA TypeHalves == TypeOK <=> HandshakeTypes /\ WireTypes
BY DEF TypeOK, HandshakeTypes, WireTypes, Labels, Replies, FrameSet, Cells, Packets

\* Skipping cells leaves cells.
LEMMA SkipTypes ==
    ASSUME NEW S, wire \in Seq(S), NEW n \in 0 .. Len(wire), Skip(n)
    PROVE  wire' \in Seq(S)
BY LenProperties, SubSeqProperties DEF Skip

\* The media sections of an SDP.
LEMMA OfferTypes ==
    ASSUME NEW o \in Offers
    PROVE  Len(o) \in 0 .. MaxTracks /\ (o # <<>> => Len(o) >= 1)
<1>1. PICK n \in 0 .. MaxTracks : o \in [1 .. n -> Kinds]
  BY DEF Offers
<1>2. n \in Nat /\ o \in Seq(Kinds)
  BY <1>1, ClientAssumption
<1>3. Len(o) = n
  BY <1>1, <1>2, ClientAssumption
<1> QED
  BY <1>1, <1>2, <1>3, EmptySeq

\* The only answer of a sequence, and what remains behind it.
LEMMA OnlyAnswer ==
    ASSUME NEW r \in Seq(Replies), Len(r) = 1
    PROVE  r # <<>> /\ Head(r) = r[1] /\ Tail(r) = <<>> /\ r[1] \in Replies
BY HeadTailProperties, EmptySeq, ElementOfSeq

\* An answer behind those that are there.
LEMMA OneMoreAnswer ==
    ASSUME NEW r \in Seq(Replies), NEW e \in Replies
    PROVE  /\ Append(r, e) \in Seq(Replies)
           /\ r = <<>> => Len(Append(r, e)) = 1 /\ Append(r, e)[1] = e
<1>1. Append(r, e) \in Seq(Replies) /\ Len(Append(r, e)) = Len(r) + 1
      /\ Append(r, e)[Len(r) + 1] = e
  BY AppendProperties
<1>2. r = <<>> => Len(r) = 0
  OBVIOUS
<1> QED
  BY <1>1, <1>2

\* What is left of an answer before those that follow it.
LEMMA LeftoverTypes ==
    ASSUME NEW r \in Seq(Replies), NEW e \in Replies, NEW rest \in Leftover(e)
    PROVE  rest \o r \in Seq(Replies) /\ (rest = <<>> => rest \o r = r)
<1>1. rest \in Seq(Replies)
  <2>1. CASE rest = <<>>
    BY <2>1
  <2>2. CASE rest # <<>>
    <3>1. PICK kind \in Contents :
             /\ rest = <<[e EXCEPT !.status = kind[1], !.named = kind[2], !.part = @ + 1]>>
             /\ e.part < MaxParts
      BY <2>2 DEF Leftover
    <3>2. kind[1] \in Statuses /\ kind[2] \in BOOLEAN
      BY DEF Contents
    <3>3. e.part + 1 \in 0 .. MaxParts
      BY <3>1, ClientAssumption DEF Replies
    <3>4. PICK x : x = [e EXCEPT !.status = kind[1], !.named = kind[2], !.part = @ + 1]
      OBVIOUS
    <3>5. x \in Replies
      BY <3>2, <3>3, <3>4 DEF Replies
    <3> QED
      BY <3>1, <3>4, <3>5
  <2> QED
    BY <2>1, <2>2
<1>2. rest \o r \in Seq(Replies)
  BY <1>1, ConcatProperties
<1>3. <<>> \o r = r
  BY ConcatEmptySeq
<1> QED
  BY <1>2, <1>3
------------------------------------------------------------------------------
\* The invariant holds in the beginning.
LEMMA InitInv == Init => IInv
<1> SUFFICES ASSUME Init PROVE IInv
  OBVIOUS
<1>1. HandshakeTypes
  <2>1. <<>> \in Seq(Requests) /\ <<>> \in Seq(Replies)
    OBVIOUS
  <2>2. offer \in Offers /\ media \in {<<>>, offer} /\ track \in 1 .. MaxTracks + 1
    BY ClientAssumption DEF Init
  <2>3. pc \in Labels /\ waiting \in BOOLEAN /\ retried \in BOOLEAN /\ open \in BOOLEAN
        /\ torn \in BOOLEAN
    BY DEF Init, Labels
  <2>4. /\ conn \in 1 .. 3 /\ cseq \in Nat
        /\ session \in (1 .. conn) \cup {None} /\ challenge \in (1 .. conn) \cup {None}
    BY DEF Init
  <2>5. asked \in Seq(Requests) /\ replies \in Seq(Replies) /\ playing \in BOOLEAN /\ accepted = {}
    BY <2>1 DEF Init
  <2> QED
    BY <2>2, <2>3, <2>4, <2>5 DEF HandshakeTypes
<1>2. WireTypes
  <2>1. <<>> \in Seq(FrameSet) /\ <<>> \in Seq(Cells(Len(frames))) /\ <<>> \in Seq(Packets)
    OBVIOUS
  <2>2. Len(frames) <= MaxFrames
    BY FramingAssumption, EmptySeq DEF Init, StreamInit
  <2> QED
    BY <2>1, <2>2 DEF Init, StreamInit, WireTypes
<1>3. PhaseOK /\ BudgetOK /\ InFlight /\ SetupsOK
  BY DEF Init, PhaseOK, BudgetOK, InFlight, SetupsOK, SetsInOrder, Asking, Describing,
         SettingUp, Playing, Accepted
<1>4. ChallengeOK
  BY DEF Init, ChallengeOK
<1> QED
  BY <1>1, <1>2, <1>3, <1>4, TypeHalves DEF IInv

\* Packets that come and go do not touch the handshake.
LEMMA StreamStep == ASSUME IInv, WireTypes', UNCHANGED handshake PROVE IInv'
<1> USE DEF handshake, progress, tcp, camera
<1>1. TypeOK'
  <2>1. HandshakeTypes
    BY TypeHalves DEF IInv
  <2>2. HandshakeTypes'
    BY <2>1 DEF HandshakeTypes
  <2> QED
    BY <2>2 DEF TypeOK, HandshakeTypes, WireTypes, Labels, Replies, FrameSet, Cells, Packets
<1>2. PhaseOK' /\ BudgetOK' /\ ChallengeOK'
  BY DEF IInv, PhaseOK, BudgetOK, ChallengeOK, Asking
<1>3. InFlight'
  BY DEF IInv, InFlight, Unanswered, Answered, SetupOf
<1>4. SetupsOK'
  BY DEF IInv, SetupsOK, SetsInOrder, Accepted, Set
<1> QED
  BY <1>1, <1>2, <1>3, <1>4 DEF IInv

\* Cells are written for frames, and read away.
LEMMA WriteTypes ==
    ASSUME WireTypes, NEW channel \in 0 .. FirstChannel(MaxTracks) + 1, NEW size \in Sizes,
           Write(channel, size)
    PROVE  WireTypes'
<1> DEFINE k == Len(frames) + 1
           cells == [i \in 1 .. Header + size |-> [frame |-> k, at |-> i]]
<1>1. Len(frames) \in Nat /\ k \in 1 .. MaxFrames
  BY LenProperties, FramingAssumption DEF Write, WireTypes
<1>2. size \in Nat
  BY FramingAssumption
<1>3. cells \in Seq(Cells(k))
  <2>1. Header + size \in Nat
    BY <1>2 DEF Header
  <2>2. \A i \in 1 .. Header + size : [frame |-> k, at |-> i] \in Cells(k)
    BY <1>1, <2>1 DEF Cells
  <2> HIDE DEF k
  <2> QED
    BY <2>1, <2>2
<1>4. frames' \in Seq(FrameSet) /\ Len(frames') = k
  <2>1. [channel |-> channel, size |-> size] \in FrameSet
    BY DEF FrameSet
  <2> QED
    BY <2>1, AppendProperties DEF Write, WireTypes
<1>5. wire' = wire \o cells
  BY DEF Write
<1>6. wire \in Seq(Cells(k))
  <2>1. Cells(Len(frames)) \subseteq Cells(k)
    BY <1>1 DEF Cells
  <2> QED
    BY <2>1 DEF WireTypes
<1>7. wire' \in Seq(Cells(k))
  <2> HIDE DEF k, cells
  <2> QED
    BY <1>3, <1>5, <1>6, ConcatProperties
<1> QED
  BY <1>1, <1>4, <1>7 DEF WireTypes, Write

\* read_rtp_packet takes cells away and returns packets.
LEMMA ReadTypes == ASSUME WireTypes, ReadRtp PROVE WireTypes'
<1> USE FramingAssumption
<1>1. CASE Resync
  <2>1. 1 \in 0 .. Len(wire) /\ Skip(1)
    BY <1>1, LenProperties, EmptySeq DEF Resync, WireTypes
  <2> QED
    BY <1>1, <2>1, SkipTypes DEF WireTypes, Resync
<1>2. ASSUME NEW k \in 0 .. MaxFrames, NEW channel, NEW size \in Nat, Take(k, channel, size)
      PROVE  WireTypes'
  <2>1. Header + size \in 0 .. Len(wire) /\ Skip(Header + size)
    BY <1>2, LenProperties DEF Take, Header, WireTypes
  <2>2. got' \in Seq(Packets)
    <3>1. \A kind \in Kinds : [frame |-> k, kind |-> kind] \in Packets
      BY DEF Packets
    <3>2. CASE channel \in {0, 2}
      <4>1. PICK kind \in Kinds : got' = Append(got, [frame |-> k, kind |-> kind])
        BY <1>2, <3>2 DEF Take, Return, Kinds
      <4> QED
        BY <3>1, <4>1, AppendProperties DEF WireTypes
    <3> QED
      BY <1>2, <3>2 DEF Take, Return, WireTypes
  <2> QED
    BY <1>2, <2>1, <2>2, SkipTypes DEF WireTypes, Take
<1>3. CASE ReadFrame
  <2>1. PICK k : k = Head(wire).frame /\ Take(k, frames[k].channel, frames[k].size)
    BY <1>3 DEF ReadFrame
  <2>2. k \in 1 .. Len(frames) /\ Len(frames) \in Nat
    <3>1. Head(wire) \in Cells(Len(frames))
      BY <1>3, HeadTailProperties DEF ReadFrame, AtFrame, WireTypes
    <3> QED
      BY <2>1, <3>1, LenProperties DEF Cells, WireTypes
  <2>3. frames[k] \in FrameSet
    BY <2>2, ElementOfSeq DEF WireTypes
  <2>4. k \in 0 .. MaxFrames
    BY <2>2 DEF WireTypes
  <2>5. frames[k].size \in Nat
    BY <2>3 DEF FrameSet
  <2> QED
    BY <1>2, <2>1, <2>4, <2>5
<1>4. CASE ReadFalseFrame
  <2>1. PICK channel \in 0 .. 3, size \in 0 .. MaxSkip : Take(0, channel, size)
    BY <1>4 DEF ReadFalseFrame
  <2>2. 0 \in 0 .. MaxFrames /\ size \in Nat
    OBVIOUS
  <2> QED
    BY <1>2, <2>1, <2>2
<1> QED
  BY <1>1, <1>3, <1>4 DEF ReadRtp

------------------------------------------------------------------------------
(***************************************************************************)
(* What the client decides after an answer, or without one.                *)
(***************************************************************************)

\* The request is over.
Decided ==
    /\ waiting' = FALSE
    /\ UNCHANGED <<retried, conn, open, accepted, cseq, asked, camera>>
    /\ torn' \in BOOLEAN /\ (torn => torn')
    /\ torn' => conn = 1 \/ pc' \in {"reconnect", "failed"}
    /\ replies' \in Seq(Replies)
    /\ WireTypes'

\* Nothing of that request is under way.
Quiet == ~torn' => replies' = <<>> /\ (open => asked = <<>>)

\* What a decision leaves as it was.
LEMMA DecisionTypes ==
    ASSUME IInv, Decided, pc' \in Labels, session' \in (1 .. conn) \cup {None},
           challenge' \in (1 .. conn) \cup {None}, media' \in {<<>>, offer},
           track' \in 1 .. MaxTracks + 1
    PROVE  TypeOK'
<1>1. HandshakeTypes
  BY TypeHalves DEF IInv
<1>2. HandshakeTypes'
  <2>1. /\ waiting' = FALSE /\ retried' = retried /\ conn' = conn /\ open' = open
        /\ torn' \in BOOLEAN
        /\ accepted' = accepted /\ cseq' = cseq /\ asked' = asked /\ playing' = playing
        /\ offer' = offer /\ replies' \in Seq(Replies)
    BY DEF Decided, tcp, camera
  <2>2. session' \in (1 .. conn') \cup {None} /\ challenge' \in (1 .. conn') \cup {None}
    BY <2>1
  <2>3. offer' \in Offers /\ media' \in {<<>>, offer'} /\ asked' \in Seq(Requests)
    BY <1>1, <2>1 DEF HandshakeTypes
  <2>4. waiting' \in BOOLEAN /\ retried' \in BOOLEAN /\ open' \in BOOLEAN /\ playing' \in BOOLEAN
    <3>1. retried \in BOOLEAN /\ open \in BOOLEAN /\ playing \in BOOLEAN
      BY <1>1 DEF HandshakeTypes
    <3> QED
      BY <2>1, <3>1, Zenon
  <2>6. conn' \in 1 .. 3 /\ cseq' \in Nat
    BY <1>1, <2>1 DEF HandshakeTypes
  <2>5. accepted' \subseteq {<<i, FirstChannel(i), b>> : i \in 1 .. MaxTracks, b \in BOOLEAN}
    BY <1>1, <2>1 DEF HandshakeTypes
  <2> QED
    BY <2>1, <2>2, <2>3, <2>4, <2>5, <2>6 DEF HandshakeTypes
<1> QED
  BY <1>2 DEF Decided, TypeOK, HandshakeTypes, WireTypes, Labels, Replies, FrameSet, Cells, Packets

\* The handshake fails, or starts over within its budget.
LEMMA Failing ==
    ASSUME IInv, Decided, NEW next \in {"failed", "reconnect"}, GoTo(next),
           next = "reconnect" => (media = <<>> => ~retried) /\ conn <= 2
    PROVE  IInv'
<1>1. TypeOK'
  <2>1. HandshakeTypes
    BY TypeHalves DEF IInv
  <2> QED
    BY <2>1, DecisionTypes DEF GoTo, HandshakeTypes, Labels
<1>2. PhaseOK' /\ BudgetOK'
  BY DEF IInv, Decided, GoTo, PhaseOK, BudgetOK, Describing, SettingUp, Playing, tcp, camera
<1>3. ChallengeOK'
  BY DEF IInv, Decided, GoTo, ChallengeOK, tcp, camera
<1>4. InFlight'
  BY DEF IInv, Decided, GoTo, InFlight, Describing, SettingUp, Playing, tcp, camera
<1>5. SetupsOK'
  BY DEF IInv, Decided, GoTo, SetupsOK, SetsInOrder, Playing, tcp, camera
<1> QED
  BY <1>1, <1>2, <1>3, <1>4, <1>5 DEF IInv

\* A DESCRIBE that fails has one more connection to spend.
LEMMA DescribeFailing == ASSUME IInv, Decided, pc \in Describing, DescribeFails PROVE IInv'
<1>1. media = <<>>
  BY DEF IInv, PhaseOK
<1>2. ~retried => conn <= 2
  <2>1. conn \in 1 .. 3
    BY DEF IInv, TypeOK
  <2> QED
    BY <1>1, <2>1 DEF IInv, BudgetOK
<1>3. CASE retried
  BY <1>3, Failing DEF DescribeFails, GoTo
<1>4. CASE ~retried
  BY <1>2, <1>4, Failing DEF DescribeFails, GoTo
<1> QED
  BY <1>3, <1>4

\* A SETUP without authorization that fails, as well.
LEMMA SetupFailing == ASSUME IInv, Decided, pc = "setup", SetupFails PROVE IInv'
<1>1. media # <<>>
  BY DEF IInv, PhaseOK, SettingUp
<1>2. challenge = None => conn <= 2
  BY DEF IInv, BudgetOK
<1>3. CASE challenge = None
  BY <1>1, <1>2, <1>3, Failing DEF SetupFails
<1>4. CASE challenge # None
  BY <1>4, Failing DEF SetupFails
<1> QED
  BY <1>3, <1>4

\* The next request is a DESCRIBE.
LEMMA Describes ==
    ASSUME IInv, Decided, pc \in Describing, NEW next \in {"describe", "challenge"}, GoTo(next),
           Quiet, next = "describe" => pc = "options"
    PROVE  IInv'
<1>1. TypeOK'
  <2>1. HandshakeTypes
    BY TypeHalves DEF IInv
  <2> QED
    BY <2>1, DecisionTypes DEF GoTo, HandshakeTypes, Labels
<1>2. PhaseOK' /\ BudgetOK'
  BY DEF IInv, Decided, GoTo, PhaseOK, BudgetOK, Describing, SettingUp, Playing, tcp, camera
<1>3. ChallengeOK'
  BY DEF IInv, Decided, GoTo, ChallengeOK, tcp, camera
<1>4. InFlight'
  BY DEF IInv, Decided, Quiet, GoTo, InFlight, Describing, SettingUp, Playing, tcp, camera
<1>5. SetupsOK'
  BY DEF IInv, Decided, GoTo, SetupsOK, SetsInOrder, Playing, tcp, camera
<1> QED
  BY <1>1, <1>2, <1>3, <1>4, <1>5 DEF IInv

\* The SDP is there: no SETUP has been accepted so far.
LEMMA DescribedStep ==
    ASSUME IInv, Decided, pc \in Describing, Described, Quiet
    PROVE  IInv'
<1>1. media = <<>> /\ accepted = {}
  BY DEF IInv, PhaseOK, SetupsOK
<1>2. Len(offer) >= 1
  BY OfferTypes DEF IInv, TypeOK, Described
<1>3. TypeOK'
  <2>1. HandshakeTypes
    BY TypeHalves DEF IInv
  <2>2. 1 \in 1 .. MaxTracks + 1
    BY ClientAssumption
  <2> QED
    BY <2>1, <2>2, DecisionTypes DEF Described, HandshakeTypes, Labels
<1>4. PhaseOK'
  BY <1>2 DEF Decided, Described, PhaseOK, Describing, SettingUp, Playing
<1>5. BudgetOK'
  <2>1. conn <= 2
    BY <1>1 DEF IInv, TypeOK, BudgetOK
  <2> QED
    BY <2>1 DEF Decided, Described, BudgetOK, tcp
<1>6. ChallengeOK'
  BY DEF IInv, Decided, Described, ChallengeOK, tcp
<1>7. InFlight'
  BY DEF Decided, Described, Quiet, InFlight, tcp
<1>8. SetupsOK'
  BY <1>1 DEF Decided, Described, SetupsOK, SetsInOrder, Accepted, Playing, tcp
<1> QED
  BY <1>3, <1>4, <1>5, <1>6, <1>7, <1>8 DEF IInv

\* A challenge for this connection: DESCRIBE or the SETUPs are authorized with it.
LEMMA ChallengedStep ==
    ASSUME IInv, Decided, Quiet, NEW next \in {"authorize", "setup"}, Challenged(next),
           next = "authorize" => pc = "challenge",
           next = "setup" => pc = "setup_challenge" /\ (~torn => ~Accepted)
    PROVE  IInv'
<1>1. conn \in 1 .. 3 /\ challenge' = conn /\ conn' = conn /\ challenge' # None
  <2>1. conn \in 1 .. 3
    BY DEF IInv, TypeOK
  <2>2. challenge' = conn /\ conn' = conn
    BY DEF Challenged, Decided, tcp
  <2> QED
    BY <2>1, <2>2, ClientAssumption
<1>2. TypeOK'
  <2>1. HandshakeTypes
    BY TypeHalves DEF IInv
  <2>2. 1 \in 1 .. MaxTracks + 1 /\ challenge' \in (1 .. conn) \cup {None}
    BY <1>1, ClientAssumption
  <2> QED
    BY <2>1, <2>2, DecisionTypes DEF Challenged, HandshakeTypes, Labels
<1>3. PhaseOK'
  <2>1. media # <<>> => Len(media) >= 1
    BY OfferTypes DEF IInv, TypeOK
  <2> QED
    BY <2>1 DEF IInv, Decided, Challenged, PhaseOK, Describing, SettingUp, Playing
<1>4. BudgetOK'
  BY <1>1 DEF IInv, Decided, Challenged, BudgetOK
<1>5. ChallengeOK'
  BY <1>1 DEF IInv, Decided, Challenged, ChallengeOK
<1>6. InFlight'
  BY DEF IInv, Decided, Challenged, Quiet, InFlight, tcp
<1>7. SetupsOK'
  BY DEF IInv, Decided, Challenged, SetupsOK, SetsInOrder, Accepted, Playing, tcp
<1> QED
  BY <1>2, <1>3, <1>4, <1>5, <1>6, <1>7 DEF IInv

\* A track is set up, on its own pair of channels.
LEMMA TrackSetStep ==
    ASSUME IInv, Decided, Quiet, pc = "setup", NEW named \in BOOLEAN, TrackSet(named),
           ~torn => Accepted /\ named = replies[1].named
    PROVE  IInv'
<1>1. track \in 1 .. Len(media) /\ Len(media) \in 0 .. MaxTracks
  <2>1. Len(media) \in 0 .. MaxTracks
    BY OfferTypes, ClientAssumption, EmptySeq DEF IInv, TypeOK
  <2> QED
    BY <2>1, ClientAssumption DEF IInv, TypeOK, PhaseOK
<1>2. ~torn => <<track, FirstChannel(track), named>> \in accepted /\ SetsInOrder
  BY DEF IInv, SetupsOK, SetsInOrder
<1>3. TypeOK'
  <2>1. HandshakeTypes
    BY TypeHalves DEF IInv
  <2>2. track' \in 1 .. MaxTracks + 1
    BY <1>1, ClientAssumption DEF TrackSet
  <2>3. conn \in 1 .. conn
    BY DEF IInv, TypeOK
  <2>4. session' \in (1 .. conn) \cup {None}
    BY <2>1, <2>3 DEF TrackSet, HandshakeTypes
  <2>5. pc' \in Labels
    BY DEF TrackSet, Labels
  <2> QED
    BY <2>1, <2>2, <2>4, <2>5, DecisionTypes DEF TrackSet, HandshakeTypes
<1>4. PhaseOK'
  <2>1. media # <<>>
    BY DEF IInv, PhaseOK, SettingUp
  <2>2. track # Len(media) => track + 1 <= Len(media)
    BY <1>1
  <2> QED
    BY <2>1, <2>2 DEF Decided, TrackSet, PhaseOK, Describing, SettingUp, Playing
<1>5. BudgetOK'
  BY DEF IInv, Decided, TrackSet, BudgetOK, tcp
<1>6. ChallengeOK'
  BY DEF IInv, Decided, TrackSet, ChallengeOK, tcp
<1>7. InFlight'
  BY DEF IInv, Decided, TrackSet, Quiet, InFlight, tcp
<1>8. SetupsOK'
  <2>1. media # <<>> /\ media' = media /\ pc' \in {"play", "setup"} /\ (torn => torn')
    BY DEF IInv, PhaseOK, SettingUp, TrackSet, Decided
  <2>2. CASE ~torn
    <3>1. \A i \in 1 .. track : Set(i)
      <4>1. \A i \in 1 .. track - 1 : Set(i)
        BY <1>2, <2>2 DEF SetsInOrder
      <4>2. Set(track)
        BY <1>2, <2>2 DEF Set
      <4> QED
        BY <1>1, <4>1, <4>2
    <3>2. \A i : Set(i)' <=> Set(i)
      BY DEF Set, Decided
    <3>3. (\E a \in accepted : a[3]) => session' = conn
      BY <1>2, <2>2 DEF SetsInOrder, TrackSet
    <3>4. pc' = "play" => track = Len(media)
      BY DEF TrackSet
    <3>5. track' - 1 = track
      BY <1>1 DEF TrackSet
    <3>6. SetsInOrder'
      BY <2>1, <3>1, <3>2, <3>3, <3>4, <3>5 DEF SetsInOrder, Decided, Accepted, Playing
    <3> QED
      BY <2>1, <3>6 DEF SetupsOK
  <2>3. CASE torn
    BY <2>1, <2>3 DEF SetupsOK
  <2> QED
    BY <2>2, <2>3
<1> QED
  BY <1>3, <1>4, <1>5, <1>6, <1>7, <1>8 DEF IInv

\* The handshake is over; or the reader is.
LEMMA AfterPlay ==
    ASSUME IInv, Decided, Quiet, pc \in {"play", "connected"}, NEW next \in {"connected", "ended"},
           GoTo(next)
    PROVE  IInv'
<1>1. TypeOK'
  <2>1. HandshakeTypes
    BY TypeHalves DEF IInv
  <2> QED
    BY <2>1, DecisionTypes DEF GoTo, HandshakeTypes, Labels
<1>2. PhaseOK' /\ BudgetOK'
  BY DEF IInv, Decided, GoTo, PhaseOK, BudgetOK, Describing, SettingUp, Playing, tcp, camera
<1>3. ChallengeOK'
  BY DEF IInv, Decided, GoTo, ChallengeOK, tcp, camera
<1>4. InFlight'
  BY DEF IInv, Decided, Quiet, GoTo, InFlight, tcp, camera
<1>5. SetupsOK'
  BY DEF IInv, Decided, GoTo, SetupsOK, SetsInOrder, Accepted, Set, Playing, tcp, camera
<1> QED
  BY <1>1, <1>2, <1>3, <1>4, <1>5 DEF IInv

------------------------------------------------------------------------------
(***************************************************************************)
(* The steps.                                                              *)
(***************************************************************************)

\* An answer that is read on a connection that is not torn is the only one there
\* is, and the request's own.
LEMMA ReadMeaning ==
    ASSUME IInv, ReadAnswer
    PROVE  /\ Quiet
           /\ Head(replies) = replies[1] /\ replies[1] \in Replies
           /\ replies' \in Seq(Replies)
           /\ ~torn => Len(replies) = 1
<1>1. replies \in Seq(Replies) /\ replies # <<>> /\ waiting /\ torn' = torn
  BY TypeHalves DEF IInv, HandshakeTypes, ReadAnswer, tcp
<1>2. Head(replies) = replies[1] /\ replies[1] \in Replies /\ Tail(replies) \in Seq(Replies)
  <2>1. Len(replies) \in Nat /\ Len(replies) # 0
    BY <1>1, LenProperties, EmptySeq
  <2> QED
    BY <1>1, <2>1, HeadTailProperties, ElementOfSeq
<1>3. ~torn => Answered
  BY <1>1 DEF IInv, InFlight, Unanswered
<1>4. ~torn => Len(replies) = 1 /\ replies[1].part = 0 /\ (open => asked = <<>>)
  BY <1>3 DEF Answered
<1>5. PICK rest \in IF replies[1].part > 0 THEN Leftover(replies[1]) ELSE {<<>>} :
          replies' = rest \o Tail(replies)
  BY <1>2 DEF ReadAnswer
<1>6. replies' \in Seq(Replies) /\ (rest = <<>> => replies' = Tail(replies))
  <2>1. <<>> \o Tail(replies) = Tail(replies)
    BY <1>2, ConcatEmptySeq
  <2>2. CASE rest = <<>>
    BY <1>2, <1>5, <2>1, <2>2
  <2>3. CASE rest # <<>>
    <3>1. rest \in Leftover(replies[1])
      BY <1>5, <2>3
    <3> QED
      BY <1>2, <1>5, <3>1, LeftoverTypes
  <2> QED
    BY <2>2, <2>3
<1>7. ~torn => replies' = <<>>
  BY <1>1, <1>4, <1>5, <1>6, OnlyAnswer
<1> QED
  BY <1>1, <1>2, <1>4, <1>6, <1>7 DEF Quiet

\* The answer to a request is read.
LEMMA ReadAnswerStep == ASSUME IInv, ReadAnswer PROVE IInv'
<1>1. /\ Quiet /\ waiting /\ replies[1] \in Replies /\ (~torn => Len(replies) = 1)
      /\ Understand(replies[1].status, replies[1].named)
  BY ReadMeaning DEF ReadAnswer
<1>2. WireTypes'
  <2>1. WireTypes
    BY TypeHalves DEF IInv
  <2>2. CASE UNCHANGED stream
    BY <2>1, <2>2 DEF WireTypes, stream
  <2>3. ASSUME NEW n \in 0 .. Len(wire), ReadAhead(n) PROVE WireTypes'
    BY <2>1, <2>3, SkipTypes DEF WireTypes, ReadAhead
  <2> QED
    BY <2>2, <2>3 DEF ReadAnswer
<1>3. Decided
  <2>1. torn' = torn /\ torn \in BOOLEAN
    BY DEF ReadAnswer, tcp, IInv, TypeOK
  <2>2. torn => conn = 1
    BY <1>1 DEF IInv, InFlight, PhaseOK, Asking
  <2>3. torn' \in BOOLEAN /\ (torn => torn') /\ (torn' => conn = 1)
    BY <2>1, <2>2
  <2>4. UNCHANGED <<retried, conn, open, accepted, cseq, asked, camera>> /\ waiting' = FALSE
    BY DEF ReadAnswer, tcp
  <2> QED
    BY <1>2, <2>3, <2>4, ReadMeaning DEF Decided
<1>4. replies[1].named \in BOOLEAN
  BY <1>1 DEF Replies
<1>5. replies[1].status = "unauthorized" => ~Accepted
  BY DEF Accepted
<1>6. CASE pc = "options"
  BY <1>1, <1>3, <1>6, Describes DEF Understand, Describing
<1>7. CASE pc = "describe"
  BY <1>1, <1>3, <1>7, Describes, DescribedStep DEF Understand, Describing
<1>8. CASE pc = "challenge"
  BY <1>1, <1>3, <1>8, DescribedStep, ChallengedStep, DescribeFailing DEF Understand, Describing
<1>9. CASE pc = "authorize"
  BY <1>1, <1>3, <1>9, DescribedStep, DescribeFailing DEF Understand, Describing
<1>10. CASE pc = "setup"
  BY <1>1, <1>3, <1>4, <1>10, TrackSetStep, SetupFailing DEF Understand, Accepted
<1>11. CASE pc = "setup_challenge"
  BY <1>1, <1>3, <1>5, <1>11, ChallengedStep, Failing DEF Understand
<1>12. CASE pc = "play"
  BY <1>1, <1>3, <1>12, AfterPlay DEF Understand
<1> QED
  BY <1>1, <1>6, <1>7, <1>8, <1>9, <1>10, <1>11, <1>12 DEF Understand

\* A request that failed without an answer.
LEMMA NoAnswerStep ==
    ASSUME IInv, Decided, NoAnswer, pc = "describe" => Quiet
    PROVE  IInv'
<1>1. CASE pc \in {"options", "setup_challenge", "play"}
  BY <1>1, Failing DEF NoAnswer
<1>2. CASE pc = "describe"
  BY <1>2, Describes DEF NoAnswer, GoTo, Describing
<1>3. CASE pc \in {"challenge", "authorize"}
  BY <1>3, DescribeFailing DEF NoAnswer, Describing
<1>4. CASE pc = "setup"
  BY <1>4, SetupFailing DEF NoAnswer
<1> QED
  BY <1>1, <1>2, <1>3, <1>4 DEF NoAnswer

\* Steps that leave the stream alone.
LEMMA StillWire == ASSUME IInv, UNCHANGED stream PROVE WireTypes'
<1>1. WireTypes
  BY TypeHalves DEF IInv
<1> QED
  BY <1>1 DEF WireTypes, stream

\* A line that is no status line is read.
LEMMA ReadGarbledStep == ASSUME IInv, ReadGarbled PROVE IInv'
<1>1. /\ replies \in Seq(Replies) /\ replies # <<>> /\ waiting
      /\ Head(replies) \in Replies /\ Tail(replies) \in Seq(Replies)
  <2>1. replies \in Seq(Replies) /\ replies # <<>> /\ waiting
    BY TypeHalves DEF IInv, HandshakeTypes, ReadGarbled
  <2> QED
    BY <2>1, HeadTailProperties
<1>2. PICK rest \in Leftover(Head(replies)) :
         replies' = rest \o Tail(replies) /\ torn' = (torn \/ rest # <<>>)
  BY DEF ReadGarbled
<1>3. /\ replies' \in Seq(Replies) /\ torn' \in BOOLEAN /\ (torn => torn')
      /\ ~torn' => ~torn /\ rest = <<>> /\ replies' = Tail(replies)
  BY <1>1, <1>2, LeftoverTypes
<1>4. conn = 1 \/ pc' \in {"reconnect", "failed"}
  <2>1. CASE pc = "describe"
    BY <2>1 DEF IInv, PhaseOK, BudgetOK, TypeOK, Describing
  <2>2. CASE pc # "describe"
    BY <2>2 DEF ReadGarbled, NoAnswer, GoTo, DescribeFails, SetupFails
  <2> QED
    BY <2>1, <2>2
<1>5. Decided
  BY <1>1, <1>3, <1>4, StillWire DEF Decided, ReadGarbled
<1>6. Quiet
  <2>1. ~torn => Len(replies) = 1 /\ (open => asked = <<>>)
    BY <1>1 DEF IInv, InFlight, Unanswered, Answered
  <2> QED
    BY <1>1, <1>3, <2>1, OnlyAnswer DEF Quiet
<1> QED
  BY <1>5, <1>6, NoAnswerStep DEF ReadGarbled

\* The connection has ended, or the time is up, or no SETUP can be sent.
LEMMA NoAnswerSteps ==
    ASSUME IInv, ReadsEnd \/ Timeout \/ TrackRefused \/ ReconnectFails
    PROVE  IInv'
<1>1. Decided
  <2>1. UNCHANGED <<retried, conn, open, accepted, torn, cseq, asked, camera, replies, stream>>
    BY DEF ReadsEnd, Timeout, TrackRefused, ReconnectFails, tcp
  <2>2. replies \in Seq(Replies) /\ WireTypes' /\ torn \in BOOLEAN
    BY <2>1, TypeHalves, StillWire DEF IInv, HandshakeTypes
  <2>3. waiting' = FALSE
    BY DEF ReadsEnd, Timeout, TrackRefused, ReconnectFails, IInv, TypeOK, PhaseOK, Asking
  <2>4. torn => conn = 1 \/ pc' \in {"reconnect", "failed"}
    <3>1. ReconnectFails => pc' = "failed"
      BY DEF ReconnectFails, GoTo
    <3>2. ~ReconnectFails => pc \notin {"reconnect", "failed"}
      BY DEF IInv, PhaseOK, Asking, ReadsEnd, Timeout, TrackRefused
    <3> QED
      BY <3>1, <3>2 DEF IInv, InFlight
  <2> QED
    BY <2>1, <2>2, <2>3, <2>4 DEF Decided
<1>2. CASE ReadsEnd
  <2>1. Quiet
    BY <1>2 DEF ReadsEnd, Quiet
  <2> QED
    BY <1>1, <1>2, <2>1, NoAnswerStep DEF ReadsEnd
<1>3. CASE Timeout
  BY <1>1, <1>3, DescribeFailing DEF Timeout, Describing
<1>4. CASE TrackRefused
  BY <1>1, <1>4, SetupFailing, Failing DEF TrackRefused
<1>5. CASE ReconnectFails
  BY <1>1, <1>5, Failing DEF ReconnectFails
<1> QED
  BY <1>2, <1>3, <1>4, <1>5

\* What no step of the camera and no reconnection changes in the types.
LEMMA OtherTypes ==
    ASSUME IInv, WireTypes', pc' \in Labels, waiting' \in BOOLEAN, retried' \in BOOLEAN,
           open' \in BOOLEAN, torn' \in BOOLEAN, playing' \in BOOLEAN, conn' \in 1 .. 3, conn <= conn', cseq' \in Nat,
           asked' \in Seq(Requests), replies' \in Seq(Replies),
           accepted' \subseteq {<<i, FirstChannel(i), b>> : i \in 1 .. MaxTracks, b \in BOOLEAN},
           UNCHANGED <<session, challenge, media, track, offer>>
    PROVE  TypeOK'
<1>1. HandshakeTypes
  BY TypeHalves DEF IInv
<1>2. session' \in (1 .. conn') \cup {None} /\ challenge' \in (1 .. conn') \cup {None}
  <2>1. 1 .. conn \subseteq 1 .. conn'
    BY <1>1 DEF HandshakeTypes
  <2> QED
    BY <1>1, <2>1 DEF HandshakeTypes
<1>3. offer' \in Offers /\ media' \in {<<>>, offer'} /\ track' \in 1 .. MaxTracks + 1
  BY <1>1 DEF HandshakeTypes
<1>4. HandshakeTypes'
  BY <1>2, <1>3 DEF HandshakeTypes
<1> QED
  BY <1>4 DEF TypeOK, HandshakeTypes, WireTypes, Labels, Replies, FrameSet, Cells, Packets

\* Everything starts over on a new connection.
LEMMA ReconnectStep == ASSUME IInv, Reconnect PROVE IInv'
<1> USE DEF tcp, progress, camera
<1>1. HandshakeTypes /\ WireTypes' /\ ~waiting /\ waiting' = FALSE
  <2>1. ~waiting
    BY DEF IInv, PhaseOK, Asking, Reconnect
  <2>2. waiting' = FALSE
    BY <2>1 DEF Reconnect, IInv, TypeOK
  <2> QED
    BY <2>1, <2>2, TypeHalves, StillWire DEF IInv, Reconnect
<1>2. conn \in 1 .. 2 /\ conn' = conn + 1 /\ (media = <<>> => conn = 1)
  BY DEF IInv, TypeOK, BudgetOK, PhaseOK, Reconnect
<1>3. TypeOK'
  <2>1. <<>> \in Seq(Requests) /\ <<>> \in Seq(Replies)
    OBVIOUS
  <2>2. pc' \in Labels
    BY DEF Reconnect, AfterReconnect, Labels
  <2>3. conn' \in 1 .. 3 /\ conn <= conn' /\ cseq' \in Nat
    BY <1>2 DEF Reconnect
  <2>4. /\ retried' \in BOOLEAN /\ open' \in BOOLEAN /\ playing' \in BOOLEAN
        /\ asked' \in Seq(Requests) /\ replies' \in Seq(Replies) /\ accepted' = {}
        /\ UNCHANGED <<session, challenge, media, track, offer>>
    BY <1>1, <2>1 DEF Reconnect, HandshakeTypes
  <2>5. waiting' \in BOOLEAN /\ torn' \in BOOLEAN
    BY <1>1 DEF Reconnect
  <2>6. accepted' \subseteq {<<i, FirstChannel(i), b>> : i \in 1 .. MaxTracks, b \in BOOLEAN}
    BY <2>4
  <2> QED
    BY <1>1, <2>2, <2>3, <2>4, <2>5, <2>6, OtherTypes
<1>4. PhaseOK'
  BY <1>1 DEF Reconnect, AfterReconnect, PhaseOK, Describing, SettingUp, Playing
<1>5. BudgetOK'
  BY <1>2 DEF Reconnect, AfterReconnect, BudgetOK
<1>6. ChallengeOK'
  BY EmptySeq DEF Reconnect, AfterReconnect, ChallengeOK
<1>7. InFlight'
  BY <1>1, EmptySeq DEF Reconnect, InFlight
<1>8. SetupsOK'
  BY DEF Reconnect, AfterReconnect, SetupsOK, SetsInOrder, Playing
<1> QED
  BY <1>3, <1>4, <1>5, <1>6, <1>7, <1>8 DEF IInv

\* A request that is sent.
LEMMA RequestTypes ==
    ASSUME IInv, Asking
    PROVE  /\ Request(pc) \in Requests
           /\ Request(pc).cseq = cseq /\ Request(pc).setup = SetupOf
           /\ Request(pc).auth \in {None, conn}
           /\ media = <<>> => SetupOf = 0
<1>1. Len(media) \in 0 .. MaxTracks /\ (media # <<>> => Len(media) >= 1)
  <2>1. offer \in Offers /\ media \in {<<>>, offer}
    BY DEF IInv, TypeOK
  <2>2. Len(<<>>) \in 0 .. MaxTracks
    BY ClientAssumption
  <2> QED
    BY <2>1, <2>2, OfferTypes
<1>2. SetupOf \in 0 .. MaxTracks
  BY <1>1, ClientAssumption DEF IInv, TypeOK, PhaseOK, SetupOf, SettingUp
<1>3. /\ cseq \in Nat /\ conn \in Nat
      /\ session \in Nat \cup {None} /\ challenge \in Nat \cup {None}
  BY DEF IInv, TypeOK
<1>4. Request(pc).setup = SetupOf
  BY DEF Request, SetupOf
<1>5. Request(pc).auth \in {None, conn}
  BY DEF Request, IInv, ChallengeOK
<1>6. Request(pc) \in Requests
  <2>1. Request(pc).session \in Nat \cup {None} /\ Request(pc).auth \in Nat \cup {None}
    BY <1>3, <1>5 DEF Request
  <2>2. Request(pc).setup \in 0 .. MaxTracks
    BY <1>2, <1>4
  <2>3. Request(pc).play \in BOOLEAN /\ Request(pc).cseq \in Nat
    BY <1>3 DEF Request
  <2> QED
    BY <2>1, <2>2, <2>3 DEF Request, Requests
<1>7. media = <<>> => SetupOf = 0
  BY DEF IInv, PhaseOK, SetupOf, SettingUp
<1> QED
  BY <1>4, <1>5, <1>6, <1>7 DEF Request

\* It is the only one, and nothing that can be read answers it yet.
LEMMA SendStep == ASSUME IInv, Send PROVE IInv'
<1> USE DEF tcp, progress, camera
<1>1. /\ HandshakeTypes /\ WireTypes' /\ waiting' = TRUE /\ ~waiting
      /\ cseq \in Nat /\ cseq' = cseq + 1 /\ asked \in Seq(Requests)
  <2>1. HandshakeTypes /\ WireTypes'
    BY TypeHalves, StillWire DEF IInv, Send
  <2> QED
    BY <2>1 DEF Send, HandshakeTypes
<1>2. PICK q \in Requests :
         /\ asked' = Append(asked, q)
         /\ q.cseq = cseq /\ q.setup = SetupOf /\ q.auth \in {None, conn}
         /\ media = <<>> => SetupOf = 0
  BY RequestTypes DEF Send
<1>3. /\ asked' \in Seq(Requests) /\ Len(asked') = Len(asked) + 1 /\ Len(asked) \in Nat
      /\ asked'[Len(asked) + 1] = q
      /\ \A k \in 1 .. Len(asked) : asked'[k] = asked[k]
  BY <1>1, <1>2, AppendProperties, LenProperties
<1>4. ~torn => ~Accepted /\ ~Accepted' /\ replies = <<>> /\ (open => asked = <<>>)
  <2>1. ~torn => replies = <<>> /\ (open => asked = <<>>)
    BY <1>1 DEF Send, Asking, IInv, InFlight, Describing, SettingUp, Playing
  <2>2. replies = <<>> => Len(replies) # 1
    BY EmptySeq
  <2> QED
    BY <2>1, <2>2 DEF Accepted, Send
<1>5. TypeOK'
  <2>1. /\ pc' \in Labels /\ conn' \in 1 .. 3 /\ conn <= conn' /\ cseq' \in Nat
        /\ replies' \in Seq(Replies)
        /\ UNCHANGED <<session, challenge, media, track, offer>>
    BY <1>1 DEF Send, HandshakeTypes
  <2>2. retried' \in BOOLEAN /\ open' \in BOOLEAN /\ playing' \in BOOLEAN /\ torn' \in BOOLEAN
    BY <1>1 DEF Send, HandshakeTypes
  <2>3. accepted' \subseteq {<<i, FirstChannel(i), b>> : i \in 1 .. MaxTracks, b \in BOOLEAN}
    BY <1>1 DEF Send, HandshakeTypes
  <2> QED
    BY <1>1, <1>3, <2>1, <2>2, <2>3, OtherTypes
<1>6. PhaseOK' /\ BudgetOK'
  BY DEF IInv, Send, PhaseOK, BudgetOK, Asking
<1>7. ChallengeOK'
  <2>1. \A k \in 1 .. Len(asked') : asked'[k].auth \in {None, conn}
    BY <1>2, <1>3 DEF IInv, ChallengeOK
  <2> QED
    BY <2>1 DEF IInv, Send, ChallengeOK
<1>8. InFlight'
  <2>1. ~torn /\ open => Len(asked') = 1 /\ asked'[1].cseq = cseq' - 1 /\ asked'[1].setup = SetupOf
    BY <1>1, <1>2, <1>3, <1>4, EmptySeq
  <2>2. ~torn => Unanswered'
    BY <1>4, <2>1 DEF Unanswered, SetupOf, Send
  <2>3. media = <<>> => \A k \in 1 .. Len(asked') : asked'[k].setup = 0
    BY <1>2, <1>3 DEF IInv, InFlight
  <2> QED
    BY <1>1, <2>2, <2>3 DEF IInv, InFlight, Send
<1>9. SetupsOK'
  BY <1>4 DEF IInv, Send, SetupsOK, SetsInOrder, Set
<1> QED
  BY <1>5, <1>6, <1>7, <1>8, <1>9 DEF IInv

\* The camera answers the first request of the connection.
LEMMA AnswerStep == ASSUME IInv, Answer PROVE IInv'
<1> USE DEF tcp, progress, camera
<1>1. HandshakeTypes /\ WireTypes'
  BY TypeHalves, StillWire DEF IInv, Answer
<1>2. /\ open /\ asked \in Seq(Requests) /\ asked # <<>> /\ Head(asked) = asked[1]
      /\ asked[1] \in Requests /\ Tail(asked) \in Seq(Requests)
      /\ Len(asked) \in Nat /\ Len(asked) >= 1 /\ Len(Tail(asked)) = Len(asked) - 1
      /\ \A k \in 1 .. Len(asked) - 1 : Tail(asked)[k] = asked[k + 1]
  <2>1. asked \in Seq(Requests) /\ asked # <<>> /\ open
    BY <1>1 DEF Answer, HandshakeTypes
  <2>2. Len(asked) \in Nat /\ Len(asked) # 0
    BY <2>1, LenProperties, EmptySeq
  <2> QED
    BY <2>1, <2>2, HeadTailProperties, ElementOfSeq
<1>3. PICK e \in Replies :
         /\ replies' = Append(replies, e)
         /\ e.to = asked[1].cseq
         /\ accepted' = IF e.status = "ok" /\ asked[1].setup # 0
                        THEN accepted \cup {<<asked[1].setup, FirstChannel(asked[1].setup), e.named>>}
                        ELSE accepted
         /\ e.named => asked[1].setup # 0 /\ e.status = "ok"
         /\ e.part = 0
  <2>1. PICK status \in Statuses, named \in BOOLEAN :
           /\ named => status = "ok" /\ asked[1].setup # 0
           /\ replies' = Append(replies, [to |-> asked[1].cseq, status |-> status, named |-> named,
                                          part |-> 0])
           /\ accepted' = IF status = "ok" /\ asked[1].setup # 0
                          THEN accepted \cup {<<asked[1].setup, FirstChannel(asked[1].setup), named>>}
                          ELSE accepted
    BY <1>2 DEF Answer, Contents
  <2>2. [to |-> asked[1].cseq, status |-> status, named |-> named, part |-> 0] \in Replies
    BY <1>2, ClientAssumption DEF Replies, Requests
  <2> QED
    BY <2>1, <2>2
<1>4. replies \in Seq(Replies) /\ replies' \in Seq(Replies)
  <2>1. replies \in Seq(Replies)
    BY <1>1 DEF HandshakeTypes
  <2> QED
    BY <1>3, <2>1, OneMoreAnswer
<1>5. media = <<>> => asked[1].setup = 0
  BY <1>2 DEF IInv, InFlight
<1>6. ~torn /\ pc \notin {"failed", "reconnect"} =>
         /\ waiting /\ Unanswered /\ Len(asked) = 1
         /\ asked[1].cseq = cseq - 1 /\ asked[1].setup = SetupOf
  <2>1. ASSUME ~torn, pc \notin {"failed", "reconnect"} PROVE waiting
    BY <1>2, <2>1 DEF IInv, InFlight, TypeOK, Describing, SettingUp, Playing
  <2> QED
    BY <1>2, <2>1 DEF IInv, InFlight, Unanswered, Answered
<1>7. TypeOK'
  <2>1. accepted' \subseteq {<<i, FirstChannel(i), b>> : i \in 1 .. MaxTracks, b \in BOOLEAN}
    <3>1. accepted \subseteq {<<i, FirstChannel(i), b>> : i \in 1 .. MaxTracks, b \in BOOLEAN}
      BY <1>1 DEF HandshakeTypes
    <3>2. asked[1].setup \in 0 .. MaxTracks /\ e.named \in BOOLEAN
      BY <1>2, <1>3 DEF Requests, Replies
    <3> QED
      BY <1>3, <3>1, <3>2, ClientAssumption
  <2>2. /\ pc' \in Labels /\ conn' \in 1 .. 3 /\ conn <= conn' /\ cseq' \in Nat
        /\ UNCHANGED <<session, challenge, media, track, offer>>
    BY <1>1 DEF Answer, HandshakeTypes
  <2>3. waiting' \in BOOLEAN /\ retried' \in BOOLEAN /\ open' \in BOOLEAN /\ torn' \in BOOLEAN
    BY <1>1 DEF Answer, HandshakeTypes
  <2>4. playing' \in BOOLEAN
    <3>1. PICK status : playing' = (playing \/ (status = "ok" /\ Head(asked).play))
      BY Zenon DEF Answer
    <3> QED
      BY <3>1, Zenon
  <2>5. asked' \in Seq(Requests)
    BY <1>2 DEF Answer
  <2> QED
    BY <1>1, <1>4, <2>1, <2>2, <2>3, <2>4, <2>5, OtherTypes
<1>8. PhaseOK' /\ BudgetOK'
  BY DEF IInv, Answer, PhaseOK, BudgetOK, Asking
<1>9. ChallengeOK'
  <2>1. \A k \in 1 .. Len(asked') : asked'[k].auth \in {None, conn}
    BY <1>2 DEF Answer, IInv, ChallengeOK
  <2> QED
    BY <2>1 DEF IInv, Answer, ChallengeOK
<1>10. InFlight'
  <2>1. waiting /\ Unanswered => Answered'
    <3> SUFFICES ASSUME waiting, Unanswered PROVE Answered'
      OBVIOUS
    <3>1. Len(asked) = 1 /\ asked[1].cseq = cseq - 1
      BY <1>2 DEF Unanswered
    <3>2. asked' = <<>>
      <4>1. Len(asked') = 0 /\ asked' \in Seq(Requests)
        BY <1>2, <3>1 DEF Answer
      <4> QED
        BY <4>1, EmptySeq
    <3>3. replies = <<>>
      BY DEF Unanswered
    <3> QED
      BY <1>3, <1>4, <3>1, <3>2, <3>3, OneMoreAnswer DEF Answered, Answer
  <2>2. media = <<>> => \A k \in 1 .. Len(asked') : asked'[k].setup = 0
    BY <1>2 DEF Answer, IInv, InFlight
  <2>3. ~torn /\ pc \in Describing \cup SettingUp \cup Playing => waiting /\ Unanswered
    BY <1>6 DEF Describing, SettingUp, Playing
  <2>4. waiting => pc \in Describing \cup SettingUp \cup Playing
    BY DEF IInv, PhaseOK, Asking, Describing, SettingUp, Playing
  <2> QED
    BY <2>1, <2>2, <2>3, <2>4 DEF IInv, InFlight, Answer
<1>11. SetupsOK'
  <2>1. media = <<>> => accepted' = {}
    BY <1>3, <1>5 DEF IInv, SetupsOK
  <2>2. CASE ~torn
    <3>2. \A i : Set(i) => Set(i)'
      BY <1>3 DEF Set
    <3>3. pc \in {"setup", "setup_challenge"} => ~Accepted /\ replies = <<>>
      BY <1>6, <2>2, EmptySeq DEF Unanswered, Accepted
    <3>4. pc \in {"setup", "setup_challenge"} => Len(replies') = 1 /\ replies'[1] = e
      BY <1>3, <1>4, <3>3, OneMoreAnswer
    <3>5. pc \in Playing => accepted' = accepted
      BY <1>3, <1>6, <2>2 DEF SetupOf, Playing
    <3>6. pc = "setup" => asked[1].setup = track /\ track # 0
      BY <1>6, <2>2 DEF SetupOf, IInv, TypeOK
    <3>7. CASE pc = "setup"
      <4>1. waiting' /\ (Accepted' <=> e.status = "ok")
        BY <1>6, <2>2, <3>4, <3>7 DEF Accepted, Answer
      <4>2. Accepted' => <<track, FirstChannel(track), replies'[1].named>> \in accepted'
        BY <1>3, <3>4, <3>6, <3>7, <4>1
      <4>3. (\E a \in accepted' : a[3]) => session = conn \/ (Accepted' /\ replies'[1].named)
        <5>1. (\E a \in accepted : a[3]) => session = conn
          BY <2>2, <3>3, <3>7 DEF IInv, SetupsOK, SetsInOrder
        <5> QED
          BY <1>3, <3>4, <3>7, <4>1, <5>1
      <4> QED
        BY <2>1, <2>2, <3>2, <3>7, <4>2, <4>3 DEF Answer, IInv, SetupsOK, SetsInOrder, Playing
    <3>8. CASE pc = "setup_challenge"
      <4>1. accepted = {}
        BY <2>2, <3>3, <3>8 DEF IInv, SetupsOK, SetsInOrder
      <4>2. accepted' = {} \/ Accepted'
        BY <1>3, <1>6, <2>2, <3>4, <3>8, <4>1 DEF Accepted, Answer
      <4> QED
        BY <2>1, <3>8, <4>2 DEF Answer, SetupsOK, SetsInOrder, Playing
    <3>9. CASE pc \in Playing
      BY <2>1, <2>2, <3>2, <3>5, <3>9 DEF Answer, IInv, SetupsOK, SetsInOrder, Playing
    <3>10. CASE pc \notin {"setup", "setup_challenge"} \cup Playing
      BY <2>1, <3>10 DEF Answer, SetupsOK, SetsInOrder, Playing
    <3> QED
      BY <3>7, <3>8, <3>9, <3>10
  <2>3. CASE torn
    BY <2>1, <2>3 DEF Answer, SetupsOK
  <2> QED
    BY <2>2, <2>3
<1> QED
  BY <1>7, <1>8, <1>9, <1>10, <1>11 DEF IInv

\* The camera closes the connection.
LEMMA CloseStep == ASSUME IInv, CameraCloses PROVE IInv'
<1> USE DEF progress, camera
<1>1. TypeOK'
  <2>1. HandshakeTypes /\ WireTypes'
    BY TypeHalves, StillWire DEF IInv, CameraCloses
  <2>2. /\ pc' \in Labels /\ conn' \in 1 .. 3 /\ conn <= conn' /\ cseq' \in Nat
        /\ replies' \in Seq(Replies) /\ asked' \in Seq(Requests)
        /\ UNCHANGED <<session, challenge, media, track, offer>>
    BY <2>1 DEF CameraCloses, HandshakeTypes
  <2>3. waiting' \in BOOLEAN /\ retried' \in BOOLEAN /\ playing' \in BOOLEAN
        /\ torn' \in BOOLEAN
    <3>1. waiting \in BOOLEAN /\ retried \in BOOLEAN /\ playing \in BOOLEAN /\ torn \in BOOLEAN
      BY <2>1 DEF HandshakeTypes
    <3>2. waiting' = waiting /\ retried' = retried /\ playing' = playing /\ torn' = torn
      BY DEF CameraCloses
    <3> QED
      BY <3>1, <3>2, Zenon
  <2>5. open' \in BOOLEAN
    BY DEF CameraCloses
  <2>4. accepted' \subseteq {<<i, FirstChannel(i), b>> : i \in 1 .. MaxTracks, b \in BOOLEAN}
    BY <2>1 DEF CameraCloses, HandshakeTypes
  <2> QED
    BY <2>1, <2>2, <2>3, <2>4, <2>5, OtherTypes
<1>2. PhaseOK' /\ BudgetOK' /\ ChallengeOK'
  BY DEF IInv, CameraCloses, PhaseOK, BudgetOK, ChallengeOK, Asking
<1>3. InFlight'
  BY DEF IInv, CameraCloses, InFlight, Unanswered, Answered
<1>4. SetupsOK'
  BY DEF IInv, CameraCloses, SetupsOK, SetsInOrder, Accepted, Set
<1> QED
  BY <1>1, <1>2, <1>3, <1>4 DEF IInv

\* The reader comes to the end of the connection.
LEMMA ReaderEndsStep == ASSUME IInv, ReaderEnds PROVE IInv'
<1>1. ~waiting /\ (~torn => replies = <<>> /\ (open => asked = <<>>)) /\ (torn => conn = 1)
  BY DEF IInv, PhaseOK, Asking, InFlight, Playing, ReaderEnds
<1>2. Decided
  BY <1>1, TypeHalves, StillWire DEF Decided, ReaderEnds, IInv, HandshakeTypes, tcp
<1>3. Quiet
  BY <1>1 DEF Quiet, ReaderEnds, tcp
<1> QED
  BY <1>2, <1>3, AfterPlay DEF ReaderEnds

\* Text that is skipped may make a packet.
LEMMA SkipTextTypes == ASSUME WireTypes, SkipText PROVE WireTypes'
<1>1. CASE UNCHANGED stream
  BY <1>1 DEF WireTypes, stream
<1>2. ASSUME NEW channel \in 0 .. 3, NEW size \in 0 .. MaxSkip, size <= Len(wire), Skip(size),
             Return(0, channel), UNCHANGED frames
      PROVE  WireTypes'
  <2>1. size \in 0 .. Len(wire)
    BY <1>2, LenProperties, FramingAssumption DEF WireTypes
  <2>2. got' \in Seq(Packets)
    <3>1. \A kind \in Kinds : [frame |-> 0, kind |-> kind] \in Packets
      BY FramingAssumption DEF Packets
    <3>2. CASE channel \in {0, 2}
      <4>1. PICK kind \in Kinds : got' = Append(got, [frame |-> 0, kind |-> kind])
        BY <1>2, <3>2 DEF Return, Kinds
      <4> QED
        BY <3>1, <4>1, AppendProperties DEF WireTypes
    <3> QED
      BY <1>2, <3>2 DEF Return, WireTypes
  <2> QED
    BY <1>2, <2>1, <2>2, SkipTypes DEF WireTypes
<1> QED
  BY <1>1, <1>2 DEF SkipText

\* The reader skips an answer that was left.
LEMMA SkipAnswerStep == ASSUME IInv, SkipAnswer PROVE IInv'
<1> USE DEF tcp, progress, camera
<1>1. ~waiting /\ torn
  BY DEF IInv, PhaseOK, Asking, InFlight, Playing, SkipAnswer
<1>2. TypeOK'
  <2>1. HandshakeTypes /\ WireTypes'
    BY TypeHalves, SkipTextTypes DEF IInv, SkipAnswer
  <2>2. replies' \in Seq(Replies)
    BY <2>1, HeadTailProperties DEF SkipAnswer, HandshakeTypes
  <2>3. HandshakeTypes'
    BY <2>1, <2>2 DEF HandshakeTypes, SkipAnswer
  <2> QED
    BY <2>1, <2>3 DEF TypeOK, HandshakeTypes, WireTypes, Labels, Replies, FrameSet, Cells, Packets
<1>3. PhaseOK' /\ BudgetOK' /\ ChallengeOK'
  BY DEF IInv, SkipAnswer, PhaseOK, BudgetOK, ChallengeOK, Asking
<1>4. InFlight' /\ SetupsOK'
  BY <1>1 DEF IInv, SkipAnswer, InFlight, SetupsOK
<1> QED
  BY <1>2, <1>3, <1>4 DEF IInv

\* Every step keeps the invariant.
LEMMA NextInv == IInv /\ [Next]_vars => IInv'
<1> SUFFICES ASSUME IInv, [Next]_vars PROVE IInv'
  OBVIOUS
<1>1. CASE Send
  BY <1>1, SendStep
<1>2. CASE ReadAnswer
  BY <1>2, ReadAnswerStep
<1>3. CASE ReadGarbled
  BY <1>3, ReadGarbledStep
<1>4. CASE ReadsEnd \/ Timeout \/ TrackRefused \/ ReconnectFails
  BY <1>4, NoAnswerSteps
<1>5. CASE Reconnect
  BY <1>5, ReconnectStep
<1>6. CASE ReadPacket
  BY <1>6, TypeHalves, ReadTypes, StreamStep DEF IInv, ReadPacket
<1>7. CASE ReaderEnds
  BY <1>7, ReaderEndsStep
<1>8. CASE Answer
  BY <1>8, AnswerStep
<1>9. CASE CameraCloses
  BY <1>9, CloseStep
<1>10. CASE CameraStreams
  <2>1. PICK a \in accepted, rtcp \in 0 .. 1, size \in Sizes : Write(a[2] + rtcp, size)
    BY <1>10 DEF CameraStreams
  <2>2. PICK i \in 1 .. MaxTracks, b \in BOOLEAN : a = <<i, FirstChannel(i), b>>
    BY <2>1 DEF IInv, TypeOK
  <2>3. a[2] + rtcp \in 0 .. FirstChannel(MaxTracks) + 1
    BY <2>2, ClientAssumption DEF FirstChannel
  <2>4. WireTypes /\ UNCHANGED handshake
    BY <1>10, TypeHalves DEF IInv, CameraStreams
  <2> QED
    BY <2>1, <2>3, <2>4, WriteTypes, StreamStep
<1>11. CASE SkipAnswer
  BY <1>11, SkipAnswerStep
<1>12. CASE UNCHANGED vars
  BY <1>12, StillWire, StreamStep DEF vars
<1> QED
  BY <1>1, <1>2, <1>3, <1>4, <1>5, <1>6, <1>7, <1>8, <1>9, <1>10, <1>11, <1>12 DEF Next, Client, Reader
------------------------------------------------------------------------------
\* The invariant implies the properties.
LEMMA Implied == IInv => ChallengeOfConnection /\ AnswersMatch /\ PlaysWhatIsSet
<1> SUFFICES ASSUME IInv PROVE ChallengeOfConnection /\ AnswersMatch /\ PlaysWhatIsSet
  OBVIOUS
<1>1. ChallengeOfConnection
  BY DEF IInv, ChallengeOK, ChallengeOfConnection
<1>2. AnswersMatch
  <2> SUFFICES ASSUME waiting, replies # <<>>, Head(replies).status # "garbled"
               PROVE  Head(replies).to = cseq - 1 \/ (torn /\ conn = 1)
    BY DEF AnswersMatch
  <2>1. Head(replies) = replies[1]
    BY HeadTailProperties DEF IInv, TypeOK
  <2>2. torn => conn = 1
    BY DEF IInv, InFlight, PhaseOK, Asking
  <2> QED
    BY <2>1, <2>2 DEF IInv, InFlight, Unanswered, Answered
<1>3. PlaysWhatIsSet
  BY DEF IInv, PhaseOK, SetupsOK, SetsInOrder, Set, Playing, PlaysWhatIsSet
<1> QED
  BY <1>1, <1>2, <1>3

\* The invariant holds in every behaviour.
LEMMA Invariant == Spec => []IInv
BY InitInv, NextInv, PTL DEF Spec

\* Every variable keeps its type; a handshake opens three connections at most,
\* whatever the camera answers.
THEOREM TypeCorrect == Spec => []TypeOK
<1>1. IInv => TypeOK
  BY DEF IInv
<1> QED
  BY <1>1, Invariant, PTL

\* An authorization answers a challenge of the connection it is sent on.
THEOREM OwnChallenge == Spec => []ChallengeOfConnection
BY Implied, Invariant, PTL

\* The client takes the answer to one request for the answer to another at most on
\* its first connection, after an answer to DESCRIBE that could not be parsed.
THEOREM OwnAnswer == Spec => []AnswersMatch
BY Implied, Invariant, PTL

\* PLAY is sent only when every track has been set up on this connection, unless
\* the connection is torn.
THEOREM AllSetUp == Spec => []PlaysWhatIsSet
BY Implied, Invariant, PTL
------------------------------------------------------------------------------
(***************************************************************************)
(* The packets after PLAY.                                                 *)
(***************************************************************************)

Cell(k, a) == [frame |-> k, at |-> a]
Length(f) == Header + f.size

\* Behind cell j of w come the other cells of its frame, then the next frame.
Continues(w, fs, j) ==
    LET k == w[j].frame
        end == j + Length(fs[k]) - w[j].at
    IN
    /\ w[j].at \in 1 .. Length(fs[k])
    /\ end <= Len(w)
    /\ \A i \in j .. end : w[i] = Cell(k, w[j].at + (i - j))
    /\ IF k = Len(fs) THEN end = Len(w) ELSE end < Len(w) /\ w[end + 1] = Cell(k + 1, 1)

Starts(w, m) == \E i \in 1 .. Len(w) : w[i] = Cell(m, 1)

\* The cells w are what remains of the frames fs from some cell on.
Unbroken(w, fs) ==
    /\ \A j \in 1 .. Len(w) : Continues(w, fs, j)
    /\ \A i, j \in 1 .. Len(w) : i < j => w[i].frame <= w[j].frame
    /\ w # <<>> => \A m \in w[1].frame + 1 .. Len(fs) : Starts(w, m)

LEMMA CellFields == \A k, a : Cell(k, a).frame = k /\ Cell(k, a).at = a
BY DEF Cell

\* A frame has cells.
LEMMA LengthTypes == ASSUME NEW f \in FrameSet PROVE Length(f) \in Nat \ {0}
<1>1. PICK s \in Nat : s = f.size
  BY FramingAssumption DEF FrameSet
<1>2. Length(f) = 3 + s
  BY <1>1 DEF Length, Header
<1> QED
  BY <1>2

\* What remains when some cells are skipped.
LEMMA Rest ==
    ASSUME NEW S, NEW w \in Seq(S), NEW n \in 0 .. Len(w)
    PROVE  LET v == SubSeq(w, n + 1, Len(w)) IN
           /\ v \in Seq(S) /\ Len(v) = Len(w) - n
           /\ \A i \in 1 .. Len(v) : v[i] = w[n + i]
<1> DEFINE v == SubSeq(w, n + 1, Len(w))
<1>1. Len(w) \in Nat /\ n + 1 \in Int /\ Len(w) \in Int /\ \A i \in n + 1 .. Len(w) : w[i] \in S
  BY LenProperties, ElementOfSeq
<1>2. /\ v \in Seq(S)
      /\ Len(v) = IF n + 1 <= Len(w) THEN Len(w) - (n + 1) + 1 ELSE 0
      /\ \A i \in 1 .. Len(w) - (n + 1) + 1 : v[i] = w[n + 1 + i - 1]
  <2> HIDE DEF v
  <2> QED
    BY <1>1, SubSeqProperties DEF v
<1> HIDE DEF v
<1>3. Len(v) = Len(w) - n
  BY <1>1, <1>2
<1>4. \A i \in 1 .. Len(v) : v[i] = w[n + i]
  <2> SUFFICES ASSUME NEW i \in 1 .. Len(v) PROVE v[i] = w[n + i]
    OBVIOUS
  <2>1. i \in 1 .. Len(w) - (n + 1) + 1 /\ n + 1 + i - 1 = n + i
    BY <1>1, <1>3
  <2> QED
    BY <1>2, <2>1
<1> QED
  BY <1>2, <1>3, <1>4 DEF v

\* Skipping cells from the front breaks nothing.
LEMMA SkipUnbroken ==
    ASSUME NEW fs \in Seq(FrameSet), NEW w \in Seq(Cells(Len(fs))), Unbroken(w, fs),
           NEW n \in 0 .. Len(w)
    PROVE  Unbroken(SubSeq(w, n + 1, Len(w)), fs)
<1>1. PICK v : v = SubSeq(w, n + 1, Len(w))
  OBVIOUS
<1>2. /\ Len(w) \in Nat /\ Len(v) = Len(w) - n /\ v \in Seq(Cells(Len(fs)))
      /\ \A i \in 1 .. Len(v) : v[i] = w[n + i]
  BY <1>1, Rest, LenProperties
<1>3. \A i \in 1 .. Len(v) : n + i \in 1 .. Len(w)
  BY <1>2
<1>4. ASSUME NEW j \in 1 .. Len(v) PROVE Continues(v, fs, j)
  <2>1. PICK k, a, l, end : k = w[n + j].frame /\ a = w[n + j].at /\ l = Length(fs[k])
                            /\ end = n + j + l - a
    OBVIOUS
  <2>2. /\ a \in 1 .. l /\ end <= Len(w)
        /\ \A i \in n + j .. end : w[i] = Cell(k, a + (i - (n + j)))
        /\ IF k = Len(fs) THEN end = Len(w) ELSE end < Len(w) /\ w[end + 1] = Cell(k + 1, 1)
    BY <1>3, <2>1 DEF Unbroken, Continues
  <2>3. l \in Nat
    <3>1. w[n + j] \in Cells(Len(fs))
      BY <1>3, ElementOfSeq
    <3>2. k \in 1 .. Len(fs)
      BY <2>1, <3>1 DEF Cells
    <3> QED
      BY <2>1, <3>2, ElementOfSeq, LengthTypes
  <2>4. v[j] = w[n + j]
    BY <1>2
  <2>5. PICK e : e = j + l - a
    OBVIOUS
  <2>6. e + n = end /\ e <= Len(v) /\ e \in Int
    <3>1. a \in 1 .. l /\ end <= Len(w) /\ end = n + j + l - a
      BY <2>1, <2>2
    <3>2. j \in Int /\ n \in Int /\ Len(w) \in Int /\ Len(v) = Len(w) - n
      BY <1>2
    <3> QED
      BY <2>3, <2>5, <3>1, <3>2
  <2>7. \A i \in j .. e : v[i] = Cell(k, a + (i - j))
    <3> SUFFICES ASSUME NEW i \in j .. e PROVE v[i] = Cell(k, a + (i - j))
      OBVIOUS
    <3>1. n + i \in n + j .. end /\ i \in 1 .. Len(v) /\ (n + i) - (n + j) = i - j
      BY <2>6
    <3> QED
      BY <1>2, <2>2, <3>1
  <2>8. k = Len(fs) => e = Len(v)
    <3> SUFFICES ASSUME k = Len(fs) PROVE e = Len(v)
      OBVIOUS
    <3>1. end = Len(w)
      BY <2>2
    <3>2. Len(v) = Len(w) - n /\ Len(w) \in Nat
      BY <1>2
    <3> QED
      BY <2>6, <3>1, <3>2
  <2>9. k # Len(fs) => e < Len(v) /\ v[e + 1] = Cell(k + 1, 1)
    <3> SUFFICES ASSUME k # Len(fs) PROVE e < Len(v) /\ v[e + 1] = Cell(k + 1, 1)
      OBVIOUS
    <3>1. e + 1 >= 1
      <4>1. a \in 1 .. l /\ j \in 1 .. Len(v)
        BY <2>2
      <4> QED
        BY <1>2, <2>3, <2>5, <4>1
    <3>2. e < Len(v) /\ e + 1 \in 1 .. Len(v) /\ n + (e + 1) = end + 1
      BY <1>2, <2>2, <2>6, <3>1
    <3> QED
      BY <1>2, <2>2, <3>2
  <2> QED
    BY <2>1, <2>2, <2>4, <2>5, <2>6, <2>7, <2>8, <2>9 DEF Continues
<1>5. ASSUME NEW i \in 1 .. Len(v), NEW j \in 1 .. Len(v), i < j PROVE v[i].frame <= v[j].frame
  <2>1. n + i \in 1 .. Len(w) /\ n + j \in 1 .. Len(w)
    BY <1>3
  <2>2. n + i < n + j
    BY <1>5
  <2>3. w[n + i].frame <= w[n + j].frame
    BY <2>1, <2>2 DEF Unbroken
  <2>4. v[i] = w[n + i] /\ v[j] = w[n + j]
    BY <1>2
  <2> QED
    BY <2>3, <2>4
<1>6. ASSUME v # <<>>, NEW m \in v[1].frame + 1 .. Len(fs) PROVE Starts(v, m)
  <2>1. 1 \in 1 .. Len(v)
    BY <1>2, <1>6, EmptySeq
  <2>2. v[1] = w[n + 1] /\ n + 1 \in 1 .. Len(w)
    BY <1>2, <1>3, <2>1
  <2>3. \A i \in 1 .. Len(w) : w[i].frame \in Nat
    <3> SUFFICES ASSUME NEW i \in 1 .. Len(w) PROVE w[i].frame \in Nat
      OBVIOUS
    <3>1. w[i] \in Cells(Len(fs))
      BY ElementOfSeq
    <3> QED
      BY <3>1 DEF Cells
  <2>4. w # <<>> /\ 1 \in 1 .. Len(w)
    BY <2>2, EmptySeq
  <2>5. w[1].frame <= w[n + 1].frame
    <3>1. CASE n = 0
      BY <2>3, <2>4, <3>1
    <3>2. CASE n # 0
      <4>1. PICK p \in 1 .. Len(w) : p = n + 1
        BY <2>2
      <4>2. 1 < p
        BY <3>2, <4>1
      <4> QED
        BY <2>4, <4>1, <4>2 DEF Unbroken
    <3> QED
      BY <3>1, <3>2
  <2>6. m \in w[1].frame + 1 .. Len(fs)
    BY <2>2, <2>3, <2>4, <2>5, <1>6
  <2>7. PICK i \in 1 .. Len(w) : w[i] = Cell(m, 1)
    BY <2>4, <2>6 DEF Unbroken, Starts
  <2>8. i > n
    <3>1. w[i].frame = m /\ w[n + 1].frame < m
      BY <1>6, <2>2, <2>3, <2>7 DEF Cell
    <3>2. ~(i < n + 1)
      BY <2>2, <2>3, <3>1 DEF Unbroken
    <3> QED
      BY <3>2
  <2>9. i - n \in 1 .. Len(v) /\ n + (i - n) = i
    BY <1>2, <2>8
  <2>10. v[i - n] = Cell(m, 1)
    BY <1>2, <2>7, <2>9
  <2> QED
    BY <2>9, <2>10 DEF Starts
<1> QED
  BY <1>4, <1>5, <1>6, <1>1 DEF Unbroken

\* The cells of frame k.
IsFrame(c, k, f) == Len(c) = Length(f) /\ \A i \in 1 .. Len(c) : c[i] = Cell(k, i)

\* v is w with frame k behind it.
Grown(w, v, k) ==
    /\ \A m : Starts(w, m) => Starts(v, m)
    /\ Starts(v, k)
    /\ v # <<>> /\ v[1] = IF w = <<>> THEN Cell(k, 1) ELSE w[1]

\* A frame is written behind the cells of the others.
LEMMA WriteUnbroken ==
    ASSUME NEW fs \in Seq(FrameSet), NEW w \in Seq(Cells(Len(fs))), Unbroken(w, fs),
           NEW f \in FrameSet, NEW c \in Seq(Cells(Len(fs) + 1)), IsFrame(c, Len(fs) + 1, f)
    PROVE  Unbroken(w \o c, Append(fs, f)) /\ Grown(w, w \o c, Len(fs) + 1)
<1>1. PICK p, n, v, gs : p = Len(w) /\ n = Len(fs) /\ v = w \o c /\ gs = Append(fs, f)
  OBVIOUS
<1>2. p \in Nat /\ n \in Nat
  BY <1>1, LenProperties
<1>3. PICK l : l = Length(f) /\ l \in Nat \ {0}
  BY LengthTypes
<1>4. c \in Seq(Cells(n + 1)) /\ Len(c) = l /\ \A i \in 1 .. l : c[i] = Cell(n + 1, i)
  BY <1>1, <1>3 DEF IsFrame
<1>5. w \in Seq(Cells(n + 1))
  <2>1. Cells(n) \subseteq Cells(n + 1)
    BY <1>2 DEF Cells
  <2> QED
    BY <1>1, <2>1
<1>6. /\ Len(v) = p + l
      /\ \A i \in 1 .. p : v[i] = w[i]
      /\ \A i \in 1 .. l : v[p + i] = Cell(n + 1, i)
  <2>1. v = w \o c
    BY <1>1
  <2>2. Len(v) = p + l /\ \A i \in 1 .. p + l : v[i] = IF i <= p THEN w[i] ELSE c[i - p]
    <3>1. /\ Len(w \o c) = Len(w) + Len(c)
          /\ \A i \in 1 .. Len(w) + Len(c) : (w \o c)[i] = IF i <= Len(w) THEN w[i] ELSE c[i - Len(w)]
      BY <1>4, <1>5, ConcatProperties
    <3>2. Len(w) = p /\ Len(c) = l
      BY <1>1, <1>4
    <3> QED
      BY <2>1, <3>1, <3>2
  <2>3. \A i \in 1 .. p : i \in 1 .. p + l /\ i <= p
    BY <1>2, <1>3
  <2>4. \A i \in 1 .. l : p + i \in 1 .. p + l /\ ~(p + i <= p) /\ (p + i) - p = i
    BY <1>2, <1>3
  <2>5. \A i \in 1 .. p : v[i] = w[i]
    BY <2>2, <2>3
  <2>6. \A i \in 1 .. l : v[p + i] = c[i]
    BY <2>2, <2>4
  <2> QED
    BY <1>4, <2>2, <2>5, <2>6
<1>7. Len(gs) = n + 1 /\ (\A k \in 1 .. n : gs[k] = fs[k]) /\ gs[n + 1] = f
  BY <1>1, AppendProperties
<1>8. \A i \in 1 .. p : w[i].frame \in 1 .. n
  <2> SUFFICES ASSUME NEW i \in 1 .. p PROVE w[i].frame \in 1 .. n
    OBVIOUS
  <2>1. w[i] \in Cells(n)
    BY <1>1, ElementOfSeq
  <2> QED
    BY <2>1 DEF Cells
<1>9. ASSUME NEW j \in 1 .. p PROVE Continues(v, gs, j)
  <2>1. PICK k, a, end : k = w[j].frame /\ a = w[j].at /\ end = j + Length(fs[k]) - a
    OBVIOUS
  <2>2. /\ a \in 1 .. Length(fs[k]) /\ end <= p
        /\ \A i \in j .. end : w[i] = Cell(k, a + (i - j))
        /\ IF k = n THEN end = p ELSE end < p /\ w[end + 1] = Cell(k + 1, 1)
    BY <1>1, <2>1 DEF Unbroken, Continues
  <2>3. k \in 1 .. n /\ gs[k] = fs[k] /\ v[j] = w[j]
    BY <1>6, <1>7, <1>8, <2>1
  <2>4. end \in Int /\ end >= j
    <3>1. PICK l2 : l2 = Length(fs[k]) /\ l2 \in Nat
      BY <1>1, <2>3, ElementOfSeq, LengthTypes
    <3>2. a \in 1 .. l2 /\ end = j + l2 - a
      BY <2>1, <2>2, <3>1
    <3> QED
      BY <3>1, <3>2
  <2>5. \A i \in j .. end : v[i] = Cell(k, a + (i - j))
    <3>1. \A i \in j .. end : i \in 1 .. p
      BY <1>2, <2>2, <2>4
    <3> QED
      BY <1>6, <2>2, <3>1
  <2>6. k # n + 1 /\ end <= p + l /\ end < p + l
    <3>1. end <= p /\ k \in 1 .. n
      BY <2>2, <2>3
    <3> QED
      BY <1>2, <1>3, <2>4, <3>1
  <2>7. v[end + 1] = Cell(k + 1, 1)
    <3>1. CASE k = n
      <4>1. end + 1 = p + 1 /\ 1 \in 1 .. l
        BY <1>3, <2>2, <3>1
      <4> QED
        BY <1>6, <3>1, <4>1
    <3>2. CASE k # n
      <4>1. end + 1 \in 1 .. p
        BY <1>2, <2>2, <2>4, <3>2
      <4> QED
        BY <1>6, <2>2, <3>2, <4>1
    <3> QED
      BY <3>1, <3>2
  <2>8. k = v[j].frame /\ a = v[j].at /\ end = j + Length(gs[k]) - a
    BY <2>1, <2>3
  <2>9. a \in 1 .. Length(gs[k]) /\ end <= Len(v) /\ end < Len(v) /\ k # Len(gs)
    BY <1>6, <1>7, <2>2, <2>3, <2>6
  <2> QED
    BY <2>5, <2>7, <2>8, <2>9 DEF Continues
<1>10. ASSUME NEW j \in p + 1 .. p + l PROVE Continues(v, gs, j)
  <2>1. PICK a : a = j - p /\ a \in 1 .. l /\ j = p + a
    BY <1>2, <1>3
  <2>2. v[j] = Cell(n + 1, a)
    BY <1>6, <2>1
  <2>3. v[j].frame = n + 1 /\ v[j].at = a /\ Length(gs[n + 1]) = l
    <3>1. v[j].frame = n + 1 /\ v[j].at = a
      BY <2>2, CellFields
    <3>2. Length(gs[n + 1]) = l
      BY <1>3, <1>7
    <3> QED
      BY <3>1, <3>2
  <2>4. j + l - a = p + l
    BY <1>2, <1>3, <2>1
  <2>5. \A i \in j .. p + l : v[i] = Cell(n + 1, a + (i - j))
    <3> SUFFICES ASSUME NEW i \in j .. p + l PROVE v[i] = Cell(n + 1, a + (i - j))
      OBVIOUS
    <3>1. i - p \in 1 .. l /\ p + (i - p) = i /\ a + (i - j) = i - p
      BY <1>2, <1>3, <2>1
    <3> QED
      BY <1>6, <3>1
  <2>6. p + l <= Len(v)
    BY <1>2, <1>3, <1>6
  <2> QED
    BY <1>6, <1>7, <2>1, <2>3, <2>4, <2>5, <2>6 DEF Continues
<1>11. \A i \in p + 1 .. p + l : v[i].frame = n + 1
  <2> SUFFICES ASSUME NEW i \in p + 1 .. p + l PROVE v[i].frame = n + 1
    OBVIOUS
  <2>1. i - p \in 1 .. l /\ p + (i - p) = i
    BY <1>2, <1>3
  <2>2. v[i] = Cell(n + 1, i - p)
    BY <1>6, <2>1
  <2> QED
    BY <2>2, CellFields
<1>12. ASSUME NEW i \in 1 .. Len(v), NEW j \in 1 .. Len(v), i < j PROVE v[i].frame <= v[j].frame
  <2>1. CASE j \in 1 .. p
    BY <1>1, <1>6, <1>12, <2>1 DEF Unbroken
  <2>2. CASE j \in p + 1 .. p + l /\ i \in 1 .. p
    <3>1. PICK a : a = v[i].frame
      OBVIOUS
    <3>2. a \in 1 .. n
      BY <1>6, <1>8, <2>2, <3>1
    <3>3. v[j].frame = n + 1
      BY <1>11, <2>2
    <3>4. a <= n + 1
      BY <1>2, <3>2
    <3> QED
      BY <3>1, <3>3, <3>4
  <2>3. CASE j \in p + 1 .. p + l /\ i \in p + 1 .. p + l
    <3>1. v[i].frame = n + 1 /\ v[j].frame = n + 1
      BY <1>11, <2>3
    <3>2. n + 1 <= n + 1
      BY <1>2
    <3> QED
      BY <3>1, <3>2
  <2> QED
    BY <1>2, <1>3, <1>6, <1>12, <2>1, <2>2, <2>3
<1>13. ASSUME NEW m, Starts(w, m) PROVE Starts(v, m)
  <2>1. PICK i \in 1 .. p : w[i] = Cell(m, 1)
    BY <1>1, <1>13 DEF Starts
  <2>2. i \in 1 .. Len(v)
    BY <1>2, <1>3, <1>6
  <2> QED
    BY <1>6, <2>1, <2>2 DEF Starts
<1>14. Starts(v, n + 1)
  <2>1. p + 1 \in 1 .. Len(v) /\ 1 \in 1 .. l
    BY <1>2, <1>3, <1>6
  <2> QED
    BY <1>6, <2>1 DEF Starts
<1>15. ASSUME NEW m \in v[1].frame + 1 .. n + 1 PROVE Starts(v, m)
  <2>1. CASE m = n + 1
    BY <1>14, <2>1
  <2>2. CASE m # n + 1 /\ p # 0
    <3>1. 1 \in 1 .. p
      BY <1>2, <2>2
    <3>2. v[1] = w[1] /\ w[1].frame \in 1 .. n
      BY <1>6, <1>8, <3>1
    <3>3. PICK h : h = w[1].frame
      OBVIOUS
    <3>4. h \in 1 .. n /\ m \in h + 1 .. n + 1
      BY <3>2, <3>3, <1>15
    <3>5. m \in h + 1 .. n
      BY <1>2, <2>2, <3>4
    <3>6. w # <<>>
      BY <1>1, <2>2, EmptySeq
    <3> QED
      BY <1>1, <1>13, <3>5, <3>6, <3>3 DEF Unbroken
  <2>3. CASE m # n + 1 /\ p = 0
    <3>1. 1 \in 1 .. l /\ p + 1 = 1
      BY <1>3, <2>3
    <3>2. v[1].frame = n + 1
      <4>1. v[1] = Cell(n + 1, 1)
        BY <1>6, <3>1
      <4> QED
        BY <4>1, CellFields
    <3>3. PICK h : h = v[1].frame
      OBVIOUS
    <3>4. h = n + 1 /\ m \in h + 1 .. n + 1
      BY <3>2, <3>3, <1>15
    <3> QED
      BY <1>2, <3>4
  <2> QED
    BY <2>1, <2>2, <2>3
<1>16. \A j \in 1 .. Len(v) : Continues(v, gs, j)
  <2>1. \A j \in 1 .. Len(v) : j \in 1 .. p \/ j \in p + 1 .. p + l
    BY <1>2, <1>3, <1>6
  <2> QED
    BY <1>9, <1>10, <2>1
<1>17. v # <<>> /\ v[1] = IF w = <<>> THEN Cell(n + 1, 1) ELSE w[1]
  <2>1. CASE w = <<>>
    <3>1. p = 0 /\ 1 \in 1 .. l /\ p + 1 = 1
      BY <1>1, <1>3, <2>1, EmptySeq
    <3>2. v[1] = Cell(n + 1, 1)
      BY <1>6, <3>1
    <3> QED
      BY <1>3, <1>6, <2>1, <3>1, <3>2, EmptySeq
  <2>2. CASE w # <<>>
    <3>1. 1 \in 1 .. p
      BY <1>1, <1>2, <2>2, EmptySeq
    <3> QED
      BY <1>2, <1>3, <1>6, <2>2, <3>1, EmptySeq
  <2> QED
    BY <2>1, <2>2
<1>18. Unbroken(v, gs)
  BY <1>7, <1>12, <1>15, <1>16 DEF Unbroken
<1>19. Grown(w, v, n + 1)
  BY <1>13, <1>14, <1>17 DEF Grown
<1> QED
  BY <1>1, <1>18, <1>19

\* The first frame is there as a whole: it is taken, and the next one is in front.
LEMMA TakeUnbroken ==
    ASSUME NEW fs \in Seq(FrameSet), NEW w \in Seq(Cells(Len(fs))), Unbroken(w, fs),
           w # <<>>, w[1].at = 1
    PROVE  LET k == w[1].frame
               n == Length(fs[k])
               v == SubSeq(w, n + 1, Len(w))
           IN
           /\ n \in 1 .. Len(w)
           /\ v = <<>> \/ v[1] = Cell(k + 1, 1)
           /\ \A m : Starts(w, m) => m = k \/ Starts(v, m)
<1>1. PICK k, n, v : k = w[1].frame /\ n = Length(fs[k]) /\ v = SubSeq(w, n + 1, Len(w))
  OBVIOUS
<1>2. Len(w) \in Nat /\ 1 \in 1 .. Len(w)
  BY LenProperties, EmptySeq
<1>3. k \in 1 .. Len(fs)
  <2>1. w[1] \in Cells(Len(fs))
    BY <1>2, ElementOfSeq
  <2> QED
    BY <1>1, <2>1 DEF Cells
<1>4. n \in Nat \ {0}
  BY <1>3, <1>1, ElementOfSeq, LengthTypes
<1>5. 1 + n - 1 = n
  BY <1>4
<1>6. /\ n <= Len(w)
      /\ \A i \in 1 .. n : w[i] = Cell(k, 1 + (i - 1))
      /\ IF k = Len(fs) THEN n = Len(w) ELSE n < Len(w) /\ w[n + 1] = Cell(k + 1, 1)
  <2>1. Continues(w, fs, 1)
    BY <1>2 DEF Unbroken
  <2> QED
    BY <1>5, <1>1, <2>1 DEF Continues
<1>7. n \in 0 .. Len(w)
  BY <1>4, <1>6
<1>8. Len(v) = Len(w) - n /\ \A i \in 1 .. Len(v) : v[i] = w[n + i]
  <2>1. LET u == SubSeq(w, n + 1, Len(w)) IN Len(u) = Len(w) - n /\ \A i \in 1 .. Len(u) : u[i] = w[n + i]
    BY <1>7, Rest
  <2> QED
    BY <1>1, <2>1
<1>9. v = <<>> \/ v[1] = Cell(k + 1, 1)
  <2>1. CASE k = Len(fs)
    <3>1. Len(v) = 0 /\ v \in Seq(Cells(Len(fs)))
      BY <1>4, <1>6, <1>7, <1>8, <1>1, <2>1, Rest
    <3> QED
      BY <3>1, EmptySeq
  <2>2. CASE k # Len(fs)
    <3>1. 1 \in 1 .. Len(v)
      BY <1>2, <1>4, <1>6, <1>8, <2>2
    <3> QED
      BY <1>6, <1>8, <2>2, <3>1
  <2> QED
    BY <2>1, <2>2
<1>10. ASSUME NEW m, Starts(w, m), m # k PROVE Starts(v, m)
  <2>1. PICK i \in 1 .. Len(w) : w[i] = Cell(m, 1)
    BY <1>10 DEF Starts
  <2>2. i \notin 1 .. n
    <3> SUFFICES ASSUME i \in 1 .. n PROVE m = k
      BY <1>10
    <3>1. Cell(m, 1) = Cell(k, 1 + (i - 1))
      BY <1>6, <2>1
    <3> QED
      BY <3>1, CellFields
  <2>3. i - n \in 1 .. Len(v) /\ n + (i - n) = i
    BY <1>2, <1>4, <1>8, <2>2
  <2>4. v[i - n] = Cell(m, 1)
    BY <1>8, <2>1, <2>3
  <2> QED
    BY <2>3, <2>4 DEF Starts
<1>11. n \in 1 .. Len(w)
  BY <1>2, <1>4, <1>6
<1> QED
  BY <1>9, <1>10, <1>11, <1>1
------------------------------------------------------------------------------
\* A packet the reader returns lets no cell of its frame remain.
Behind == \A i \in 1 .. Len(got) :
              got[i].frame # 0 => wire = <<>> \/ (wire[1].at = 1 /\ got[i].frame < wire[1].frame)

\* Every frame is on a channel of a track.
Channels == \A k \in 1 .. Len(frames) :
                \E i \in 1 .. Len(offer), rtcp \in 0 .. 1 : frames[k].channel = FirstChannel(i) + rtcp

StreamInv == Unbroken(wire, frames) /\ Behind /\ Channels /\ StaysInSync

\* SETUP is sent, and accepted, for tracks of the SDP.
SetupsOffered ==
    /\ \A k \in 1 .. Len(asked) : asked[k].setup <= Len(offer)
    /\ \A a \in accepted : a[1] \in 1 .. Len(offer)

\* Nothing is read from the stream before PLAY is answered.
NotYet == pc \notin {"connected", "ended"} => got = <<>>

\* PLAY has been sent.
PlaySent == (pc = "play" /\ waiting) \/ pc \in {"connected", "ended", "failed"}

\* PLAY is the last request, its answer the last answer, and packets come after it.
TextFirst ==
    /\ ~PlaySent => ~playing /\ \A k \in 1 .. Len(asked) : ~asked[k].play
    /\ \A k \in 1 .. Len(asked) : asked[k].play => k = Len(asked)
    /\ playing => asked = <<>>
    /\ playing \/ frames = <<>>
    /\ ~playing \/ replies # <<>> => \A i \in 1 .. Len(got) : got[i].frame = 0

SInv == StreamInv /\ SetupsOffered /\ NotYet /\ TextFirst

LEMMA InitSync == Init => SInv
<1> SUFFICES ASSUME Init PROVE SInv
  OBVIOUS
<1>1. wire = <<>> /\ frames = <<>> /\ got = <<>> /\ asked = <<>> /\ accepted = {}
  BY DEF Init, StreamInit
<1>2. Unbroken(wire, frames)
  BY <1>1 DEF Unbroken
<1>3. Behind /\ Channels /\ StaysInSync
  BY <1>1 DEF Behind, Channels, StaysInSync
<1>4. TextFirst
  BY <1>1 DEF Init, TextFirst
<1> QED
  BY <1>1, <1>2, <1>3, <1>4 DEF SInv, StreamInv, SetupsOffered, NotYet

\* Nothing happens to the stream.
LEMMA StillSync == ASSUME StreamInv, UNCHANGED <<frames, wire, got, offer>> PROVE StreamInv'
<1>1. Unbroken(wire', frames')
  BY DEF StreamInv
<1>2. Behind' /\ Channels'
  BY DEF StreamInv, Behind, Channels
<1>3. StaysInSync'
  BY DEF StreamInv, StaysInSync, Media, Listed, InWire
<1> QED
  BY <1>1, <1>2, <1>3 DEF StreamInv

\* The frames that are for the pipeline.
LEMMA MediaFrames ==
    ASSUME WireTypes
    PROVE  Media = {k \in 1 .. Len(frames) : frames[k].channel \in {0, 2}}
<1>1. FirstChannel(1) = 0 /\ FirstChannel(2) = 2
  BY DEF FirstChannel
<1>2. DOMAIN frames = 1 .. Len(frames)
  BY LenProperties DEF WireTypes
<1> QED
  BY <1>1, <1>2 DEF Media

LEMMA FramesInWire == ASSUME WireTypes, NEW m PROVE InWire(m) <=> Starts(wire, m)
<1>1. DOMAIN wire = 1 .. Len(wire)
  BY LenProperties DEF WireTypes
<1> QED
  BY <1>1 DEF InWire, Starts, Cell

\* Cells are lost while the reader has met no frame.
LEMMA SkipSync ==
    ASSUME WireTypes, WireTypes', StreamInv, NEW n \in 0 .. Len(wire), Skip(n),
           UNCHANGED <<frames, offer>>, \A i \in 1 .. Len(got') : got'[i].frame = 0
    PROVE  StreamInv'
<1>1. Unbroken(wire', frames')
  BY SkipUnbroken DEF StreamInv, Skip, WireTypes
<1>2. Behind' /\ Channels'
  BY DEF StreamInv, Behind, Channels
<1>3. StaysInSync'
  <2>1. DOMAIN got' = 1 .. Len(got')
    BY LenProperties DEF WireTypes
  <2> QED
    BY <2>1 DEF StaysInSync
<1> QED
  BY <1>1, <1>2, <1>3 DEF StreamInv

\* What passes for a frame is returned as frame 0.
LEMMA FalseReturn ==
    ASSUME WireTypes, \A i \in 1 .. Len(got) : got[i].frame = 0, NEW channel, Return(0, channel)
    PROVE  \A i \in 1 .. Len(got') : got'[i].frame = 0
<1>1. CASE channel \in {0, 2}
  <2>1. PICK kind \in Kinds : got' = Append(got, [frame |-> 0, kind |-> kind])
    BY <1>1 DEF Return, Kinds
  <2>2. PICK e : e = [frame |-> 0, kind |-> kind]
    OBVIOUS
  <2>3. e \in Packets /\ e.frame = 0
    BY <2>2, FramingAssumption DEF Packets
  <2>4. /\ Len(got') = Len(got) + 1 /\ Len(got) \in Nat /\ got'[Len(got) + 1] = e
        /\ \A i \in 1 .. Len(got) : got'[i] = got[i]
    BY <2>1, <2>2, <2>3, AppendProperties, LenProperties DEF WireTypes
  <2>5. \A i \in 1 .. Len(got) + 1 : i \in 1 .. Len(got) \/ i = Len(got) + 1
    BY <2>4
  <2> QED
    BY <2>3, <2>4, <2>5
<1>2. CASE channel \notin {0, 2}
  BY <1>2 DEF Return
<1> QED
  BY <1>1, <1>2

\* Where the reader looks for a `$' it has met no frame, and takes none.
LEMMA MissSync ==
    ASSUME WireTypes, WireTypes', StreamInv, Resync \/ ReadFalseFrame, UNCHANGED offer
    PROVE  StreamInv'
<1>1. wire # <<>> /\ Len(wire) \in Nat \ {0} /\ Head(wire) = wire[1]
  BY EmptySeq DEF Resync, ReadFalseFrame, WireTypes
<1>2. wire[1].at # 1
  <2>1. CASE Resync
    BY <1>1, <2>1 DEF Resync
  <2>2. CASE ReadFalseFrame
    <3>1. wire[1] \in Cells(Len(frames))
      BY <1>1, ElementOfSeq DEF WireTypes
    <3>2. wire[1].at >= 3
      BY <1>1, <2>2 DEF ReadFalseFrame, Header
    <3> QED
      BY <3>2
  <2> QED
    BY <2>1, <2>2
<1>3. \A i \in 1 .. Len(got) : got[i].frame = 0
  BY <1>1, <1>2 DEF StreamInv, Behind
<1>4. CASE Resync
  <2>1. 1 \in 0 .. Len(wire) /\ Skip(1) /\ UNCHANGED <<frames, got>>
    BY <1>1, <1>4 DEF Resync
  <2> QED
    BY <1>3, <2>1, SkipSync
<1>5. CASE ReadFalseFrame
  <2>1. PICK channel \in 0 .. 3, size \in 0 .. MaxSkip : Take(0, channel, size)
    BY <1>5 DEF ReadFalseFrame
  <2>2. Header + size \in 0 .. Len(wire)
    BY <1>1, <2>1, FramingAssumption DEF Take, Header
  <2>3. \A i \in 1 .. Len(got') : got'[i].frame = 0
    BY <1>3, <2>1, FalseReturn DEF Take
  <2>4. Skip(Header + size) /\ UNCHANGED frames
    BY <2>1 DEF Take
  <2> QED
    BY <2>2, <2>3, <2>4, SkipSync
<1> QED
  BY <1>4, <1>5

\* Text is skipped before a frame has been met.
LEMMA TextSync ==
    ASSUME WireTypes, WireTypes', StreamInv, SkipText, UNCHANGED offer,
           \A i \in 1 .. Len(got) : got[i].frame = 0
    PROVE  StreamInv' /\ \A i \in 1 .. Len(got') : got'[i].frame = 0
<1>1. CASE UNCHANGED stream
  BY <1>1, StillSync DEF stream
<1>2. ASSUME NEW channel \in 0 .. 3, NEW size \in 0 .. MaxSkip, size <= Len(wire), Skip(size),
             Return(0, channel), UNCHANGED frames
      PROVE  StreamInv' /\ \A i \in 1 .. Len(got') : got'[i].frame = 0
  <2>1. size \in 0 .. Len(wire)
    BY <1>2, LenProperties, FramingAssumption DEF WireTypes
  <2>2. \A i \in 1 .. Len(got') : got'[i].frame = 0
    BY <1>2, FalseReturn
  <2> QED
    BY <1>2, <2>1, <2>2, SkipSync
<1> QED
  BY <1>1, <1>2 DEF SkipText

\* The camera writes a frame on a channel of a track.
LEMMA WriteSync ==
    ASSUME WireTypes, WireTypes', StreamInv, NEW i \in 1 .. Len(offer), NEW rtcp \in 0 .. 1,
           Len(offer) <= MaxTracks,
           NEW size \in Sizes, Write(FirstChannel(i) + rtcp, size), UNCHANGED offer
    PROVE  StreamInv'
<1>1. PICK f : f = [channel |-> FirstChannel(i) + rtcp, size |-> size]
  OBVIOUS
<1>2. f \in FrameSet
  <2>1. FirstChannel(i) + rtcp \in 0 .. FirstChannel(MaxTracks) + 1
    BY ClientAssumption DEF FirstChannel
  <2> QED
    BY <1>1, <2>1 DEF FrameSet
<1>3. frames' = Append(frames, f) /\ got' = got
  BY <1>1 DEF Write
<1>4. PICK c \in Seq(Cells(Len(frames) + 1)) : IsFrame(c, Len(frames) + 1, f) /\ wire' = wire \o c
  <2>1. PICK c : c = [j \in 1 .. Length(f) |-> Cell(Len(frames) + 1, j)]
    OBVIOUS
  <2>2. wire' = wire \o c
    BY <1>1, <2>1 DEF Write, Length, Cell
  <2>3. Length(f) \in Nat /\ Len(frames) \in Nat
    BY <1>2, LengthTypes, LenProperties DEF WireTypes
  <2>4. \A j \in 1 .. Length(f) : Cell(Len(frames) + 1, j) \in Cells(Len(frames) + 1)
    BY <2>3 DEF Cell, Cells
  <2>5. c \in Seq(Cells(Len(frames) + 1)) /\ IsFrame(c, Len(frames) + 1, f)
    BY <2>1, <2>3, <2>4 DEF IsFrame
  <2> QED
    BY <2>2, <2>5
<1>5. PICK n \in Nat : n = Len(frames)
  BY LenProperties DEF WireTypes
<1>6. /\ Unbroken(wire', frames')
      /\ \A m : Starts(wire, m) => Starts(wire', m)
      /\ Starts(wire', n + 1)
      /\ wire' # <<>> /\ wire'[1] = IF wire = <<>> THEN Cell(n + 1, 1) ELSE wire[1]
  <2>1. frames \in Seq(FrameSet) /\ wire \in Seq(Cells(Len(frames))) /\ Unbroken(wire, frames)
    BY DEF StreamInv, WireTypes
  <2>2. Unbroken(wire \o c, Append(frames, f)) /\ Grown(wire, wire \o c, Len(frames) + 1)
    BY <1>2, <1>4, <2>1, WriteUnbroken
  <2>3. Unbroken(wire', frames') /\ Grown(wire, wire', n + 1)
    BY <1>3, <1>4, <1>5, <2>2
  <2> QED
    BY <2>3 DEF Grown
<1>7. Len(frames') = n + 1 /\ (\A k \in 1 .. n : frames'[k] = frames[k]) /\ frames'[n + 1] = f
  BY <1>2, <1>3, <1>5, AppendProperties DEF WireTypes
<1>8. \A k \in 1 .. n + 1 : k \in 1 .. n \/ k = n + 1
  OBVIOUS
<1>9. Channels'
  <2>1. \A k \in 1 .. n : \E j \in 1 .. Len(offer), r \in 0 .. 1 :
                            frames'[k].channel = FirstChannel(j) + r
    BY <1>5, <1>7 DEF Channels, StreamInv
  <2>2. frames'[n + 1].channel = FirstChannel(i) + rtcp
    BY <1>1, <1>7
  <2> QED
    BY <1>7, <1>8, <2>1, <2>2 DEF Channels
<1>10. \A k \in Media : k \in 1 .. n /\ k \in 1 .. n + 1 /\ k \in Media'
  <2> SUFFICES ASSUME NEW k \in Media PROVE k \in 1 .. n /\ k \in 1 .. n + 1 /\ k \in Media'
    OBVIOUS
  <2>1. k \in 1 .. n /\ frames[k].channel \in {0, 2}
    BY <1>5, MediaFrames
  <2>2. k \in 1 .. n + 1 /\ frames'[k] = frames[k]
    BY <1>7, <2>1
  <2> QED
    BY <1>7, <2>1, <2>2, MediaFrames DEF Media, FirstChannel
<1>11. \A m \in Media' : m \in Media \/ m = n + 1
  <2> SUFFICES ASSUME NEW m \in Media', m # n + 1 PROVE m \in Media
    OBVIOUS
  <2>1. DOMAIN frames' = 1 .. n + 1 /\ DOMAIN frames = 1 .. n
    BY <1>5, <1>7, LenProperties DEF WireTypes
  <2>2. m \in 1 .. n
    BY <1>8, <2>1 DEF Media
  <2> QED
    BY <1>7, <2>1, <2>2 DEF Media
<1>12. DOMAIN got = 1 .. Len(got)
  BY LenProperties DEF WireTypes
<1>13. Behind'
  <2> SUFFICES ASSUME NEW j \in 1 .. Len(got), got[j].frame # 0
               PROVE  wire'[1].at = 1 /\ got[j].frame < wire'[1].frame
    BY <1>3 DEF Behind
  <2>1. CASE wire = <<>>
    <3>1. got[j].frame \in 1 .. n
      BY <1>10, <1>12 DEF StreamInv, StaysInSync
    <3>2. got[j].frame < n + 1
      BY <3>1
    <3> QED
      BY <1>6, <2>1, <3>2, CellFields
  <2>2. CASE wire # <<>>
    BY <1>6, <2>2 DEF StreamInv, Behind
  <2> QED
    BY <2>1, <2>2
<1>14. StaysInSync'
  <2>1. Listed' <=> Listed
    BY DEF Listed
  <2>2. \A m : InWire(m)' <=> Starts(wire', m)
    <3>1. DOMAIN wire' = 1 .. Len(wire')
      BY LenProperties DEF WireTypes
    <3> QED
      BY <3>1 DEF InWire, Starts, Cell
  <2>3. \A m : InWire(m) => InWire(m)'
    BY <1>6, <2>2, FramesInWire
  <2>4. InWire(n + 1)'
    BY <1>6, <2>2
  <2> SUFFICES ASSUME NEW j \in DOMAIN got, NEW k, k = got[j].frame, k # 0
               PROVE  /\ k \in Media'
                      /\ \A h \in j + 1 .. Len(got) : got[h].frame > k
                      /\ Listed' => got[j].kind = offer[frames'[k].channel \div 2 + 1]
                      /\ \A m \in Media' : m > k => InWire(m)' \/ m \in {got[h].frame : h \in DOMAIN got}
    BY <1>3 DEF StaysInSync
  <2>5. /\ k \in Media
        /\ \A h \in j + 1 .. Len(got) : got[h].frame > k
        /\ Listed => got[j].kind = offer[frames[k].channel \div 2 + 1]
        /\ \A m \in Media : m > k => InWire(m) \/ m \in {got[h].frame : h \in DOMAIN got}
    BY DEF StreamInv, StaysInSync
  <2>6. frames'[k] = frames[k]
    BY <1>7, <1>10, <2>5
  <2> QED
    BY <1>10, <1>11, <2>1, <2>3, <2>4, <2>5, <2>6
<1> QED
  BY <1>6, <1>9, <1>13, <1>14 DEF StreamInv

\* The reader takes the frame that is in front.
LEMMA TakeSync ==
    ASSUME WireTypes, WireTypes', StreamInv, offer \in Offers, ReadFrame, UNCHANGED offer
    PROVE  StreamInv'
<1>1. PICK k, n, f : k = wire[1].frame /\ f = frames[k] /\ n = Length(f)
  OBVIOUS
<1>2. wire # <<>> /\ wire[1].at = 1 /\ Take(k, f.channel, f.size)
  <2>1. Head(wire) = wire[1]
    BY HeadTailProperties DEF WireTypes, ReadFrame, AtFrame
  <2> QED
    BY <1>1, <2>1 DEF ReadFrame, AtFrame
<1>3. frames' = frames /\ wire' = SubSeq(wire, n + 1, Len(wire)) /\ Return(k, f.channel)
  BY <1>1, <1>2 DEF Take, Skip, Length
<1>4. /\ n \in 1 .. Len(wire)
      /\ wire' = <<>> \/ wire'[1] = Cell(k + 1, 1)
      /\ \A m : Starts(wire, m) => m = k \/ Starts(wire', m)
  BY <1>1, <1>2, <1>3, TakeUnbroken DEF StreamInv, WireTypes
<1>5. Unbroken(wire', frames')
  BY <1>3, <1>4, SkipUnbroken DEF StreamInv, WireTypes
<1>6. Channels'
  BY <1>3 DEF StreamInv, Channels
<1>7. Len(frames) \in Nat /\ k \in 1 .. Len(frames) /\ k \in Nat /\ k # 0
  <2>1. 1 \in 1 .. Len(wire)
    BY <1>4, LenProperties DEF WireTypes
  <2>2. wire[1] \in Cells(Len(frames))
    BY <2>1, ElementOfSeq DEF WireTypes
  <2> QED
    BY <1>1, <2>2, LenProperties DEF Cells, WireTypes
<1>8. k \in Media <=> f.channel \in {0, 2}
  BY <1>1, <1>7, MediaFrames
<1>9. Media' = Media /\ (Listed' <=> Listed)
  BY <1>3 DEF Media, Listed
<1>10. ASSUME NEW m \in Media, m # k, InWire(m) PROVE InWire(m)'
  <2>1. Starts(wire', m)
    BY <1>4, <1>10, FramesInWire
  <2>2. DOMAIN wire' = 1 .. Len(wire')
    BY LenProperties DEF WireTypes
  <2> QED
    BY <2>1, <2>2 DEF InWire, Starts, Cell
<1>11. PICK q \in Nat : q = Len(got)
  BY LenProperties DEF WireTypes
<1>12. DOMAIN got = 1 .. q /\ \A i \in 1 .. q : got[i].frame # 0 => got[i].frame < k
  BY <1>1, <1>2, <1>11, LenProperties DEF StreamInv, Behind, WireTypes
<1>13. \A m \in Media : m > k => InWire(m)
  <2> SUFFICES ASSUME NEW m \in Media, m > k PROVE InWire(m)
    OBVIOUS
  <2>1. m \in k + 1 .. Len(frames)
    BY <1>7, MediaFrames
  <2> QED
    BY <1>1, <1>2, <2>1, FramesInWire DEF StreamInv, Unbroken
<1>14. \A m \in Media, i \in 1 .. q :
           got[i].frame # 0 /\ m > got[i].frame => InWire(m) \/ m \in {got[j].frame : j \in 1 .. q}
  BY <1>12 DEF StreamInv, StaysInSync
<1>15. CASE f.channel \notin {0, 2}
  <2>1. got' = got
    BY <1>3, <1>15 DEF Return
  <2>2. Behind'
    <3>1. wire' # <<>> => wire'[1].at = 1 /\ wire'[1].frame = k + 1
      BY <1>4, CellFields
    <3>2. \A i \in 1 .. q : got[i].frame # 0 => got[i].frame < k + 1
      <4>1. \A i \in 1 .. q : got[i].frame \in Nat
        <5> SUFFICES ASSUME NEW i \in 1 .. q PROVE got[i].frame \in Nat
          OBVIOUS
        <5>1. got[i] \in Packets
          BY <1>11, ElementOfSeq DEF WireTypes
        <5> QED
          BY <5>1, FramingAssumption DEF Packets
      <4> QED
        BY <1>7, <1>12, <4>1
    <3> QED
      BY <1>11, <2>1, <3>1, <3>2 DEF Behind
  <2>3. \A m \in Media : m # k
    BY <1>8, <1>15
  <2>4. StaysInSync'
    BY <1>3, <1>9, <1>10, <2>1, <2>3 DEF StreamInv, StaysInSync
  <2> QED
    BY <1>5, <1>6, <2>2, <2>4 DEF StreamInv
<1>16. CASE f.channel \in {0, 2}
  <2>1. PICK kind \in Kinds :
            /\ got' = Append(got, [frame |-> k, kind |-> kind])
            /\ kind = IF f.channel = 0 THEN "video" ELSE "audio"
    BY <1>3, <1>16 DEF Return, Kinds
  <2>2. PICK e : e = [frame |-> k, kind |-> kind]
    OBVIOUS
  <2>3. e \in Packets
    <3>1. Len(frames) <= MaxFrames
      BY DEF WireTypes
    <3>2. k \in 0 .. MaxFrames
      BY <1>7, <3>1, FramingAssumption
    <3> QED
      BY <2>2, <3>2 DEF Packets
  <2>4. Len(got') = q + 1 /\ (\A i \in 1 .. q : got'[i] = got[i]) /\ got'[q + 1] = e
    BY <1>11, <2>1, <2>2, <2>3, AppendProperties DEF WireTypes
  <2>5. DOMAIN got' = 1 .. q + 1
    BY <2>4, LenProperties DEF WireTypes
  <2>6. \A i \in 1 .. q + 1 : i \in 1 .. q \/ i = q + 1
    OBVIOUS
  <2>7. \A i \in 1 .. q : got[i].frame \in Nat
    <3> SUFFICES ASSUME NEW i \in 1 .. q PROVE got[i].frame \in Nat
      OBVIOUS
    <3>1. got[i] \in Packets
      BY <1>11, ElementOfSeq DEF WireTypes
    <3> QED
      BY <3>1, FramingAssumption DEF Packets
  <2>8. e.frame = k /\ e.kind = kind
    BY <2>2
  <2>9. Behind'
    <3>1. wire' # <<>> => wire'[1].at = 1 /\ wire'[1].frame = k + 1
      BY <1>4, CellFields
    <3>2. \A i \in 1 .. q : got[i].frame # 0 => got[i].frame < k + 1
      BY <1>7, <1>12, <2>7
    <3>3. k < k + 1
      BY <1>7
    <3>4. \A i \in 1 .. q + 1 : got'[i].frame # 0 => got'[i].frame < k + 1
      BY <2>4, <2>6, <2>8, <3>2, <3>3
    <3> QED
      BY <2>4, <3>1, <3>4 DEF Behind
  <2>10. Listed => kind = offer[f.channel \div 2 + 1]
    <3> SUFFICES ASSUME Listed PROVE kind = offer[f.channel \div 2 + 1]
      OBVIOUS
    <3>1. PICK i \in 1 .. Len(offer), rtcp \in 0 .. 1 : f.channel = FirstChannel(i) + rtcp
      BY <1>1, <1>7 DEF StreamInv, Channels
    <3>2. DOMAIN offer = 1 .. Len(offer) /\ Len(offer) \in Nat
      <4>1. PICK n0 \in 0 .. MaxTracks : offer \in [1 .. n0 -> Kinds]
        BY DEF Offers
      <4> QED
        BY <4>1, OfferTypes, ClientAssumption
    <3>3. i \in Nat /\ f.channel = 2 * (i - 1) + rtcp
      BY <3>1, <3>2 DEF FirstChannel
    <3>4. CASE f.channel = 0
      <4>1. i = 1 /\ 0 \div 2 + 1 = 1
        BY <3>1, <3>3, <3>4
      <4>2. offer[1] = "video"
        BY <3>1, <3>2, <4>1 DEF Listed
      <4> QED
        BY <2>1, <3>4, <4>1, <4>2
    <3>5. CASE f.channel = 2
      <4>1. i = 2 /\ 2 \div 2 + 1 = 2
        BY <3>1, <3>3, <3>5
      <4>2. offer[2] = "audio"
        BY <3>1, <3>2, <4>1 DEF Listed
      <4> QED
        BY <2>1, <3>5, <4>1, <4>2
    <3> QED
      BY <1>16, <3>4, <3>5
  <2>11. k \in Media /\ k \in {got'[j].frame : j \in 1 .. q + 1}
    <3>1. q + 1 \in 1 .. q + 1
      OBVIOUS
    <3> QED
      BY <1>8, <1>16, <2>4, <2>8, <3>1
  <2>12. \A m \in Media : InWire(m) => InWire(m)' \/ m \in {got'[j].frame : j \in 1 .. q + 1}
    BY <1>10, <2>11
  <2>13. {got[j].frame : j \in 1 .. q} \subseteq {got'[j].frame : j \in 1 .. q + 1}
    <3>1. \A j \in 1 .. q : j \in 1 .. q + 1
      OBVIOUS
    <3> QED
      BY <2>4, <3>1
  <2>14. ASSUME NEW i \in 1 .. q, got[i].frame # 0
         PROVE  /\ got[i].frame \in Media
                /\ \A j \in i + 1 .. q + 1 : got'[j].frame > got[i].frame
                /\ Listed => got[i].kind = offer[frames[got[i].frame].channel \div 2 + 1]
    <3>1. /\ got[i].frame \in Media
          /\ \A j \in i + 1 .. q : got[j].frame > got[i].frame
          /\ Listed => got[i].kind = offer[frames[got[i].frame].channel \div 2 + 1]
      BY <1>11, <1>12, <2>14 DEF StreamInv, StaysInSync
    <3>2. ASSUME NEW j \in i + 1 .. q + 1 PROVE got'[j].frame > got[i].frame
      <4>1. CASE j = q + 1
        <5>1. got[i].frame < k /\ got[i].frame \in Nat
          BY <1>12, <2>7, <2>14
        <5>2. k > got[i].frame
          BY <1>7, <5>1
        <5> QED
          BY <2>4, <2>8, <4>1, <5>2
      <4>2. CASE j # q + 1
        <5>1. j \in 1 .. q /\ j \in i + 1 .. q
          BY <4>2
        <5> QED
          BY <2>4, <3>1, <5>1
      <4> QED
        BY <4>1, <4>2
    <3> QED
      BY <3>1, <3>2
  <2>15. ASSUME NEW i \in 1 .. q + 1, NEW h, h = got'[i].frame, h # 0
         PROVE  /\ h \in Media
                /\ \A j \in i + 1 .. q + 1 : got'[j].frame > h
                /\ Listed => got'[i].kind = offer[frames[h].channel \div 2 + 1]
                /\ \A m \in Media : m > h =>
                        InWire(m)' \/ m \in {got'[j].frame : j \in 1 .. q + 1}
    <3>1. CASE i \in 1 .. q
      <4>1. got'[i] = got[i]
        BY <2>4, <3>1
      <4>2. \A m \in Media : m > h => InWire(m) \/ m \in {got[j].frame : j \in 1 .. q}
        BY <1>14, <2>15, <3>1, <4>1
      <4> QED
        BY <2>12, <2>13, <2>14, <2>15, <3>1, <4>1, <4>2
    <3>2. CASE i = q + 1
      <4>1. h = k /\ got'[i].kind = kind
        BY <2>4, <2>8, <2>15, <3>2
      <4>2. i + 1 .. q + 1 = {}
        BY <3>2
      <4> QED
        BY <1>1, <1>13, <2>10, <2>11, <2>12, <4>1, <4>2
    <3> QED
      BY <2>6, <3>1, <3>2
  <2>16. StaysInSync'
    BY <1>3, <1>9, <2>4, <2>5, <2>15 DEF StaysInSync
  <2> QED
    BY <1>5, <1>6, <2>9, <2>16 DEF StreamInv
<1> QED
  BY <1>15, <1>16

\* What the client and the camera say to each other is about tracks of the SDP.
LEMMA OfferedStep == ASSUME IInv, SetupsOffered, [Next]_vars PROVE SetupsOffered' /\ offer' = offer
<1> USE DEF progress, tcp, camera
<1>1. asked \in Seq(Requests) /\ offer \in Offers /\ Len(offer) \in Nat
  BY OfferTypes, ClientAssumption DEF IInv, TypeOK
<1>2. CASE UNCHANGED <<asked, accepted, offer>>
  BY <1>2 DEF SetupsOffered
<1>3. CASE Send
  <2>1. PICK r : r = Request(pc)
    OBVIOUS
  <2>2. r \in Requests /\ r.setup <= Len(offer)
    <3>1. media # <<>> => media = offer /\ Len(offer) >= 1
      BY <1>1, OfferTypes DEF IInv, TypeOK
    <3>2. pc = "setup" => track <= Len(offer)
      BY <3>1 DEF IInv, PhaseOK, SettingUp
    <3>3. pc = "setup_challenge" => 1 <= Len(offer)
      BY <3>1 DEF IInv, PhaseOK, SettingUp
    <3>4. r.setup = IF pc = "setup" THEN track ELSE IF pc = "setup_challenge" THEN 1 ELSE 0
      BY <2>1 DEF Request
    <3>5. r.setup <= Len(offer)
      BY <1>1, <3>2, <3>3, <3>4
    <3>6. Request(pc) \in Requests
      BY <1>3, RequestTypes DEF Send, Asking
    <3> QED
      BY <2>1, <3>5, <3>6
  <2>3. asked' = Append(asked, r) /\ UNCHANGED <<accepted, offer>>
    BY <1>3, <2>1 DEF Send
  <2>4. /\ Len(asked) \in Nat /\ Len(asked') = Len(asked) + 1 /\ asked'[Len(asked) + 1] = r
        /\ \A k \in 1 .. Len(asked) : asked'[k] = asked[k]
    BY <1>1, <2>2, <2>3, AppendProperties, LenProperties
  <2>5. \A k \in 1 .. Len(asked) + 1 : k \in 1 .. Len(asked) \/ k = Len(asked) + 1
    BY <2>4
  <2>6. \A k \in 1 .. Len(asked') : asked'[k].setup <= Len(offer)
    BY <2>2, <2>4, <2>5 DEF SetupsOffered
  <2> QED
    BY <2>3, <2>6 DEF SetupsOffered
<1>4. CASE Reconnect
  BY <1>4 DEF Reconnect, SetupsOffered
<1>5. CASE Answer
  <2>1. PICK n \in Nat \ {0} : n = Len(asked)
    BY <1>1, <1>5, EmptySeq DEF Answer
  <2>2. /\ Head(asked) = asked[1] /\ asked[1] \in Requests
        /\ Len(Tail(asked)) = n - 1 /\ \A k \in 1 .. n - 1 : Tail(asked)[k] = asked[k + 1]
    BY <1>1, <1>5, <2>1, HeadTailProperties, ElementOfSeq DEF Answer
  <2>3. asked[1].setup \in Nat /\ asked[1].setup <= Len(offer)
    <3>1. asked[1].setup \in 0 .. MaxTracks
      BY <2>2 DEF Requests
    <3>2. 1 \in 1 .. Len(asked)
      BY <2>1
    <3>3. asked[1].setup <= Len(offer)
      BY <3>2 DEF SetupsOffered
    <3> QED
      BY <3>1, <3>3, ClientAssumption
  <2>4. \A k \in 1 .. Len(asked') : asked'[k].setup <= Len(offer)
    <3>1. \A k \in 1 .. n - 1 : k + 1 \in 1 .. n
      BY <2>1
    <3>2. asked' = Tail(asked)
      BY <1>5 DEF Answer
    <3> QED
      BY <2>1, <2>2, <3>1, <3>2 DEF SetupsOffered
  <2>5. PICK named \in BOOLEAN :
            accepted' \subseteq accepted \cup {<<asked[1].setup, FirstChannel(asked[1].setup), named>>}
            /\ (asked[1].setup = 0 => accepted' = accepted)
    BY <1>5, <2>2 DEF Answer
  <2>6. asked[1].setup = 0 \/ asked[1].setup \in 1 .. Len(offer)
    BY <1>1, <2>3
  <2>7. \A a \in accepted' : a[1] \in 1 .. Len(offer)
    BY <2>5, <2>6 DEF SetupsOffered
  <2> QED
    BY <1>5, <2>4, <2>7 DEF Answer, SetupsOffered
<1> QED
  BY <1>2, <1>3, <1>4, <1>5 DEF Next, Client, Reader, vars, handshake, ReadAnswer, ReadGarbled, ReadsEnd,
     Timeout, TrackRefused, ReconnectFails, ReaderEnds, SkipAnswer, ReadPacket, CameraCloses,
     CameraStreams

\* Packets come after all answers.
LEMMA TextStep ==
    ASSUME IInv, IInv', StreamInv, TextFirst, [Next]_vars
    PROVE  TextFirst'
<1> USE DEF progress, tcp, camera
<1>1. /\ asked \in Seq(Requests) /\ replies \in Seq(Replies) /\ WireTypes
      /\ waiting \in BOOLEAN /\ playing \in BOOLEAN /\ (waiting => Asking)
  BY TypeHalves DEF IInv, HandshakeTypes, PhaseOK
<1>2. ASSUME UNCHANGED <<asked, playing, frames, got>>, replies' # <<>> => replies # <<>>,
             PlaySent => PlaySent'
      PROVE  TextFirst'
  BY <1>2 DEF TextFirst
<1>3. CASE Send
  <2>1. PICK q : q = Request(pc)
    OBVIOUS
  <2>2. q \in Requests /\ (q.play <=> pc = "play")
    BY <1>3, <2>1, RequestTypes DEF Send, Request
  <2>3. /\ Len(asked) \in Nat /\ Len(asked') = Len(asked) + 1 /\ asked'[Len(asked) + 1] = q
        /\ \A k \in 1 .. Len(asked) : asked'[k] = asked[k]
    BY <1>1, <1>3, <2>1, <2>2, AppendProperties, LenProperties DEF Send
  <2>4. ~PlaySent /\ (PlaySent' <=> pc = "play")
    BY <1>3 DEF Send, Asking, PlaySent
  <2>5. ~playing /\ \A k \in 1 .. Len(asked) : ~asked[k].play
    BY <2>4 DEF TextFirst
  <2>6. UNCHANGED <<playing, frames, got, replies>>
    BY <1>3 DEF Send, stream
  <2>7. \A k \in 1 .. Len(asked') : k \in 1 .. Len(asked) \/ k = Len(asked')
    BY <2>3
  <2> QED
    BY <2>2, <2>3, <2>4, <2>5, <2>6, <2>7 DEF TextFirst
<1>4. CASE ReadAnswer \/ ReadGarbled \/ ReadsEnd \/ Timeout \/ TrackRefused \/ ReconnectFails
  <2>1. UNCHANGED <<asked, playing, frames, got>>
    BY <1>4 DEF ReadAnswer, ReadGarbled, ReadsEnd, Timeout, TrackRefused, ReconnectFails, ReadAhead,
       stream
  <2>2. replies' # <<>> => replies # <<>>
    BY <1>4 DEF ReadAnswer, ReadGarbled, ReadsEnd, Timeout, TrackRefused, ReconnectFails
  <2>3. PlaySent => pc' \in {"connected", "failed"}
    BY <1>1, <1>4 DEF PlaySent, Asking, ReadAnswer, ReadGarbled, ReadsEnd, Timeout, TrackRefused,
       ReconnectFails, Understand, NoAnswer, GoTo
  <2> QED
    BY <1>2, <2>1, <2>2, <2>3 DEF PlaySent
<1>5. CASE Reconnect
  <2>1. ~PlaySent /\ ~PlaySent'
    BY <1>1, <1>5 DEF PlaySent, Reconnect, AfterReconnect, Asking
  <2>2. asked' = <<>> /\ replies' = <<>> /\ UNCHANGED <<playing, frames, got>>
    BY <1>5 DEF Reconnect, stream
  <2> QED
    BY <2>1, <2>2 DEF TextFirst
<1>6. CASE Answer
  <2>1. asked # <<>> /\ Len(asked) \in Nat /\ Len(asked) >= 1 /\ Head(asked) = asked[1]
    BY <1>1, <1>6, LenProperties, EmptySeq DEF Answer
  <2>2. /\ asked' = Tail(asked) /\ asked' \in Seq(Requests) /\ Len(asked') = Len(asked) - 1
        /\ \A k \in 1 .. Len(asked') : asked'[k] = asked[k + 1]
    BY <1>1, <1>6, <2>1, HeadTailProperties DEF Answer
  <2>3. ~playing /\ frames = <<>> /\ \A i \in 1 .. Len(got) : got[i].frame = 0
    BY <2>1 DEF TextFirst
  <2>4. playing' => asked[1].play
    <3>1. PICK status : playing' = (playing \/ (status = "ok" /\ Head(asked).play))
      BY <1>6, Zenon DEF Answer
    <3> QED
      BY <2>1, <2>3, <3>1, Zenon
  <2>5. asked[1].play => asked' = <<>>
    <3>1. 1 \in 1 .. Len(asked)
      BY <2>1
    <3>2. asked[1].play => Len(asked) = 1
      BY <3>1 DEF TextFirst
    <3> QED
      BY <2>1, <2>2, <3>2, EmptySeq
  <2>6. asked[1].play => PlaySent
    BY <2>1 DEF TextFirst
  <2>7. UNCHANGED <<pc, waiting, frames, got>>
    BY <1>6 DEF Answer, stream
  <2>8. \A k \in 1 .. Len(asked') : k + 1 \in 1 .. Len(asked) /\ (k + 1 = Len(asked) => k = Len(asked'))
    <3>1. PICK n, m : n = Len(asked) /\ m = Len(asked')
      OBVIOUS
    <3>2. n \in Nat /\ m = n - 1
      BY <2>1, <2>2, <3>1
    <3>3. \A k \in 1 .. m : k + 1 \in 1 .. n /\ (k + 1 = n => k = m)
      BY <3>2
    <3> QED
      BY <3>1, <3>3
  <2>9. /\ \A k \in 1 .. Len(asked') : asked'[k].play => k = Len(asked')
        /\ ~PlaySent => \A k \in 1 .. Len(asked') : ~asked'[k].play
    BY <2>2, <2>8 DEF TextFirst
  <2> QED
    BY <2>3, <2>4, <2>5, <2>6, <2>7, <2>9 DEF TextFirst, PlaySent
<1>7. CASE CameraCloses \/ ReaderEnds \/ UNCHANGED vars
  <2>1. UNCHANGED <<asked, playing, frames, got, replies>> /\ (PlaySent => PlaySent')
    BY <1>7 DEF CameraCloses, ReaderEnds, GoTo, vars, handshake, stream, PlaySent
  <2> QED
    BY <1>2, <2>1
<1>8. CASE CameraStreams
  BY <1>8 DEF CameraStreams, Write, handshake, TextFirst, PlaySent
<1>9. CASE SkipAnswer
  <2>1. \A i \in 1 .. Len(got') : got'[i].frame = 0
    <3>1. SkipText /\ \A i \in 1 .. Len(got) : got[i].frame = 0
      BY <1>9 DEF SkipAnswer, TextFirst
    <3>2. WireTypes' /\ UNCHANGED offer
      BY <1>1, <1>9, SkipTextTypes DEF SkipAnswer
    <3> QED
      BY <1>1, <3>1, <3>2, TextSync
  <2>2. UNCHANGED <<pc, waiting, asked, playing, frames>>
    BY <1>9 DEF SkipAnswer, SkipText, stream
  <2> QED
    BY <2>1, <2>2 DEF TextFirst, PlaySent
<1>10. CASE ReadPacket
  <2>1. replies = <<>> /\ UNCHANGED handshake
    BY <1>10 DEF ReadPacket
  <2>2. UNCHANGED frames
    BY <1>10 DEF ReadPacket, ReadRtp, Resync, ReadFrame, ReadFalseFrame, Take
  <2>3. CASE playing
    BY <2>1, <2>2, <2>3 DEF TextFirst, PlaySent, handshake
  <2>4. CASE ~playing
    <3>1. frames = <<>> /\ wire = <<>>
      <4>1. frames = <<>>
        BY <2>4 DEF TextFirst
      <4>2. wire # <<>> => wire[1] \in Cells(0)
        <5>1. Len(frames) = 0 /\ wire \in Seq(Cells(Len(frames)))
          BY <1>1, <4>1, EmptySeq DEF WireTypes
        <5> QED
          BY <5>1, ElementOfSeq, LenProperties, EmptySeq
      <4> QED
        BY <4>1, <4>2 DEF Cells
    <3> QED
      BY <1>10, <3>1 DEF ReadPacket, ReadRtp, Resync, ReadFrame, ReadFalseFrame, AtFrame
  <2> QED
    BY <1>1, <2>3, <2>4
<1> QED
  BY <1>3, <1>4, <1>5, <1>6, <1>7, <1>8, <1>9, <1>10 DEF Next, Client, Reader

\* Every step of the client and of the camera.
LEMMA NextSync == ASSUME IInv, IInv', SInv, [Next]_vars PROVE SInv'
<1>1. SetupsOffered' /\ offer' = offer
  BY OfferedStep DEF SInv
<1>2. WireTypes /\ WireTypes' /\ offer \in Offers
  <2>1. TypeOK /\ TypeOK'
    BY DEF IInv
  <2> QED
    BY <2>1 DEF TypeOK, WireTypes, FrameSet, Cells, Packets
<1>3. StreamInv /\ NotYet
  BY DEF SInv
<1>4. StreamInv' /\ NotYet'
  <2>1. ASSUME UNCHANGED stream, pc \in {"connected", "ended"} => pc' \in {"connected", "ended"}
        PROVE  StreamInv' /\ NotYet'
    BY <1>1, <1>3, <2>1, StillSync DEF NotYet, stream
  <2>2. waiting => pc \notin {"connected", "ended"}
    BY DEF IInv, PhaseOK, Asking
  <2>3. CASE Send \/ Reconnect \/ ReconnectFails \/ TrackRefused \/ Timeout
             \/ ReadGarbled \/ ReadsEnd \/ ReaderEnds \/ Answer \/ CameraCloses \/ UNCHANGED vars
    <3>1. UNCHANGED stream
      BY <2>3 DEF Send, Reconnect, ReconnectFails, TrackRefused, Timeout, ReadGarbled, ReadsEnd,
         ReaderEnds, Answer, CameraCloses, vars
    <3>2. pc \in {"connected", "ended"} => pc' \in {"connected", "ended"}
      BY <2>2, <2>3 DEF Send, Reconnect, ReconnectFails, TrackRefused, Timeout, ReadGarbled, ReadsEnd,
         ReaderEnds, Answer, CameraCloses, vars, handshake, GoTo
    <3> QED
      BY <2>1, <3>1, <3>2
  <2>4. CASE ReadAnswer
    <3>1. pc \notin {"connected", "ended"}
      BY <2>2, <2>4 DEF ReadAnswer
    <3>2. CASE UNCHANGED stream
      BY <2>1, <3>1, <3>2
    <3>3. CASE pc = "play" /\ \E n \in 0 .. Len(wire) : ReadAhead(n)
      <4>1. PICK n \in 0 .. Len(wire) : ReadAhead(n)
        BY <3>3
      <4>2. got' = <<>>
        BY <1>3, <3>1, <4>1 DEF NotYet, ReadAhead
      <4>3. StreamInv'
        BY <1>1, <1>2, <1>3, <4>1, <4>2, SkipSync DEF ReadAhead
      <4> QED
        BY <4>2, <4>3 DEF NotYet
    <3> QED
      BY <2>4, <3>2, <3>3 DEF ReadAnswer
  <2>5. CASE ReadPacket
    <3>1. NotYet'
      BY <2>5 DEF ReadPacket, handshake, NotYet
    <3>2. CASE ReadFrame
      BY <1>1, <1>2, <1>3, <3>1, <3>2, TakeSync
    <3>3. CASE Resync \/ ReadFalseFrame
      BY <1>1, <1>2, <1>3, <3>1, <3>3, MissSync
    <3> QED
      BY <2>5, <3>2, <3>3 DEF ReadPacket, ReadRtp
  <2>6. CASE CameraStreams
    <3>1. PICK a \in accepted, rtcp \in 0 .. 1, size \in Sizes : Write(a[2] + rtcp, size)
      BY <2>6 DEF CameraStreams
    <3>2. a[2] = FirstChannel(a[1]) /\ a[1] \in 1 .. Len(offer)
      <4>1. PICK i \in 1 .. MaxTracks, b \in BOOLEAN : a = <<i, FirstChannel(i), b>>
        BY DEF IInv, TypeOK
      <4> QED
        BY <4>1 DEF SInv, SetupsOffered
    <3>3. Len(offer) <= MaxTracks
      BY <1>2, OfferTypes, ClientAssumption
    <3>4. StreamInv'
      BY <1>1, <1>2, <1>3, <3>1, <3>2, <3>3, WriteSync
    <3>5. NotYet'
      BY <1>3, <2>6, <3>1 DEF CameraStreams, Write, handshake, NotYet
    <3> QED
      BY <3>4, <3>5
  <2>7. CASE SkipAnswer
    <3>1. SkipText /\ \A i \in 1 .. Len(got) : got[i].frame = 0
      BY <2>7 DEF SkipAnswer, SInv, TextFirst
    <3>2. StreamInv'
      BY <1>1, <1>2, <1>3, <3>1, TextSync
    <3> QED
      BY <2>7, <3>2 DEF SkipAnswer, NotYet
  <2> QED
    BY <2>3, <2>4, <2>5, <2>6, <2>7 DEF Next, Client, Reader
<1>5. TextFirst'
  BY TextStep DEF SInv
<1> QED
  BY <1>1, <1>4, <1>5 DEF SInv

LEMMA SyncInvariant == Spec => []SInv
<1>1. IInv /\ IInv' /\ SInv /\ [Next]_vars => SInv'
  BY NextSync
<1> QED
  BY <1>1, InitSync, Invariant, PTL DEF Spec

\* Once the reader has met a frame it returns every packet of the two tracks, in
\* order and each as one of its track, and nothing else.
THEOREM InSync == Spec => []StaysInSync
<1>1. SInv => StaysInSync
  BY DEF SInv, StreamInv
<1> QED
  BY <1>1, SyncInvariant, PTL

==============================================================================

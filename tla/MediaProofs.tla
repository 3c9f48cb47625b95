----------------------------- MODULE MediaProofs ------------------------------
(***************************************************************************)
(* Proofs about the tags of Pipeline, for every frame length and sample    *)
(* rate, whatever is lost and whenever the encoder fails: TagsTellTheTime, *)
(* NoSampleIsSkipped and HeaderThenFrames.                                 *)
(*                                                                         *)
(* The audio invariant places every tag among the accepted samples.  What  *)
(* is queued is the rest of them behind the ones taken (QueueOK), so that  *)
(* the next frame is the one behind these; every tag is the frame at a     *)
(* place that was taken, stamped with it, and no two places overlap        *)
(* (PlacesOK).  Samples are numbered in the order of their recording, so   *)
(* that a frame is at one place only.  Without a failure the places follow *)
(* one another from the first sample on (NothingSkipped).                  *)
(*                                                                         *)
(* The video invariant relates the muxer's state to the NALs parsed so     *)
(* far: the SPS and the PPS it holds are the latest ones (Holds), and the  *)
(* tags count the frames behind the NAL that completed them (TagsFrom).    *)
(***************************************************************************)
EXTENDS PipelineProofs, FiniteSetTheorems

(***************************************************************************)
(* The audio tags.                                                         *)
(***************************************************************************)

\* Accepted samples that are no longer queued.
Taken == Len(accepted) - Len(pending)

\* What is queued is the rest of what was accepted.
QueueOK == Taken \in Nat /\ pending = SubSeq(accepted, Taken + 1, Len(accepted))

\* Samples are accepted in the order of their recording.
Numbered ==
    \A i \in 1 .. Len(accepted) :
        accepted[i] <= recorded /\ \A j \in 1 .. i - 1 : accepted[j] < accepted[i]

\* t is the tag of the frame behind the first k samples.
Stamped(t, k) == t = Raw(SubSeq(accepted, k + 1, k + FrameLen), Ms(k))

\* The tags after the header are of frames that follow one another and were taken.
PlacesOK(at) ==
    \A i \in 2 .. Len(audio_tags) :
        /\ at[i] \in Nat /\ at[i] + FrameLen <= Taken
        /\ Stamped(audio_tags[i], at[i])
        /\ \A j \in 2 .. i - 1 : at[j] + FrameLen <= at[i]

HeaderFirst ==
    /\ seq_sent <=> audio_tags # <<>>
    /\ audio_tags # <<>> => audio_tags[1] = AacHeader

NothingSkipped ==
    ~encoder_failed =>
        /\ Taken = Encoded
        /\ \A i \in 2 .. Len(audio_tags) : Stamped(audio_tags[i], (i - 2) * FrameLen)

AudioTagSet == {AacHeader} \cup [tag : {"aac"}, data : Seq(Nat), ts : Nat]

AudioInv ==
    /\ audio_tags \in Seq(AudioTagSet)
    /\ QueueOK /\ Numbered /\ HeaderFirst /\ NothingSkipped
    /\ \E at : PlacesOK(at)
------------------------------------------------------------------------------
\* The samples of s behind the first t of them, and a part of these.
LEMMA Behind ==
    ASSUME NEW s \in Seq(Nat), NEW t \in 0 .. Len(s)
    PROVE  /\ SubSeq(s, t + 1, Len(s)) \in Seq(Nat)
           /\ Len(SubSeq(s, t + 1, Len(s))) = Len(s) - t
           /\ \A i \in 1 .. Len(s) - t : SubSeq(s, t + 1, Len(s))[i] = s[t + i]
<1>1. PICK a : a = SubSeq(s, t + 1, Len(s))
  OBVIOUS
<1>2. PICK l \in Nat : l = Len(s)
  BY LenProperties
<1>3. t + 1 \in Int /\ l \in Int /\ \A i \in t + 1 .. l : s[i] \in Nat
  BY <1>2, ElementOfSeq
<1>4. /\ a \in Seq(Nat)
      /\ Len(a) = IF t + 1 <= l THEN l - (t + 1) + 1 ELSE 0
      /\ \A i \in 1 .. l - (t + 1) + 1 : a[i] = s[t + 1 + i - 1]
  BY <1>1, <1>2, <1>3, SubSeqProperties
<1>5. Len(a) = l - t
  BY <1>2, <1>4
<1>6. ASSUME NEW i \in 1 .. l - t PROVE a[i] = s[t + i]
  <2>1. i \in 1 .. l - (t + 1) + 1 /\ t + 1 + i - 1 = t + i
    BY <1>2
  <2> QED
    BY <1>4, <2>1
<1> QED
  BY <1>1, <1>2, <1>4, <1>5, <1>6

LEMMA PartBehind ==
    ASSUME NEW s \in Seq(Nat), NEW t \in 0 .. Len(s),
           NEW m \in 0 .. Len(s) - t, NEW n \in m .. Len(s) - t
    PROVE  SubSeq(SubSeq(s, t + 1, Len(s)), m + 1, n) = SubSeq(s, t + m + 1, t + n)
<1>1. PICK l \in Nat : l = Len(s)
  BY LenProperties
<1>2. PICK a : a = SubSeq(s, t + 1, Len(s))
  OBVIOUS
<1>3. CASE m < n
  <2>1. PICK i, p, q : i = t + 1 /\ p = m + 1 /\ q = n
    OBVIOUS
  <2>2. i \in 1 .. l /\ l \in 1 .. l /\ p \in 1 .. l - i + 1 /\ q \in 1 .. l - i + 1
    BY <1>1, <1>3, <2>1
  <2>3. SubSeq(SubSeq(s, i, l), p, q) = SubSeq(s, i + p - 1, i + q - 1)
    BY <1>1, <2>2, SubSeqOfSubSeq
  <2>4. i + p - 1 = t + m + 1 /\ i + q - 1 = t + n
    BY <1>1, <2>1
  <2> QED
    BY <1>1, <2>1, <2>3, <2>4
<1>4. CASE m = n
  <2>1. n < m + 1 /\ t + n < t + m + 1 /\ m + 1 \in Int /\ n \in Int /\ t + m + 1 \in Int /\ t + n \in Int
    BY <1>1, <1>4
  <2>2. SubSeq(a, m + 1, n) = <<>>
    BY <2>1, SubSeqEmpty
  <2>3. SubSeq(s, t + m + 1, t + n) = <<>>
    BY <2>1, SubSeqEmpty
  <2> QED
    BY <1>2, <2>2, <2>3
<1> QED
  BY <1>1, <1>3, <1>4

\* What is queued and a packet: the rest of the samples with the packet's.
LEMMA AvailableSamples ==
    ASSUME AudioTypes, QueueOK, NEW pcm \in Seq(Nat)
    PROVE  LET s == accepted \o pcm
               a == Available(pcm)
           IN
           /\ s \in Seq(Nat) /\ a \in Seq(Nat)
           /\ Len(s) = Len(accepted) + Len(pcm)
           /\ Taken \in 0 .. Len(s)
           /\ Len(a) = Len(s) - Taken /\ a = SubSeq(s, Taken + 1, Len(s))
<1>1. PICK s, a, b, t, l, p :
         /\ s = accepted \o pcm /\ a = Available(pcm) /\ b = SubSeq(s, t + 1, Len(s))
         /\ t = Taken /\ l = Len(accepted) /\ p = Len(pcm)
  OBVIOUS
<1>2. accepted \in Seq(Nat) /\ pending \in Seq(Nat) /\ l \in Nat /\ p \in Nat
  BY <1>1, LenProperties DEF AudioTypes
<1>3. /\ s \in Seq(Nat) /\ Len(s) = l + p
      /\ \A i \in 1 .. l + p : s[i] = IF i <= l THEN accepted[i] ELSE pcm[i - l]
  <2>1. /\ accepted \o pcm \in Seq(Nat) /\ Len(accepted \o pcm) = Len(accepted) + Len(pcm)
        /\ \A i \in 1 .. Len(accepted) + Len(pcm) :
              (accepted \o pcm)[i] = IF i <= Len(accepted) THEN accepted[i] ELSE pcm[i - Len(accepted)]
    BY <1>2, ConcatProperties
  <2> QED
    BY <1>1, <2>1
<1>4. t \in 0 .. l /\ Len(pending) = l - t /\ \A i \in 1 .. l - t : pending[i] = accepted[t + i]
  <2>1. t \in Nat /\ pending = SubSeq(accepted, t + 1, l) /\ t = l - Len(pending) /\ Len(pending) \in Nat
    BY <1>1, <1>2, LenProperties DEF QueueOK, Taken
  <2>2. t \in 0 .. l
    BY <1>2, <2>1
  <2>3. Len(accepted) = l /\ t \in 0 .. Len(accepted)
    BY <1>1, <2>2
  <2>4. /\ Len(SubSeq(accepted, t + 1, Len(accepted))) = Len(accepted) - t
        /\ \A i \in 1 .. Len(accepted) - t : SubSeq(accepted, t + 1, Len(accepted))[i] = accepted[t + i]
    BY <1>2, <2>3, Behind
  <2> QED
    BY <2>1, <2>2, <2>3, <2>4
<1>5. /\ a \in Seq(Nat) /\ Len(a) = l - t + p
      /\ \A i \in 1 .. l - t + p : a[i] = IF i <= l - t THEN pending[i] ELSE pcm[i - (l - t)]
  <2>1. /\ pending \o pcm \in Seq(Nat) /\ Len(pending \o pcm) = Len(pending) + Len(pcm)
        /\ \A i \in 1 .. Len(pending) + Len(pcm) :
              (pending \o pcm)[i] = IF i <= Len(pending) THEN pending[i] ELSE pcm[i - Len(pending)]
    BY <1>2, ConcatProperties
  <2>2. a = pending \o pcm
    BY <1>1 DEF Available
  <2> QED
    BY <1>1, <1>4, <2>1, <2>2
<1>6. t \in 0 .. Len(s)
  BY <1>2, <1>3, <1>4
<1>7. b \in Seq(Nat) /\ Len(b) = l + p - t /\ \A i \in 1 .. l + p - t : b[i] = s[t + i]
  <2>1. /\ SubSeq(s, t + 1, Len(s)) \in Seq(Nat) /\ Len(SubSeq(s, t + 1, Len(s))) = Len(s) - t
        /\ \A i \in 1 .. Len(s) - t : SubSeq(s, t + 1, Len(s))[i] = s[t + i]
    BY <1>3, <1>6, Behind
  <2>2. Len(s) = l + p /\ t \in Nat
    BY <1>3, <1>4
  <2>3. Len(s) - t = l + p - t
    BY <1>2, <2>2
  <2> QED
    BY <1>1, <2>1, <2>3
<1>8. ASSUME NEW i \in 1 .. Len(a) PROVE a[i] = b[i]
  <2>1. i \in 1 .. l - t + p /\ i \in 1 .. l + p - t /\ t + i \in 1 .. l + p
    BY <1>2, <1>4, <1>5
  <2>2. CASE i <= l - t
    <3>1. t + i <= l /\ i \in 1 .. l - t
      BY <1>2, <1>4, <2>1, <2>2
    <3> QED
      BY <1>3, <1>4, <1>5, <1>7, <2>1, <2>2, <3>1
  <2>3. CASE ~(i <= l - t)
    <3>1. ~(t + i <= l) /\ i - (l - t) = t + i - l
      BY <1>2, <1>4, <2>1, <2>3
    <3>2. a[i] = pcm[i - (l - t)]
      BY <1>5, <2>1, <2>3
    <3>3. b[i] = pcm[t + i - l]
      <4>1. t + i - l = (t + i) - l
        BY <1>2, <1>4, <2>1
      <4>2. b[i] = s[t + i]
        BY <1>7, <2>1
      <4>3. s[t + i] = pcm[(t + i) - l]
        BY <1>3, <2>1, <3>1
      <4> QED
        BY <4>1, <4>2, <4>3
    <3> QED
      BY <3>1, <3>2, <3>3
  <2> QED
    BY <2>2, <2>3
<1>9. Len(a) = Len(b) /\ Len(a) = Len(s) - t
  <2>1. t \in Nat
    BY <1>4
  <2>2. l - t + p = l + p - t /\ l + p - t = (l + p) - t
    BY <1>2, <2>1
  <2> QED
    BY <1>3, <1>5, <1>7, <2>2
<1>10. a = b
  BY <1>5, <1>7, <1>8, <1>9, SeqEqual
<1> QED
  BY <1>1, <1>3, <1>5, <1>6, <1>9, <1>10

\* The frames that are available follow the samples that are taken.
LEMMA AvailableFrames ==
    ASSUME AudioTypes, QueueOK, NEW pcm \in Seq(Nat)
    PROVE  LET s == accepted \o pcm IN
           /\ Frames(pcm) \in Nat
           /\ Taken + Frames(pcm) * FrameLen <= Len(s)
           /\ \A i \in 1 .. Frames(pcm) :
                 LET k == Taken + (i - 1) * FrameLen IN
                 /\ k \in Nat /\ k + FrameLen <= Taken + Frames(pcm) * FrameLen
                 /\ Pts(pcm, i) = k
                 /\ FrameOf(pcm, i) = SubSeq(s, k + 1, k + FrameLen)
<1> USE TranscoderAssumption
<1>1. PICK s, a, t, l, p : s = accepted \o pcm /\ a = Available(pcm) /\ t = Taken /\ l = Len(s) /\ p = Len(pcm)
  OBVIOUS
<1>2. /\ s \in Seq(Nat) /\ a \in Seq(Nat) /\ l = Len(accepted) + p
      /\ t \in 0 .. l /\ Len(a) = l - t /\ a = SubSeq(s, t + 1, l)
  BY <1>1, AvailableSamples
<1>3. l \in Nat /\ p \in Nat /\ Len(accepted) \in Nat
  BY <1>1, <1>2, LenProperties DEF AudioTypes
<1>4. PICK m \in Nat : m = Frames(pcm) /\ m * FrameLen \in Nat /\ m * FrameLen <= l - t
  <2>1. l - t \in Nat
    BY <1>2, <1>3
  <2>2. /\ (l - t) \div FrameLen \in Nat
        /\ ((l - t) \div FrameLen) * FrameLen <= l - t
    BY <2>1, Quotient
  <2>3. Frames(pcm) = (l - t) \div FrameLen
    BY <1>1, <1>2 DEF Frames
  <2> QED
    BY <2>2, <2>3, Products
<1>5. t + m * FrameLen <= l
  <2>1. PICK x \in Nat : x = m * FrameLen
    BY <1>4
  <2> QED
    BY <1>2, <1>3, <1>4, <2>1
<1>6. ASSUME NEW i \in 1 .. m
      PROVE  LET k == t + (i - 1) * FrameLen IN
             /\ k \in Nat /\ k + FrameLen <= t + m * FrameLen
             /\ Pts(pcm, i) = k
             /\ FrameOf(pcm, i) = SubSeq(s, k + 1, k + FrameLen)
  <2>1. PICK x, y, z : x = (i - 1) * FrameLen /\ y = i * FrameLen /\ z = m * FrameLen
    OBVIOUS
  <2>2. x \in Nat /\ y = x + FrameLen /\ y <= z /\ z \in Nat /\ z <= l - t
    <3>1. i - 1 \in Nat /\ i \in Nat /\ i <= m
      BY <1>4
    <3>2. (i - 1) * FrameLen \in Nat /\ i * FrameLen <= m * FrameLen
      BY <1>4, <3>1, Products
    <3>3. i * FrameLen = (i - 1) * FrameLen + FrameLen
      BY <3>1
    <3> QED
      BY <1>4, <2>1, <3>2, <3>3
  <2>3. t + x \in Nat /\ t + x + FrameLen <= t + z
    BY <1>2, <1>3, <2>2
  <2>4. Pts(pcm, i) = t + x
    <3>1. samples_total + p = l
      BY <1>1, <1>2 DEF AudioTypes
    <3>2. samples_total \in Nat
      BY LenProperties DEF AudioTypes
    <3>3. Pts(pcm, i) = samples_total + p - ((l - t) - x)
      BY <1>1, <1>2, <2>1 DEF Pts
    <3>4. PICK n \in Nat : n = samples_total /\ n + p = l
      BY <3>1, <3>2
    <3>5. t \in Nat /\ t <= l
      BY <1>2
    <3>6. n + p - ((l - t) - x) = t + x
      BY <1>3, <2>2, <3>4, <3>5
    <3> QED
      BY <3>3, <3>4, <3>6
  <2>5. FrameOf(pcm, i) = SubSeq(s, t + x + 1, t + x + FrameLen)
    <3>1. FrameOf(pcm, i) = SubSeq(a, x + 1, y)
      BY <1>1, <2>1 DEF FrameOf
    <3>2. Len(s) = l /\ x \in 0 .. l - t /\ y \in x .. l - t
      <4>1. FrameLen \in Nat
        OBVIOUS
      <4> QED
        BY <1>1, <1>2, <1>3, <2>2, <4>1
    <3>3. SubSeq(SubSeq(s, t + 1, Len(s)), x + 1, y) = SubSeq(s, t + x + 1, t + y)
      BY <1>2, <3>2, PartBehind
    <3>4. t + y = t + x + FrameLen
      BY <1>2, <1>3, <2>2
    <3> QED
      BY <1>2, <3>1, <3>2, <3>3, <3>4
  <2> QED
    BY <2>1, <2>3, <2>4, <2>5
<1> QED
  BY <1>1, <1>4, <1>5, <1>6

\* n frames are taken out of the queue.
LEMMA Pushed ==
    ASSUME AudioTypes, QueueOK, NEW pcm \in Seq(Nat), NEW n \in 0 .. Frames(pcm), Push(pcm, n),
           accepted' = accepted \o pcm
    PROVE  QueueOK' /\ Taken' = Taken + n * FrameLen
<1> USE TranscoderAssumption
<1>1. PICK s, a, t, l : s = accepted \o pcm /\ a = Available(pcm) /\ t = Taken /\ l = Len(s)
  OBVIOUS
<1>2. /\ s \in Seq(Nat) /\ a \in Seq(Nat)
      /\ t \in 0 .. l /\ Len(a) = l - t /\ a = SubSeq(s, t + 1, l)
  BY <1>1, AvailableSamples
<1>3. l \in Nat
  BY <1>1, <1>2, LenProperties
<1>4. PICK x \in Nat : x = n * FrameLen /\ x <= l - t
  <2>1. Frames(pcm) \in Nat /\ t + Frames(pcm) * FrameLen <= l
    BY <1>1, AvailableFrames
  <2>2. n \in Nat /\ n <= Frames(pcm)
    BY <2>1
  <2>3. n * FrameLen \in Nat /\ n * FrameLen <= Frames(pcm) * FrameLen /\ Frames(pcm) * FrameLen \in Nat
    BY <2>1, <2>2, Products
  <2>4. PICK x \in Nat, y \in Nat : x = n * FrameLen /\ y = Frames(pcm) * FrameLen
    BY <2>3
  <2>5. x <= l - t
    BY <1>2, <1>3, <2>1, <2>3, <2>4
  <2> QED
    BY <2>4, <2>5
<1>5. pending' = SubSeq(a, x + 1, l - t)
  BY <1>1, <1>2, <1>4 DEF Push
<1>6. pending' = SubSeq(s, t + x + 1, l)
  <2>1. Len(s) = l /\ x \in 0 .. l - t /\ l - t \in x .. l - t /\ t + (l - t) = l
    <3>1. t <= l /\ t \in Nat
      BY <1>2
    <3> QED
      BY <1>1, <1>3, <1>4, <3>1
  <2>2. SubSeq(SubSeq(s, t + 1, Len(s)), x + 1, l - t) = SubSeq(s, t + x + 1, t + (l - t))
    BY <1>2, <2>1, PartBehind
  <2> QED
    BY <1>2, <1>5, <2>1, <2>2
<1>7. t + x \in 0 .. l
  <2>1. t <= l /\ t \in Nat
    BY <1>2
  <2> QED
    BY <1>3, <1>4, <2>1
<1>8. Len(pending') = l - (t + x)
  <2>1. PICK u \in 0 .. l : u = t + x
    BY <1>7
  <2>2. Len(SubSeq(s, u + 1, Len(s))) = Len(s) - u
    BY <1>1, <1>2, <2>1, Behind
  <2> QED
    BY <1>1, <1>6, <2>1, <2>2
<1>9. accepted' = s /\ Len(accepted') = l
  BY <1>1
<1>10. Taken' = t + x
  <2>1. Taken' = l - (l - (t + x))
    BY <1>8, <1>9 DEF Taken
  <2> QED
    BY <1>3, <1>7, <2>1
<1>11. QueueOK'
  BY <1>6, <1>7, <1>9, <1>10 DEF QueueOK
<1> QED
  BY <1>1, <1>4, <1>10, <1>11

LEMMA MsType == ASSUME NEW k \in Nat PROVE Ms(k) \in Nat
<1> USE TranscoderAssumption
<1>1. k * 1000 \in Nat
  OBVIOUS
<1>2. (k * 1000) \div Rate \in Nat
  BY <1>1, Quotient
<1> QED
  BY <1>2 DEF Ms

\* A tag's frame is among the accepted samples, whatever is accepted after it.
LEMMA StampedLater ==
    ASSUME AudioTypes, NEW pcm \in Seq(Nat), accepted' = accepted \o pcm,
           NEW k \in Nat, k + FrameLen <= Len(accepted)
    PROVE  SubSeq(accepted', k + 1, k + FrameLen) = SubSeq(accepted, k + 1, k + FrameLen)
<1> USE TranscoderAssumption
<1>1. PICK l \in Nat : l = Len(accepted)
  BY LenProperties DEF AudioTypes
<1>2. k + 1 \in 1 .. l /\ k + FrameLen \in 1 .. l
  BY <1>1
<1> QED
  BY <1>1, <1>2, SubSeqOfConcat1 DEF AudioTypes

\* The header and the tags before the ones of the next packet.
Leading == IF audio_tags = <<>> THEN 1 ELSE Len(audio_tags)

\* Tag i of the next packet.
NextTag(pcm, i) ==
    LET k == Taken + (i - 1) * FrameLen
        s == accepted \o pcm
    IN Raw(SubSeq(s, k + 1, k + FrameLen), Ms(k))

RawTags(pcm) == [i \in 1 .. Frames(pcm) |-> Raw(FrameOf(pcm, i), Ms(Pts(pcm, i)))]

\* The tags of a packet, at their places among the accepted samples.
LEMMA TagsOfPacket ==
    ASSUME AudioTypes, QueueOK, NEW pcm \in Seq(Nat)
    PROVE  /\ RawTags(pcm) \in Seq(AudioTagSet) /\ Len(RawTags(pcm)) = Frames(pcm)
           /\ \A i \in 1 .. Frames(pcm) : RawTags(pcm)[i] = NextTag(pcm, i)
<1> USE TranscoderAssumption
<1>1. PICK s, t, l : s = accepted \o pcm /\ t = Taken /\ l = Len(s)
  OBVIOUS
<1>2. s \in Seq(Nat) /\ l \in Nat /\ t \in 0 .. l
  <2>1. accepted \o pcm \in Seq(Nat) /\ Taken \in 0 .. Len(accepted \o pcm)
    BY AvailableSamples
  <2> QED
    BY <1>1, <2>1, LenProperties
<1>3. PICK m \in Nat : m = Frames(pcm) /\ t + m * FrameLen <= l
  BY <1>1, AvailableFrames
<1>4. ASSUME NEW i \in 1 .. m
      PROVE  Raw(FrameOf(pcm, i), Ms(Pts(pcm, i))) = NextTag(pcm, i) /\ NextTag(pcm, i) \in AudioTagSet
  <2>1. PICK k : k = t + (i - 1) * FrameLen
    OBVIOUS
  <2>2. /\ k \in Nat /\ k + FrameLen <= t + m * FrameLen
        /\ Pts(pcm, i) = k /\ FrameOf(pcm, i) = SubSeq(s, k + 1, k + FrameLen)
    BY <1>1, <1>3, <2>1, AvailableFrames
  <2>3. k + FrameLen <= l
    <3>1. PICK x \in Nat : x = m * FrameLen
      BY <1>3, Products
    <3> QED
      BY <1>2, <1>3, <2>2, <3>1
  <2>4. SubSeq(s, k + 1, k + FrameLen) \in Seq(Nat)
    <3>1. k + 1 \in Int /\ k + FrameLen \in Int /\ \A j \in k + 1 .. k + FrameLen : j \in 1 .. l
      BY <1>2, <2>2, <2>3
    <3>2. \A j \in k + 1 .. k + FrameLen : s[j] \in Nat
      BY <1>1, <1>2, <3>1, ElementOfSeq
    <3> QED
      BY <3>1, <3>2, SubSeqProperties
  <2>5. NextTag(pcm, i) = Raw(SubSeq(s, k + 1, k + FrameLen), Ms(k))
    BY <1>1, <2>1 DEF NextTag
  <2>6. Raw(SubSeq(s, k + 1, k + FrameLen), Ms(k)) \in AudioTagSet
    <3>1. Ms(k) \in Nat
      BY <2>2, MsType
    <3> QED
      BY <2>4, <3>1 DEF Raw, AudioTagSet
  <2> QED
    BY <2>2, <2>5, <2>6
<1>5. PICK r : r = RawTags(pcm) /\ r = [i \in 1 .. m |-> Raw(FrameOf(pcm, i), Ms(Pts(pcm, i)))]
  BY <1>3 DEF RawTags
<1>6. \A i \in 1 .. m : r[i] = NextTag(pcm, i) /\ r[i] \in AudioTagSet
  BY <1>4, <1>5
<1>7. r \in [1 .. m -> AudioTagSet]
  BY <1>5, <1>6
<1>8. r \in Seq(AudioTagSet) /\ Len(r) = m
  <2>1. m \in Nat
    OBVIOUS
  <2>2. DOMAIN r = 1 .. m /\ \A i \in 1 .. m : r[i] \in AudioTagSet
    BY <1>7
  <2>3. r \in Seq(AudioTagSet)
    BY <1>7, <2>1
  <2> QED
    BY <2>1, <2>2, <2>3, LenProperties
<1> QED
  BY <1>3, <1>5, <1>6, <1>8

LEMMA LeadingType == ASSUME audio_tags \in Seq(AudioTagSet) PROVE Leading \in Nat \ {0}
BY LenProperties, EmptySeq DEF Leading

\* The tags after a packet that has at least one frame.
LEMMA TagsAdded ==
    ASSUME AudioTypes, QueueOK, HeaderFirst, audio_tags \in Seq(AudioTagSet),
           NEW pcm \in Seq(Nat), Frames(pcm) # 0, audio_tags' = audio_tags \o AudioTags(pcm)
    PROVE  /\ audio_tags' \in Seq(AudioTagSet) /\ Len(audio_tags') = Leading + Frames(pcm)
           /\ audio_tags'[1] = AacHeader
           /\ \A i \in 1 .. Len(audio_tags) : audio_tags'[i] = audio_tags[i]
           /\ \A i \in 1 .. Frames(pcm) : audio_tags'[Leading + i] = NextTag(pcm, i)
<1>1. PICK a, r, m : a = audio_tags /\ r = RawTags(pcm) /\ m = Frames(pcm)
  OBVIOUS
<1>2. /\ r \in Seq(AudioTagSet) /\ Len(r) = m
      /\ \A i \in 1 .. m : r[i] = NextTag(pcm, i)
  BY <1>1, TagsOfPacket
<1>3. m \in Nat /\ a \in Seq(AudioTagSet) /\ Len(a) \in Nat
  BY <1>1, <1>2, LenProperties
<1>4. /\ a \o r \in Seq(AudioTagSet) /\ Len(a \o r) = Len(a) + m
      /\ \A i \in 1 .. Len(a) + m : (a \o r)[i] = IF i <= Len(a) THEN a[i] ELSE r[i - Len(a)]
  BY <1>2, <1>3, ConcatProperties
<1>5. CASE seq_sent
  <2>1. a # <<>> /\ a[1] = AacHeader /\ Leading = Len(a)
    BY <1>1, <1>5 DEF HeaderFirst, Leading
  <2>2. Len(a) >= 1
    BY <1>3, <2>1, EmptySeq
  <2>3. AudioTags(pcm) = <<>> \o r
    BY <1>1, <1>5 DEF AudioTags, RawTags
  <2>4. audio_tags' = a \o r
    BY <1>1, <1>2, <2>3, ConcatEmptySeq
  <2>5. (a \o r)[1] = a[1]
    BY <1>3, <1>4, <2>2
  <2>6. \A i \in 1 .. Len(a) : (a \o r)[i] = a[i]
    BY <1>3, <1>4
  <2>7. ASSUME NEW i \in 1 .. m PROVE (a \o r)[Len(a) + i] = NextTag(pcm, i)
    <3>1. PICK l \in Nat : l = Len(a)
      BY <1>3
    <3>2. l + i \in 1 .. l + m /\ ~(l + i <= l) /\ (l + i) - l = i
      BY <1>3, <3>1
    <3> QED
      BY <1>2, <1>4, <3>1, <3>2
  <2> QED
    BY <1>1, <1>4, <2>1, <2>4, <2>5, <2>6, <2>7
<1>6. CASE ~seq_sent
  <2>1. a = <<>> /\ Len(a) = 0 /\ Leading = 1
    BY <1>1, <1>6, EmptySeq DEF HeaderFirst, Leading
  <2>2. PICK h : h = <<AacHeader>>
    OBVIOUS
  <2>3. h \in Seq(AudioTagSet) /\ Len(h) = 1 /\ h[1] = AacHeader
    BY <2>2 DEF AudioTagSet
  <2>4. /\ h \o r \in Seq(AudioTagSet) /\ Len(h \o r) = 1 + m
        /\ \A i \in 1 .. 1 + m : (h \o r)[i] = IF i <= 1 THEN h[i] ELSE r[i - 1]
    <3>1. /\ h \o r \in Seq(AudioTagSet) /\ Len(h \o r) = Len(h) + Len(r)
          /\ \A i \in 1 .. Len(h) + Len(r) : (h \o r)[i] = IF i <= Len(h) THEN h[i] ELSE r[i - Len(h)]
      BY <1>2, <2>3, ConcatProperties
    <3> QED
      BY <1>2, <2>3, <3>1
  <2>5. AudioTags(pcm) = h \o r
    BY <1>1, <1>6, <2>2 DEF AudioTags, RawTags
  <2>6. audio_tags' = h \o r
    BY <1>1, <2>1, <2>4, <2>5, ConcatEmptySeq
  <2>7. (h \o r)[1] = AacHeader
    BY <1>3, <2>3, <2>4
  <2>8. ASSUME NEW i \in 1 .. m PROVE (h \o r)[1 + i] = NextTag(pcm, i)
    <3>1. 1 + i \in 1 .. 1 + m /\ ~(1 + i <= 1) /\ (1 + i) - 1 = i
      BY <1>3
    <3> QED
      BY <1>2, <2>4, <3>1
  <2>9. \A i \in 1 .. Len(audio_tags) : audio_tags'[i] = audio_tags[i]
    BY <1>1, <2>1
  <2>10. Len(audio_tags') = Leading + Frames(pcm) /\ audio_tags' \in Seq(AudioTagSet)
    BY <1>1, <2>1, <2>4, <2>6
  <2>11. \A i \in 1 .. Frames(pcm) : audio_tags'[Leading + i] = NextTag(pcm, i)
    BY <1>1, <2>1, <2>6, <2>8
  <2> QED
    BY <2>6, <2>7, <2>9, <2>10, <2>11
<1>7. seq_sent \in BOOLEAN
  BY DEF AudioTypes
<1> QED
  BY <1>5, <1>6, <1>7

\* The order of the samples, when those of a packet are accepted.
LEMMA NumberedStep ==
    ASSUME AudioTypes, Numbered, recorded \in Nat, NEW n \in Nat, NEW pcm \in Seq(Nat),
           Len(pcm) = n, \A i \in 1 .. n : pcm[i] = recorded + i,
           accepted' = accepted \o pcm, recorded' = recorded + n
    PROVE  Numbered'
<1>1. PICK l, s, r : l = Len(accepted) /\ s = accepted \o pcm /\ r = recorded
  OBVIOUS
<1>2. l \in Nat /\ r \in Nat /\ \A i \in 1 .. l : accepted[i] \in Nat
  BY <1>1, LenProperties, ElementOfSeq DEF AudioTypes
<1>3. /\ Len(s) = l + n
      /\ \A i \in 1 .. l + n : s[i] = IF i <= l THEN accepted[i] ELSE pcm[i - l]
  BY <1>1, ConcatProperties DEF AudioTypes
<1>4. ASSUME NEW i \in 1 .. l + n, i <= l
      PROVE  s[i] <= r + n /\ s[i] <= r /\ \A j \in 1 .. i - 1 : s[j] < s[i]
  <2>1. i \in 1 .. l /\ accepted[i] <= r /\ s[i] = accepted[i] /\ accepted[i] \in Nat
    BY <1>1, <1>2, <1>3, <1>4 DEF Numbered
  <2>2. accepted[i] <= r + n
    BY <1>2, <2>1
  <2>3. ASSUME NEW j \in 1 .. i - 1 PROVE s[j] < s[i]
    <3>1. j \in 1 .. l + n /\ j <= l
      BY <1>2, <2>1
    <3>2. s[j] = accepted[j] /\ accepted[j] < accepted[i]
      BY <1>1, <1>3, <2>1, <3>1 DEF Numbered
    <3> QED
      BY <2>1, <3>2
  <2> QED
    BY <2>1, <2>2, <2>3
<1>5. ASSUME NEW i \in 1 .. l + n, ~(i <= l)
      PROVE  s[i] <= r + n /\ \A j \in 1 .. i - 1 : s[j] < s[i]
  <2>1. i - l \in 1 .. n /\ i - l \in Nat
    BY <1>2, <1>5
  <2>2. s[i] = r + (i - l)
    BY <1>1, <1>3, <1>5, <2>1
  <2>3. ASSUME NEW j \in 1 .. i - 1 PROVE s[j] < s[i]
    <3>1. j \in 1 .. l + n
      BY <1>2
    <3>2. CASE j <= l
      <4>1. s[j] <= r /\ s[j] \in Nat
        <5>1. j \in 1 .. l
          BY <1>2, <3>1, <3>2
        <5> QED
          BY <1>2, <1>3, <1>4, <3>1, <3>2, <5>1
      <4> QED
        BY <1>2, <2>1, <2>2, <4>1
    <3>3. CASE ~(j <= l)
      <4>1. j - l \in 1 .. n /\ j - l < i - l
        BY <1>2, <3>1, <3>3
      <4>2. s[j] = r + (j - l)
        BY <1>1, <1>3, <3>1, <3>3, <4>1
      <4> QED
        BY <1>2, <2>1, <2>2, <4>1, <4>2
    <3> QED
      BY <3>2, <3>3
  <2> QED
    BY <1>2, <2>1, <2>2, <2>3
<1>6. \A i \in 1 .. l + n : s[i] <= r + n /\ \A j \in 1 .. i - 1 : s[j] < s[i]
  BY <1>4, <1>5
<1> QED
  BY <1>1, <1>3, <1>6 DEF Numbered

\* What is taken was accepted.
LEMMA TakenBound == ASSUME AudioTypes, QueueOK PROVE Taken \in Nat /\ Taken <= Len(accepted)
<1>1. PICK l \in Nat, p \in Nat : l = Len(accepted) /\ p = Len(pending)
  BY LenProperties DEF AudioTypes
<1>2. l - p \in Nat
  BY <1>1 DEF QueueOK, Taken
<1>3. l - p <= l
  BY <1>1
<1> QED
  BY <1>1, <1>2, <1>3 DEF Taken

\* The tag of samples that are taken stays theirs.
LEMMA OldStamp ==
    ASSUME AudioTypes, QueueOK, NEW pcm \in Seq(Nat), accepted' = accepted \o pcm,
           NEW k \in Nat, k + FrameLen <= Taken, NEW t, Stamped(t, k)
    PROVE  t = Raw(SubSeq(accepted', k + 1, k + FrameLen), Ms(k))
<1> USE TranscoderAssumption
<1>1. k + FrameLen <= Len(accepted)
  <2>1. PICK l \in Nat, n \in Nat : l = Len(accepted) /\ n = Taken /\ n <= l
    BY TakenBound, LenProperties DEF AudioTypes
  <2> QED
    BY <2>1
<1>2. SubSeq(accepted', k + 1, k + FrameLen) = SubSeq(accepted, k + 1, k + FrameLen)
  BY <1>1, StampedLater
<1> QED
  BY <1>2 DEF Stamped

\* Nothing but the samples grows.
LEMMA NoTag ==
    ASSUME AudioTypes, QueueOK, NEW pcm \in Seq(Nat), accepted' = accepted \o pcm,
           Taken' \in Nat, Taken <= Taken', audio_tags' = audio_tags, NEW at, PlacesOK(at)
    PROVE  PlacesOK(at)'
<1> USE TranscoderAssumption
<1>1. ASSUME NEW i \in 2 .. Len(audio_tags)
      PROVE  /\ at[i] \in Nat /\ at[i] + FrameLen <= Taken'
             /\ audio_tags[i] = Raw(SubSeq(accepted', at[i] + 1, at[i] + FrameLen), Ms(at[i]))
             /\ \A j \in 2 .. i - 1 : at[j] + FrameLen <= at[i]
  <2>1. /\ at[i] \in Nat /\ at[i] + FrameLen <= Taken /\ Stamped(audio_tags[i], at[i])
        /\ \A j \in 2 .. i - 1 : at[j] + FrameLen <= at[i]
    BY DEF PlacesOK
  <2>2. audio_tags[i] = Raw(SubSeq(accepted', at[i] + 1, at[i] + FrameLen), Ms(at[i]))
    BY <2>1, OldStamp
  <2>3. PICK n \in Nat : n = Taken
    BY TakenBound
  <2>4. at[i] + FrameLen <= Taken'
    BY <2>1, <2>3
  <2> QED
    BY <2>1, <2>2, <2>4
<1> QED
  BY <1>1 DEF PlacesOK, Stamped

\* Tags are added at places behind the ones there are.
LEMMA PlacesAdded ==
    ASSUME AudioTypes, QueueOK, HeaderFirst, audio_tags \in Seq(AudioTagSet),
           NEW pcm \in Seq(Nat), Frames(pcm) # 0, audio_tags' = audio_tags \o AudioTags(pcm),
           accepted' = accepted \o pcm, Push(pcm, Frames(pcm)), NEW at, PlacesOK(at)
    PROVE  \E g : PlacesOK(g)'
<1> USE TranscoderAssumption
<1>1. PICK L \in Nat : L = FrameLen
  OBVIOUS
<1>2. PICK m \in Nat : m = Frames(pcm)
  BY AvailableFrames
<1>3. PICK b \in Nat : b = Leading /\ b # 0
  BY LeadingType
<1>4. PICK t \in Nat : t = Taken /\ t <= Len(accepted)
  BY TakenBound
<1>5. Taken' = t + m * L
  <2>1. Frames(pcm) \in 0 .. Frames(pcm)
    BY <1>2
  <2> QED
    BY <1>1, <1>2, <1>4, <2>1, Pushed
<1>6. PICK g : \A i \in 2 .. b + m : g[i] = IF i <= b THEN at[i] ELSE t + (i - b - 1) * L
  <2>1. \A i \in 2 .. b + m :
          [i_1 \in 2 .. b + m |-> IF i_1 <= b THEN at[i_1] ELSE t + (i_1 - b - 1) * L][i]
             = IF i <= b THEN at[i] ELSE t + (i - b - 1) * L
    OBVIOUS
  <2> QED
    BY <2>1
<1>7. /\ Len(audio_tags') = b + m
      /\ \A i \in 1 .. Len(audio_tags) : audio_tags'[i] = audio_tags[i]
      /\ \A i \in 1 .. m : audio_tags'[b + i] = NextTag(pcm, i)
  BY <1>2, <1>3, TagsAdded
<1>8. ASSUME NEW i \in 2 .. b
      PROVE  /\ i \in 2 .. Len(audio_tags) /\ audio_tags'[i] = audio_tags[i]
             /\ at[i] \in Nat /\ at[i] + L <= t
             /\ audio_tags[i] = Raw(SubSeq(accepted', at[i] + 1, at[i] + L), Ms(at[i]))
             /\ \A j \in 2 .. i - 1 : at[j] + L <= at[i]
  <2>1. b = Len(audio_tags)
    BY <1>3 DEF Leading
  <2>2. i \in 2 .. Len(audio_tags) /\ i \in 1 .. Len(audio_tags)
    BY <2>1
  <2>3. /\ at[i] \in Nat /\ at[i] + L <= t /\ Stamped(audio_tags[i], at[i])
        /\ \A j \in 2 .. i - 1 : at[j] + L <= at[i]
    BY <1>1, <1>4, <2>2 DEF PlacesOK
  <2>4. audio_tags[i] = Raw(SubSeq(accepted', at[i] + 1, at[i] + L), Ms(at[i]))
    BY <1>1, <1>4, <2>3, OldStamp
  <2> QED
    BY <1>7, <2>2, <2>3, <2>4
<1>9. ASSUME NEW i \in b + 1 .. b + m
      PROVE  LET k == t + (i - b - 1) * L IN
             /\ k \in Nat /\ k >= t /\ k + L <= t + m * L
             /\ audio_tags'[i] = Raw(SubSeq(accepted', k + 1, k + L), Ms(k))
  <2>1. PICK j \in 1 .. m : j = i - b /\ i = b + j /\ j - 1 = i - b - 1
    BY <1>3
  <2>2. PICK x \in Nat : x = (j - 1) * L
    BY <2>1, Products
  <2>3. /\ t + x \in Nat /\ t + x + L <= t + m * L /\ audio_tags'[i] = NextTag(pcm, j)
    BY <1>1, <1>2, <1>4, <1>7, <2>1, <2>2, AvailableFrames
  <2>4. NextTag(pcm, j) = Raw(SubSeq(accepted', t + x + 1, t + x + L), Ms(t + x))
    BY <1>1, <1>4, <2>2 DEF NextTag
  <2>5. t + x >= t
    BY <2>2
  <2> QED
    BY <2>1, <2>2, <2>3, <2>4, <2>5
<1>10. ASSUME NEW i \in 2 .. b + m
       PROVE  /\ g[i] \in Nat /\ g[i] + L <= t + m * L
              /\ audio_tags'[i] = Raw(SubSeq(accepted', g[i] + 1, g[i] + L), Ms(g[i]))
              /\ \A j \in 2 .. i - 1 : g[j] + L <= g[i]
  <2>1. PICK z \in Nat : z = m * L
    BY Products
  <2>2. CASE i <= b
    <3>1. g[i] = at[i] /\ i \in 2 .. b
      BY <1>6, <2>2
    <3>2. g[i] + L <= t + z
      <4>1. PICK a \in Nat : a = at[i] /\ a + L <= t
        BY <1>8, <3>1
      <4>2. a + L <= t + z
        BY <4>1
      <4> QED
        BY <3>1, <4>1, <4>2
    <3>3. ASSUME NEW j \in 2 .. i - 1 PROVE g[j] + L <= g[i]
      <4>1. j \in 2 .. b + m /\ j <= b
        BY <3>1
      <4>2. g[j] = at[j]
        BY <1>6, <4>1
      <4> QED
        BY <1>8, <3>1, <4>2
    <3> QED
      BY <1>8, <2>1, <3>1, <3>2, <3>3
  <2>3. CASE ~(i <= b)
    <3>1. g[i] = t + (i - b - 1) * L /\ i \in b + 1 .. b + m
      BY <1>6, <2>3
    <3>2. g[i] \in Nat /\ g[i] >= t
      BY <1>9, <3>1
    <3>3. ASSUME NEW j \in 2 .. i - 1, j <= b PROVE g[j] + L <= g[i]
      <4>1. j \in 2 .. b + m /\ j \in 2 .. b
        BY <3>3
      <4>2. g[j] = at[j]
        BY <1>6, <3>3, <4>1
      <4>3. at[j] \in Nat /\ at[j] + L <= t
        BY <1>8, <4>1
      <4> QED
        BY <3>2, <4>2, <4>3
    <3>4. ASSUME NEW j \in 2 .. i - 1, ~(j <= b) PROVE g[j] + L <= g[i]
      <4>1. j \in 2 .. b + m
        BY <3>1
      <4>2. g[j] = t + (j - b - 1) * L
        BY <1>6, <3>4, <4>1
      <4>3. PICK p \in Nat, q \in Nat : p = j - b - 1 /\ q = i - b - 1 /\ p + 1 <= q
        BY <3>1, <3>4
      <4>4. p * L \in Nat /\ q * L \in Nat /\ (p + 1) * L <= q * L /\ (p + 1) * L = p * L + L
        BY <4>3, Products
      <4>5. PICK x \in Nat, y \in Nat : x = p * L /\ y = q * L /\ x + L <= y
        BY <4>4
      <4>6. t + x + L <= t + y
        BY <4>5
      <4> QED
        BY <3>1, <4>2, <4>3, <4>5, <4>6
    <3> QED
      BY <1>9, <3>1, <3>2, <3>3, <3>4
  <2> QED
    BY <2>2, <2>3
<1>11. PlacesOK(g)'
  BY <1>1, <1>5, <1>7, <1>10 DEF PlacesOK, Stamped
<1> QED
  BY <1>11

\* As long as the encoder has not failed, every tag is behind the one before it.
LEMMA NothingSkippedAdded ==
    ASSUME AudioTypes, QueueOK, HeaderFirst, audio_tags \in Seq(AudioTagSet),
           NEW pcm \in Seq(Nat), Frames(pcm) # 0, audio_tags' = audio_tags \o AudioTags(pcm),
           accepted' = accepted \o pcm, Push(pcm, Frames(pcm)), NothingSkipped,
           encoder_failed' = encoder_failed
    PROVE  NothingSkipped'
<1> USE TranscoderAssumption
<1> SUFFICES ASSUME ~encoder_failed
             PROVE  /\ Taken' = Encoded'
                    /\ \A i \in 2 .. Len(audio_tags') :
                          audio_tags'[i] = Raw(SubSeq(accepted', (i - 2) * FrameLen + 1,
                                                      (i - 2) * FrameLen + FrameLen),
                                               Ms((i - 2) * FrameLen))
  BY DEF NothingSkipped, Stamped
<1>1. PICK L \in Nat : L = FrameLen
  OBVIOUS
<1>2. PICK m \in Nat : m = Frames(pcm) /\ m # 0
  BY AvailableFrames
<1>3. PICK b \in Nat : b = Leading /\ b # 0
  BY LeadingType
<1>4. PICK t \in Nat : t = Taken /\ t <= Len(accepted)
  BY TakenBound
<1>5. t = (b - 1) * L
  <2>1. CASE audio_tags = <<>>
    <3>1. b = 1 /\ t = 0
      BY <1>3, <1>4, <2>1 DEF Leading, NothingSkipped, Encoded
    <3> QED
      BY <3>1
  <2>2. CASE audio_tags # <<>>
    BY <1>1, <1>3, <1>4, <2>2 DEF Leading, NothingSkipped, Encoded
  <2> QED
    BY <2>1, <2>2
<1>6. /\ Len(audio_tags') = b + m
      /\ \A i \in 1 .. Len(audio_tags) : audio_tags'[i] = audio_tags[i]
      /\ \A i \in 1 .. m : audio_tags'[b + i] = NextTag(pcm, i)
  BY <1>2, <1>3, TagsAdded
<1>7. Taken' = Encoded'
  <2>1. Frames(pcm) \in 0 .. Frames(pcm)
    BY <1>2
  <2>2. Taken' = t + m * L
    BY <1>1, <1>2, <1>4, <2>1, Pushed
  <2>3. PICK c \in Nat : c = b - 1 /\ b + m - 1 = c + m
    BY <1>3
  <2>4. (c + m) * L = c * L + m * L
    OBVIOUS
  <2>5. Encoded' = (b + m - 1) * L
    <3>1. audio_tags' # <<>>
      <4>1. b + m # 0
        BY <1>2, <1>3
      <4> QED
        BY <1>6, <4>1, EmptySeq
    <3> QED
      BY <1>1, <1>6, <3>1 DEF Encoded
  <2> QED
    BY <1>5, <2>2, <2>3, <2>4, <2>5
<1>8. ASSUME NEW i \in 2 .. b + m
      PROVE  audio_tags'[i] = Raw(SubSeq(accepted', (i - 2) * L + 1, (i - 2) * L + L), Ms((i - 2) * L))
  <2>1. PICK c \in Nat, d \in Nat : c = b - 1 /\ d = i - 2
    BY <1>3
  <2>2. PICK k \in Nat : k = d * L
    BY <2>1, Products
  <2>3. CASE i <= b
    <3>1. b = Len(audio_tags) /\ i \in 2 .. Len(audio_tags) /\ i \in 1 .. Len(audio_tags)
      <4>1. b # 1
        BY <2>3
      <4> QED
        BY <1>3, <2>3, <4>1 DEF Leading
    <3>2. Stamped(audio_tags[i], k)
      BY <1>1, <2>1, <2>2, <3>1 DEF NothingSkipped
    <3>3. k + L <= t
      <4>1. d + 1 \in Nat /\ d + 1 <= c
        BY <1>3, <2>1, <2>3
      <4>2. (d + 1) * L <= c * L /\ (d + 1) * L = d * L + L
        BY <4>1, Products
      <4> QED
        BY <1>5, <2>1, <2>2, <4>2
    <3>4. audio_tags[i] = Raw(SubSeq(accepted', k + 1, k + L), Ms(k))
      BY <1>1, <1>4, <3>2, <3>3, OldStamp
    <3> QED
      BY <1>6, <2>1, <2>2, <3>1, <3>4
  <2>4. CASE ~(i <= b)
    <3>1. PICK j \in 1 .. m : j = i - b /\ i = b + j
      BY <1>3, <2>4
    <3>2. PICK e \in Nat : e = j - 1 /\ d = c + e
      BY <1>3, <2>1, <3>1
    <3>3. (c + e) * L = c * L + e * L
      OBVIOUS
    <3>4. k = t + (j - 1) * L
      BY <1>5, <2>1, <2>2, <3>2, <3>3
    <3>5. NextTag(pcm, j) = Raw(SubSeq(accepted', k + 1, k + L), Ms(k))
      BY <1>1, <1>4, <3>4 DEF NextTag
    <3> QED
      BY <1>6, <2>1, <2>2, <3>1, <3>5
  <2> QED
    BY <2>3, <2>4
<1> QED
  BY <1>1, <1>6, <1>7, <1>8

\* A packet that fills no frame, or whose frames are lost.
LEMMA NothingSkippedKept ==
    ASSUME AudioTypes, QueueOK, NEW pcm \in Seq(Nat), accepted' = accepted \o pcm,
           audio_tags \in Seq(AudioTagSet), audio_tags' = audio_tags, NothingSkipped,
           ~encoder_failed' => ~encoder_failed /\ Taken' = Taken
    PROVE  NothingSkipped'
<1> USE TranscoderAssumption
<1> SUFFICES ASSUME ~encoder_failed, Taken' = Taken
             PROVE  /\ Taken = Encoded
                    /\ \A i \in 2 .. Len(audio_tags) :
                          audio_tags[i] = Raw(SubSeq(accepted', (i - 2) * FrameLen + 1,
                                                     (i - 2) * FrameLen + FrameLen),
                                              Ms((i - 2) * FrameLen))
  BY DEF NothingSkipped, Stamped, Encoded
<1>1. PICK L \in Nat : L = FrameLen
  OBVIOUS
<1>2. PICK n \in Nat : n = Len(audio_tags)
  BY LenProperties
<1>3. ASSUME NEW i \in 2 .. n
      PROVE  audio_tags[i] = Raw(SubSeq(accepted', (i - 2) * L + 1, (i - 2) * L + L), Ms((i - 2) * L))
  <2>1. PICK c \in Nat, d \in Nat : c = n - 1 /\ d = i - 2 /\ d + 1 <= c
    <3>1. n - 1 \in Nat /\ i - 2 \in Nat /\ i - 2 + 1 <= n - 1
      OBVIOUS
    <3> QED
      BY <3>1
  <2>2. PICK k \in Nat : k = d * L
    BY <2>1, Products
  <2>3. Stamped(audio_tags[i], k)
    BY <1>1, <1>2, <2>1, <2>2 DEF NothingSkipped
  <2>4. Taken = c * L
    <3>1. audio_tags # <<>>
      <4>1. n # 0
        BY <1>2
      <4> QED
        BY <1>2, <4>1, EmptySeq
    <3> QED
      BY <1>1, <1>2, <2>1, <3>1 DEF NothingSkipped, Encoded
  <2>5. k + L <= Taken
    <3>1. (d + 1) * L <= c * L /\ (d + 1) * L = d * L + L
      BY <2>1, Products
    <3> QED
      BY <2>2, <2>4, <3>1
  <2>6. audio_tags[i] = Raw(SubSeq(accepted', k + 1, k + L), Ms(k))
    BY <1>1, <2>3, <2>5, OldStamp
  <2> QED
    BY <2>1, <2>2, <2>6
<1> QED
  BY <1>1, <1>2, <1>3 DEF NothingSkipped
------------------------------------------------------------------------------
\* The audio path does not step.
LEMMA AudioRests == ASSUME AudioInv, UNCHANGED audio PROVE AudioInv'
<1>1. /\ accepted' = accepted /\ pending' = pending /\ recorded' = recorded /\ seq_sent' = seq_sent
      /\ encoder_failed' = encoder_failed /\ audio_tags' = audio_tags
  BY DEF audio, transcoder
<1>2. Taken' = Taken /\ Encoded' = Encoded
  BY <1>1 DEF Taken, Encoded
<1>3. QueueOK' /\ Numbered' /\ HeaderFirst' /\ audio_tags' \in Seq(AudioTagSet)
  BY <1>1, <1>2 DEF AudioInv, QueueOK, Numbered, HeaderFirst
<1>4. NothingSkipped'
  BY <1>1, <1>2 DEF AudioInv, NothingSkipped, Stamped
<1>5. \E g : PlacesOK(g)'
  <2>1. PICK at : PlacesOK(at)
    BY DEF AudioInv
  <2>2. PlacesOK(at)'
    BY <1>1, <1>2, <2>1 DEF PlacesOK, Stamped
  <2> QED
    BY <2>2
<1> QED
  BY <1>3, <1>4, <1>5 DEF AudioInv

\* A packet from which no tag comes: it is queued, or the encoder fails.
LEMMA Untagged ==
    ASSUME AudioTypes, AudioInv, NEW pcm \in Seq(Nat), accepted' = accepted \o pcm,
           NEW f \in 0 .. Frames(pcm), Push(pcm, f),
           audio_tags' = audio_tags, seq_sent' = seq_sent, Numbered',
           ~encoder_failed' => ~encoder_failed /\ f = 0
    PROVE  AudioInv'
<1> USE TranscoderAssumption
<1>1. QueueOK' /\ Taken' = Taken + f * FrameLen
  BY Pushed DEF AudioInv
<1>2. Frames(pcm) \in Nat
  BY AvailableFrames DEF AudioInv
<1>3. PICK n \in Nat, x \in Nat : n = Taken /\ x = f * FrameLen /\ (f = 0 => x = 0)
  <2>1. Taken \in Nat
    BY TakenBound DEF AudioInv
  <2>2. f \in Nat
    BY <1>2
  <2>3. f * FrameLen \in Nat
    BY <2>2, Products
  <2>4. f = 0 => f * FrameLen = 0
    BY <2>3
  <2> QED
    BY <2>1, <2>3, <2>4
<1>4. n + x \in Nat /\ n <= n + x /\ (x = 0 => n + x = n)
  OBVIOUS
<1>5. Taken' \in Nat /\ Taken <= Taken' /\ (f = 0 => Taken' = Taken)
  BY <1>1, <1>3, <1>4
<1>6. NothingSkipped'
  BY <1>5, NothingSkippedKept DEF AudioInv
<1>7. \E g : PlacesOK(g)'
  <2>1. PICK at : PlacesOK(at)
    BY DEF AudioInv
  <2>2. PlacesOK(at)'
    BY <1>5, <2>1, NoTag DEF AudioInv
  <2> QED
    BY <2>2
<1>8. HeaderFirst' /\ audio_tags' \in Seq(AudioTagSet)
  BY DEF AudioInv, HeaderFirst
<1> QED
  BY <1>1, <1>6, <1>7, <1>8 DEF AudioInv

\* A packet whose frames, at least one, are encoded.
LEMMA Tagged ==
    ASSUME AudioTypes, AudioInv, NEW pcm \in Seq(Nat), accepted' = accepted \o pcm,
           Frames(pcm) # 0, Transcode(pcm), audio_tags' = audio_tags \o AudioTags(pcm),
           Numbered', encoder_failed' = encoder_failed
    PROVE  AudioInv'
<1>1. Frames(pcm) \in Nat /\ Frames(pcm) > 0 /\ Push(pcm, Frames(pcm))
  BY AvailableFrames DEF AudioInv, Transcode
<1>2. QueueOK'
  <2>1. Frames(pcm) \in 0 .. Frames(pcm)
    BY <1>1
  <2> QED
    BY <1>1, <2>1, Pushed DEF AudioInv
<1>3. /\ audio_tags' \in Seq(AudioTagSet) /\ Len(audio_tags') = Leading + Frames(pcm)
      /\ audio_tags'[1] = AacHeader
  BY TagsAdded DEF AudioInv
<1>4. HeaderFirst'
  <2>1. seq_sent'
    BY <1>1 DEF Transcode
  <2>2. audio_tags' # <<>>
    <3>1. Leading \in Nat
      BY LeadingType DEF AudioInv
    <3>2. Leading + Frames(pcm) # 0
      BY <1>1, <3>1
    <3> QED
      BY <1>3, <3>2, EmptySeq
  <2> QED
    BY <1>3, <2>1, <2>2 DEF HeaderFirst
<1>5. NothingSkipped'
  BY <1>1, NothingSkippedAdded DEF AudioInv
<1>6. \E g : PlacesOK(g)'
  <2>1. PICK at : PlacesOK(at)
    BY DEF AudioInv
  <2> QED
    BY <1>1, <2>1, PlacesAdded DEF AudioInv
<1> QED
  BY <1>2, <1>3, <1>4, <1>5, <1>6 DEF AudioInv

\* An audio packet.
LEMMA AudioStep == ASSUME IInv, AudioInv, SendPcm PROVE AudioInv'
<1> USE PipelineAssumption
<1>1. PICK n \in 1 .. MaxPcm :
         /\ LosePcm \/ ReceivePcm([i \in 1 .. n |-> recorded + i])
         /\ recorded' = recorded + n
  BY DEF SendPcm
<1>2. PICK pcm \in Seq(Nat) :
         pcm = [i \in 1 .. n |-> recorded + i] /\ Len(pcm) = n /\ \A i \in 1 .. n : pcm[i] = recorded + i
  <2>1. PICK r \in Nat : r = recorded
    BY InvParts DEF CameraTypes
  <2>2. PICK p : p = [i \in 1 .. n |-> r + i]
    OBVIOUS
  <2>3. n \in Nat /\ p \in [1 .. n -> Nat]
    BY <2>2
  <2>4. p \in Seq(Nat)
    BY <2>3
  <2>5. Len(p) = n /\ \A i \in 1 .. n : p[i] = r + i
    BY <2>2, <2>3, <2>4, LenProperties
  <2> QED
    BY <2>1, <2>2, <2>4, <2>5
<1>3. AudioTypes /\ recorded \in Nat /\ n \in Nat
  BY InvParts DEF CameraTypes
<1>4. CASE LosePcm
  <2>1. /\ accepted' = accepted /\ pending' = pending /\ seq_sent' = seq_sent
        /\ encoder_failed' = encoder_failed /\ audio_tags' = audio_tags
    BY <1>4 DEF LosePcm, transcoder
  <2>2. Taken' = Taken /\ Encoded' = Encoded
    BY <2>1 DEF Taken, Encoded
  <2>3. Numbered'
    <3>1. ASSUME NEW i \in 1 .. Len(accepted)
          PROVE  accepted[i] <= recorded' /\ \A j \in 1 .. i - 1 : accepted[j] < accepted[i]
      <4>1. /\ accepted[i] <= recorded /\ accepted[i] \in Nat
            /\ \A j \in 1 .. i - 1 : accepted[j] < accepted[i]
        BY <1>3, ElementOfSeq DEF AudioInv, Numbered, AudioTypes
      <4> QED
        BY <1>1, <1>3, <4>1
    <3> QED
      BY <2>1, <3>1 DEF Numbered
  <2>4. QueueOK' /\ HeaderFirst' /\ audio_tags' \in Seq(AudioTagSet)
    BY <2>1, <2>2 DEF AudioInv, QueueOK, HeaderFirst
  <2>5. NothingSkipped'
    BY <2>1, <2>2 DEF AudioInv, NothingSkipped, Stamped
  <2>6. \E g : PlacesOK(g)'
    <3>1. PICK at : PlacesOK(at)
      BY DEF AudioInv
    <3>2. PlacesOK(at)'
      BY <2>1, <2>2, <3>1 DEF PlacesOK, Stamped
    <3> QED
      BY <3>2
  <2> QED
    BY <2>3, <2>4, <2>5, <2>6 DEF AudioInv
<1>5. CASE ReceivePcm(pcm)
  <2>1. accepted' = accepted \o pcm
    BY <1>5 DEF ReceivePcm
  <2>2. Numbered'
    BY <1>1, <1>2, <1>3, <2>1, NumberedStep DEF AudioInv
  <2>3. Frames(pcm) \in Nat
    BY <1>3, AvailableFrames DEF AudioInv
  <2>4. CASE Transcode(pcm) /\ audio_tags' = audio_tags \o AudioTags(pcm) /\ UNCHANGED encoder_failed
    <3>1. CASE Frames(pcm) = 0
      <4>1. audio_tags' = audio_tags
        <5>1. AudioTags(pcm) = <<>>
          BY <3>1 DEF AudioTags
        <5> QED
          BY <2>4, <5>1, ConcatEmptySeq DEF AudioInv
      <4>2. seq_sent' = seq_sent
        <5>1. ~(Frames(pcm) > 0)
          BY <3>1
        <5>2. seq_sent \in BOOLEAN /\ seq_sent' = (seq_sent \/ Frames(pcm) > 0)
          BY <1>3, <2>4 DEF Transcode, AudioTypes
        <5> QED
          BY <5>1, <5>2, Zenon
      <4>3. 0 \in 0 .. Frames(pcm) /\ Push(pcm, 0)
        BY <2>3, <2>4, <3>1 DEF Transcode
      <4>4. ~encoder_failed' => ~encoder_failed
        BY <2>4
      <4> QED
        BY <1>3, <2>1, <2>2, <4>1, <4>2, <4>3, <4>4, Untagged
    <3>2. CASE Frames(pcm) # 0
      BY <1>3, <2>1, <2>2, <2>4, <3>2, Tagged
    <3> QED
      BY <3>1, <3>2
  <2>5. CASE /\ \E f \in 1 .. Frames(pcm) : TranscodeFails(pcm, f)
             /\ encoder_failed' = TRUE /\ UNCHANGED audio_tags
    <3>1. PICK f \in 1 .. Frames(pcm) : Push(pcm, f) /\ seq_sent' = seq_sent
      BY <2>5 DEF TranscodeFails
    <3>2. f \in 0 .. Frames(pcm)
      BY <2>3
    <3> QED
      BY <1>3, <2>1, <2>2, <2>5, <3>1, <3>2, Untagged
  <2> QED
    BY <1>5, <2>4, <2>5 DEF ReceivePcm
<1> QED
  BY <1>1, <1>2, <1>4, <1>5

LEMMA InitAudio == Init => AudioInv
<1> SUFFICES ASSUME Init PROVE AudioInv
  OBVIOUS
<1> USE TranscoderAssumption
<1>1. /\ pending = <<>> /\ accepted = <<>> /\ recorded = 0 /\ seq_sent = FALSE
      /\ encoder_failed = FALSE /\ audio_tags = <<>>
  BY DEF Init, TranscoderInit
<1>2. Len(accepted) = 0 /\ Len(pending) = 0 /\ Len(audio_tags) = 0 /\ Taken = 0
  BY <1>1 DEF Taken
<1>3. QueueOK
  <2>1. SubSeq(accepted, 1, 0) = <<>>
    BY SubSeqEmpty
  <2> QED
    BY <1>1, <1>2, <2>1 DEF QueueOK
<1>4. Numbered /\ HeaderFirst /\ audio_tags \in Seq(AudioTagSet)
  BY <1>1, <1>2 DEF Numbered, HeaderFirst
<1>5. NothingSkipped
  BY <1>1, <1>2 DEF NothingSkipped, Encoded
<1>6. PlacesOK(<<>>)
  BY <1>2 DEF PlacesOK
<1> QED
  BY <1>3, <1>4, <1>5, <1>6 DEF AudioInv

LEMMA AudioInvariant == Spec => [](IInv /\ AudioInv)
<1>1. Init => IInv /\ AudioInv
  BY InitInv, InitAudio
<1>2. IInv /\ AudioInv /\ [Next]_vars => (IInv /\ AudioInv)'
  <2> SUFFICES ASSUME IInv, AudioInv, [Next]_vars PROVE AudioInv'
    BY NextInv
  <2>1. CASE SendPcm
    BY <2>1, AudioStep
  <2>2. CASE UNCHANGED audio
    BY <2>2, AudioRests
  <2> QED
    BY <2>1, <2>2 DEF Next, vars
<1> QED
  BY <1>1, <1>2, PTL DEF Spec

\* A frame of accepted samples is at one place only.
LEMMA OnePlace ==
    ASSUME AudioTypes, Numbered,
           NEW k \in 0 .. Len(accepted) - FrameLen, NEW l \in 0 .. Len(accepted) - FrameLen,
           SubSeq(accepted, k + 1, k + FrameLen) = SubSeq(accepted, l + 1, l + FrameLen)
    PROVE  k = l
<1> USE TranscoderAssumption
<1>1. PICK n \in Nat : n = Len(accepted)
  BY LenProperties DEF AudioTypes
<1>2. PICK L \in Nat : L = FrameLen /\ L # 0
  OBVIOUS
<1>3. k \in Nat /\ l \in Nat /\ k + 1 \in 1 .. n /\ l + 1 \in 1 .. n
  BY <1>1, <1>2
<1>4. ASSUME NEW i \in 0 .. n - L PROVE SubSeq(accepted, i + 1, i + L)[1] = accepted[i + 1]
  <2>1. i + 1 \in Int /\ i + L \in Int /\ 1 \in 1 .. (i + L) - (i + 1) + 1 /\ i + 1 + 1 - 1 = i + 1
        /\ \A j \in i + 1 .. i + L : j \in 1 .. n
    BY <1>2
  <2>2. \A j \in i + 1 .. i + L : accepted[j] \in Nat
    BY <1>1, <2>1, ElementOfSeq DEF AudioTypes
  <2>3. SubSeq(accepted, i + 1, i + L)[1] = accepted[i + 1 + 1 - 1]
    BY <2>1, <2>2, SubSeqProperties
  <2> QED
    BY <2>1, <2>3
<1>5. accepted[k + 1] = accepted[l + 1] /\ accepted[k + 1] \in Nat
  <2>1. k \in 0 .. n - L /\ l \in 0 .. n - L
    BY <1>1, <1>2
  <2>2. accepted[k + 1] = accepted[l + 1]
    BY <1>2, <1>4, <2>1
  <2> QED
    BY <1>1, <1>3, <2>2, ElementOfSeq DEF AudioTypes
<1>6. ~(k < l)
  <2> SUFFICES ASSUME k < l PROVE FALSE
    OBVIOUS
  <2>1. k + 1 \in 1 .. (l + 1) - 1
    BY <1>3
  <2> QED
    BY <1>1, <1>3, <1>5, <2>1 DEF Numbered
<1>7. ~(l < k)
  <2> SUFFICES ASSUME l < k PROVE FALSE
    OBVIOUS
  <2>1. l + 1 \in 1 .. (k + 1) - 1
    BY <1>3
  <2> QED
    BY <1>1, <1>3, <1>5, <2>1 DEF Numbered
<1> QED
  BY <1>3, <1>6, <1>7

LEMMA RawFields == ASSUME NEW d, NEW ts PROVE Raw(d, ts).data = d /\ Raw(d, ts).ts = ts
BY DEF Raw

\* Only the first tag is the header.
LEMMA OneHeader ==
    ASSUME AudioInv, NEW i \in 1 .. Len(audio_tags)
    PROVE  (audio_tags[i] = AacHeader) <=> (i = 1)
<1>1. CASE i = 1
  <2>1. Len(audio_tags) # 0
    BY <1>1
  <2>2. audio_tags # <<>>
    BY <2>1
  <2> QED
    BY <1>1, <2>2 DEF AudioInv, HeaderFirst
<1>2. CASE i # 1
  <2>1. i \in 2 .. Len(audio_tags)
    BY <1>2
  <2>2. PICK d, ts : audio_tags[i] = Raw(d, ts)
    BY <2>1 DEF AudioInv, PlacesOK, Stamped
  <2>3. audio_tags[i].tag = "aac" /\ AacHeader.tag = "aac header"
    BY <2>2 DEF Raw, AacHeader
  <2> QED
    BY <1>2, <2>3
<1> QED
  BY <1>1, <1>2

LEMMA TimeTold == IInv /\ AudioInv => TagsTellTheTime
<1> SUFFICES ASSUME IInv, AudioInv, NEW i \in DOMAIN audio_tags, audio_tags[i] # AacHeader
             PROVE  \E k \in Starts(audio_tags[i]) :
                       /\ audio_tags[i].ts = Ms(k)
                       /\ \A j \in 1 .. i - 1 : audio_tags[j] # AacHeader =>
                             \A l \in Starts(audio_tags[j]) : l + FrameLen <= k
  BY DEF TagsTellTheTime
<1> USE TranscoderAssumption
<1>1. PICK at : PlacesOK(at)
  BY DEF AudioInv
<1>2. PICK n \in Nat : n = Len(audio_tags) /\ DOMAIN audio_tags = 1 .. n
  BY LenProperties DEF AudioInv
<1>3. PICK c \in Nat : c = Len(accepted)
  BY InvParts, LenProperties DEF AudioTypes
<1>4. ASSUME NEW j \in 1 .. n, audio_tags[j] # AacHeader
      PROVE  /\ j \in 2 .. n
             /\ at[j] \in Starts(audio_tags[j]) /\ at[j] \in 0 .. c - FrameLen
             /\ audio_tags[j] = Raw(SubSeq(accepted, at[j] + 1, at[j] + FrameLen), Ms(at[j]))
  <2>1. j \in 2 .. n
    <3>1. j # 1
      BY <1>2, <1>4, OneHeader
    <3> QED
      BY <3>1
  <2>2. /\ at[j] \in Nat /\ at[j] + FrameLen <= Taken
        /\ audio_tags[j] = Raw(SubSeq(accepted, at[j] + 1, at[j] + FrameLen), Ms(at[j]))
    BY <1>1, <1>2, <2>1 DEF PlacesOK, Stamped
  <2>3. Taken \in Nat /\ Taken <= c
    BY <1>3, InvParts, TakenBound DEF AudioInv
  <2>4. at[j] \in 0 .. c - FrameLen
    BY <2>2, <2>3
  <2>5. audio_tags[j].data = SubSeq(accepted, at[j] + 1, at[j] + FrameLen)
    <3>1. PICK d, ts : d = SubSeq(accepted, at[j] + 1, at[j] + FrameLen) /\ audio_tags[j] = Raw(d, ts)
      BY <2>2
    <3>2. Raw(d, ts).data = d
      BY RawFields
    <3> QED
      BY <3>1, <3>2
  <2> QED
    BY <1>3, <2>1, <2>2, <2>4, <2>5 DEF Starts
<1>5. i \in 1 .. n
  BY <1>2
<1>6. audio_tags[i].ts = Ms(at[i]) /\ at[i] \in Starts(audio_tags[i])
  BY <1>4, <1>5, RawFields
<1>7. ASSUME NEW j \in 1 .. i - 1, audio_tags[j] # AacHeader, NEW l \in Starts(audio_tags[j])
      PROVE  l + FrameLen <= at[i]
  <2>1. j \in 1 .. n
    BY <1>5
  <2>2. /\ j \in 2 .. n /\ i \in 2 .. n /\ at[j] \in 0 .. c - FrameLen
        /\ audio_tags[j] = Raw(SubSeq(accepted, at[j] + 1, at[j] + FrameLen), Ms(at[j]))
    BY <1>4, <1>5, <1>7, <2>1
  <2>3. l \in 0 .. c - FrameLen /\ audio_tags[j].data = SubSeq(accepted, l + 1, l + FrameLen)
    BY <1>3 DEF Starts
  <2>4. audio_tags[j].data = SubSeq(accepted, at[j] + 1, at[j] + FrameLen)
    <3>1. PICK d, ts : d = SubSeq(accepted, at[j] + 1, at[j] + FrameLen) /\ audio_tags[j] = Raw(d, ts)
      BY <2>2
    <3>2. Raw(d, ts).data = d
      BY RawFields
    <3> QED
      BY <3>1, <3>2
  <2>5. l = at[j]
    BY <1>3, <2>2, <2>3, <2>4, InvParts, OnePlace DEF AudioInv
  <2>6. at[j] + FrameLen <= at[i]
    <3>1. j \in 2 .. i - 1
      BY <2>2
    <3> QED
      BY <1>1, <1>2, <2>2, <3>1 DEF PlacesOK
  <2> QED
    BY <2>5, <2>6
<1> QED
  BY <1>6, <1>7

LEMMA NothingLost == IInv /\ AudioInv => NoSampleIsSkipped
<1> SUFFICES ASSUME IInv, AudioInv PROVE NoSampleIsSkipped
  OBVIOUS
<1> USE TranscoderAssumption
<1>1. \A i \in DOMAIN audio_tags : (audio_tags[i] = AacHeader) <=> (i = 1)
  <2>1. DOMAIN audio_tags = 1 .. Len(audio_tags)
    BY LenProperties DEF AudioInv
  <2> QED
    BY <2>1, OneHeader
<1>2. ASSUME ~encoder_failed
      PROVE  Encoded <= Len(accepted) /\ pending = SubSeq(accepted, Encoded + 1, Len(accepted))
  <2>1. Taken <= Len(accepted) /\ Taken = Encoded
    BY <1>2, InvParts, TakenBound DEF AudioInv, NothingSkipped
  <2> QED
    BY <2>1 DEF AudioInv, QueueOK
<1>3. ASSUME ~encoder_failed, NEW i \in 2 .. Len(audio_tags)
      PROVE  audio_tags[i].data = SubSeq(accepted, (i - 2) * FrameLen + 1, (i - 1) * FrameLen)
  <2>1. Stamped(audio_tags[i], (i - 2) * FrameLen)
    BY <1>3 DEF AudioInv, NothingSkipped
  <2>2. (i - 2) * FrameLen + FrameLen = (i - 1) * FrameLen
    OBVIOUS
  <2> QED
    BY <2>1, <2>2 DEF Stamped, Raw
<1> QED
  BY <1>1, <1>2, <1>3 DEF NoSampleIsSkipped

\* Every audio tag has the time of its samples, for every frame length and rate,
\* whatever is lost and whenever the encoder fails (transcode.rs:81-90).
THEOREM TimeIsTold == Spec => []TagsTellTheTime
<1>1. IInv /\ AudioInv => TagsTellTheTime
  BY TimeTold
<1> QED
  BY <1>1, AudioInvariant, PTL

\* Every accepted sample is in a tag or queued, once, until the encoder fails, and
\* the header comes first and once (transcode.rs:52-62).
THEOREM NothingIsSkipped == Spec => []NoSampleIsSkipped
<1>1. IInv /\ AudioInv => NoSampleIsSkipped
  BY NothingLost
<1> QED
  BY <1>1, AudioInvariant, PTL
------------------------------------------------------------------------------
(***************************************************************************)
(* The video tags.                                                         *)
(***************************************************************************)

VideoTagSet ==
    {Script} \cup [tag : {"header"}, sps : Seq(Fragments), pps : Seq(Fragments)]
             \cup [tag : {"frame"}, data : Seq(Fragments)]

\* x is what the muxer knows of the parameter sets of a type after the NALs s.
Holds(s, type, x) ==
    IF x = NoData THEN \A i \in 1 .. Len(s) : s[i].type # type
    ELSE IsLatest(s, Len(s), type, x)

\* The tags t when the n-th of the NALs s was the first with which both were known.
TagsFrom(s, t, n) ==
    /\ Len(t) = 2 + FramesAmong(s, n, Len(s))
    /\ t[1] = Script
    /\ t[2] = Header(t[2].sps, t[2].pps)
    /\ IsLatest(s, n, "sps", t[2].sps) /\ IsLatest(s, n, "pps", t[2].pps)
    /\ \A i \in n + 1 .. Len(s) :
          ~IsParameter(s[i]) => t[2 + FramesAmong(s, n, i)] = Frame(s[i])

TagsFit(s, t) ==
    /\ ~Known(s, Len(s)) => t = <<>>
    /\ \A n \in 1 .. Len(s) : Known(s, n) /\ ~Known(s, n - 1) => TagsFrom(s, t, n)

MuxInv ==
    /\ tags \in Seq(VideoTagSet)
    /\ Holds(nals, "sps", sps) /\ Holds(nals, "pps", pps)
    /\ initialized <=> sps # NoData /\ pps # NoData
    /\ TagsFit(nals, tags)

\* A NAL more.
LEMMA AppendNal ==
    ASSUME NEW s \in Seq(NalSet), NEW x \in NalSet
    PROVE  /\ Append(s, x) \in Seq(NalSet) /\ Len(Append(s, x)) = Len(s) + 1
           /\ \A i \in 1 .. Len(s) : Append(s, x)[i] = s[i]
           /\ Append(s, x)[Len(s) + 1] = x
BY AppendProperties

\* The muxer keeps the latest parameter set of a type.
LEMMA HoldsOn ==
    ASSUME NEW s \in Seq(NalSet), NEW x \in NalSet, NEW type, NEW d, Holds(s, type, d)
    PROVE  Holds(Append(s, x), type, IF x.type = type THEN x.data ELSE d)
<1>1. PICK l \in Nat : l = Len(s)
  BY LenProperties
<1>2. PICK w : w = Append(s, x) /\ l = Len(s)
  BY <1>1
<1>3. Len(w) = l + 1 /\ (\A i \in 1 .. l : w[i] = s[i]) /\ w[l + 1] = x
  BY <1>2, AppendNal
<1>4. CASE x.type = type
  <2>1. x.data # NoData
    BY PipelineAssumption DEF NalSet
  <2>2. IsLatest(w, l + 1, type, x.data)
    <3>1. l + 1 \in 1 .. l + 1 /\ \A j \in l + 1 + 1 .. l + 1 : FALSE
      OBVIOUS
    <3> QED
      BY <1>3, <1>4, <3>1 DEF IsLatest
  <2> QED
    BY <1>2, <1>3, <1>4, <2>1, <2>2 DEF Holds
<1>5. CASE x.type # type /\ d = NoData
  <2>1. ASSUME NEW i \in 1 .. l + 1 PROVE w[i].type # type
    <3>1. i \in 1 .. l \/ i = l + 1
      OBVIOUS
    <3>2. \A j \in 1 .. l : s[j].type # type
      BY <1>2, <1>5 DEF Holds
    <3> QED
      BY <1>3, <1>5, <3>1, <3>2
  <2> QED
    BY <1>2, <1>3, <1>5, <2>1 DEF Holds
<1>6. CASE x.type # type /\ d # NoData
  <2>1. PICK i \in 1 .. l : s[i].type = type /\ s[i].data = d /\ \A j \in i + 1 .. l : s[j].type # type
    BY <1>2, <1>6 DEF Holds, IsLatest
  <2>2. ASSUME NEW j \in i + 1 .. l + 1 PROVE w[j].type # type
    <3>1. (j \in i + 1 .. l /\ j \in 1 .. l) \/ j = l + 1
      OBVIOUS
    <3> QED
      BY <1>3, <1>6, <2>1, <3>1
  <2>3. i \in 1 .. l + 1 /\ w[i].type = type /\ w[i].data = d
    BY <1>3, <2>1
  <2>4. IsLatest(w, l + 1, type, d)
    BY <2>2, <2>3 DEF IsLatest
  <2> QED
    BY <1>2, <1>3, <1>6, <2>4 DEF Holds
<1> QED
  BY <1>4, <1>5, <1>6

\* The muxer knows both when both have come.
LEMMA HoldsKnown ==
    ASSUME NEW s, NEW d, NEW e, Holds(s, "sps", d), Holds(s, "pps", e)
    PROVE  Known(s, Len(s)) <=> d # NoData /\ e # NoData
BY DEF Holds, Known, IsLatest

LEMMA KnownLater ==
    ASSUME NEW s, NEW m \in Nat, NEW n \in Nat, m <= n, Known(s, m)
    PROVE  Known(s, n)
<1>1. \A i \in 1 .. m : i \in 1 .. n
  OBVIOUS
<1> QED
  BY <1>1 DEF Known

\* What is known of the NALs there are.
LEMMA SameNals ==
    ASSUME NEW s \in Seq(NalSet), NEW x \in NalSet, NEW n \in 0 .. Len(s)
    PROVE  /\ Known(Append(s, x), n) <=> Known(s, n)
           /\ \A type, d : IsLatest(s, n, type, d) => IsLatest(Append(s, x), n, type, d)
<1>1. PICK l \in Nat : l = Len(s)
  BY LenProperties
<1>2. PICK w : w = Append(s, x) /\ l = Len(s)
  BY <1>1
<1>3. \A i \in 1 .. n : w[i] = s[i]
  BY <1>2, AppendNal
<1>4. Known(w, n) <=> Known(s, n)
  BY <1>3 DEF Known
<1>5. ASSUME NEW type, NEW d, IsLatest(s, n, type, d) PROVE IsLatest(w, n, type, d)
  <2>1. PICK i \in 1 .. n : s[i].type = type /\ s[i].data = d /\ \A j \in i + 1 .. n : s[j].type # type
    BY <1>5 DEF IsLatest
  <2>2. \A j \in i + 1 .. n : j \in 1 .. n
    OBVIOUS
  <2> QED
    BY <1>3, <2>1, <2>2 DEF IsLatest
<1> QED
  BY <1>2, <1>4, <1>5

\* The frames among some NALs.
LEMMA FramesBound ==
    ASSUME NEW s, NEW n \in Nat, NEW i \in Nat, NEW k \in Nat, i <= k
    PROVE  /\ FramesAmong(s, n, i) \in Nat /\ FramesAmong(s, n, k) \in Nat
           /\ FramesAmong(s, n, i) <= FramesAmong(s, n, k)
           /\ i <= n => FramesAmong(s, n, i) = 0
<1> DEFINE F(j) == {h \in n + 1 .. j : ~IsParameter(s[h])}
<1>1. IsFiniteSet(n + 1 .. k) /\ F(k) \in SUBSET (n + 1 .. k)
  BY FS_Interval
<1>2. IsFiniteSet(F(k))
  BY <1>1, FS_Subset
<1>3. F(i) \in SUBSET F(k)
  OBVIOUS
<1>4. IsFiniteSet(F(i)) /\ Cardinality(F(i)) <= Cardinality(F(k))
  BY <1>2, <1>3, FS_Subset
<1>5. Cardinality(F(i)) \in Nat /\ Cardinality(F(k)) \in Nat
  BY <1>2, <1>4, FS_CardinalityType
<1>6. ASSUME i <= n PROVE Cardinality(F(i)) = 0
  <2>1. F(i) = {}
    BY <1>6
  <2> QED
    BY <2>1, FS_EmptySet
<1> QED
  BY <1>4, <1>5, <1>6 DEF FramesAmong

LEMMA FramesGrow ==
    ASSUME NEW s \in Seq(NalSet), NEW x \in NalSet, NEW n \in 0 .. Len(s)
    PROVE  /\ \A i \in 0 .. Len(s) : FramesAmong(Append(s, x), n, i) = FramesAmong(s, n, i)
           /\ FramesAmong(Append(s, x), n, Len(s) + 1)
                = FramesAmong(s, n, Len(s)) + (IF IsParameter(x) THEN 0 ELSE 1)
<1>1. PICK l \in Nat : l = Len(s)
  BY LenProperties
<1>2. PICK w : w = Append(s, x) /\ l = Len(s)
  BY <1>1
<1>3. (\A i \in 1 .. l : w[i] = s[i]) /\ w[l + 1] = x
  BY <1>2, AppendNal
<1>4. ASSUME NEW i \in 0 .. l PROVE FramesAmong(w, n, i) = FramesAmong(s, n, i)
  <2>1. \A h \in n + 1 .. i : w[h] = s[h]
    BY <1>2, <1>3
  <2>2. {h \in n + 1 .. i : ~IsParameter(w[h])} = {h \in n + 1 .. i : ~IsParameter(s[h])}
    BY <2>1
  <2> QED
    BY <2>2 DEF FramesAmong
<1>5. PICK F : F = {h \in n + 1 .. l : ~IsParameter(s[h])}
  OBVIOUS
<1>6. PICK G : G = {h \in n + 1 .. l + 1 : ~IsParameter(w[h])}
  OBVIOUS
<1>7. IsFiniteSet(F) /\ Cardinality(F) \in Nat
  <2>1. IsFiniteSet(n + 1 .. l) /\ F \in SUBSET (n + 1 .. l)
    <3>1. n + 1 \in Int /\ l \in Int
      BY <1>2
    <3> QED
      BY <1>5, <3>1, FS_Interval
  <2> QED
    BY <2>1, FS_Subset, FS_CardinalityType
<1>8. /\ FramesAmong(s, n, l) = Cardinality(F)
       /\ FramesAmong(w, n, l + 1) = Cardinality(G)
  BY <1>5, <1>6 DEF FramesAmong
<1>9. n \in Nat /\ n <= l
  BY <1>2
<1>10. \A h \in n + 1 .. l : w[h] = s[h]
  BY <1>3, <1>9
<1>11. CASE IsParameter(x)
  <2>1. ASSUME NEW h PROVE h \in G <=> h \in F
    <3>1. h \in n + 1 .. l + 1 <=> h \in n + 1 .. l \/ h = l + 1
      BY <1>9
    <3>2. h \in n + 1 .. l => (IsParameter(w[h]) <=> IsParameter(s[h]))
      BY <1>10
    <3>3. h = l + 1 => IsParameter(w[h])
      BY <1>3, <1>11
    <3> QED
      BY <1>5, <1>6, <3>1, <3>2, <3>3
  <2>2. G = F
    BY <2>1
  <2> QED
    BY <1>2, <1>4, <1>7, <1>11, <1>8, <2>2
<1>12. CASE ~IsParameter(x)
  <2>1. ASSUME NEW h PROVE h \in G <=> h \in F \/ h = l + 1
    <3>1. h \in n + 1 .. l + 1 <=> h \in n + 1 .. l \/ h = l + 1
      BY <1>9
    <3>2. h \in n + 1 .. l => (IsParameter(w[h]) <=> IsParameter(s[h]))
      BY <1>10
    <3>3. h = l + 1 => ~IsParameter(w[h])
      BY <1>3, <1>12
    <3> QED
      BY <1>5, <1>6, <3>1, <3>2, <3>3
  <2>2. G = F \cup {l + 1}
    BY <2>1
  <2>3. l + 1 \notin F
    <3>1. l + 1 \notin n + 1 .. l
      OBVIOUS
    <3> QED
      BY <1>5, <3>1
  <2>4. Cardinality(G) = Cardinality(F) + 1
    BY <1>7, <2>2, <2>3, FS_AddElement
  <2> QED
    BY <1>2, <1>4, <1>12, <1>8, <2>4
<1> QED
  BY <1>11, <1>12

\* Both parameter sets were known before: a frame is added, or nothing.
LEMMA FitAfter ==
    ASSUME NEW s \in Seq(NalSet), NEW x \in NalSet, NEW t, TagsFit(s, t), Len(t) \in Nat,
           Known(s, Len(s)), NEW u,
           Len(u) = Len(t) + (IF IsParameter(x) THEN 0 ELSE 1),
           \A i \in 1 .. Len(t) : u[i] = t[i],
           ~IsParameter(x) => u[Len(t) + 1] = Frame(x)
    PROVE  TagsFit(Append(s, x), u)
<1>1. PICK l \in Nat : l = Len(s)
  BY LenProperties
<1>2. PICK w : w = Append(s, x) /\ l = Len(s)
  BY <1>1
<1>3. (\A i \in 1 .. l : w[i] = s[i]) /\ w[l + 1] = x /\ Len(w) = l + 1
  BY <1>2, AppendNal
<1>4. Known(w, l + 1) /\ Known(w, l)
  <2>1. l \in 0 .. Len(s)
    BY <1>2
  <2>2. Known(w, l)
    BY <1>2, <2>1, SameNals
  <2> QED
    BY <2>2, KnownLater
<1>5. ASSUME NEW n \in 1 .. l + 1, Known(w, n), ~Known(w, n - 1) PROVE TagsFrom(w, u, n)
  <2>1. n \in 1 .. l /\ n \in 0 .. l /\ n - 1 \in 0 .. l
    <3>1. n # l + 1
      BY <1>4, <1>5
    <3> QED
      BY <3>1
  <2>2. Known(s, n) /\ ~Known(s, n - 1)
    BY <1>2, <1>5, <2>1, SameNals
  <2>3. TagsFrom(s, t, n)
    BY <1>2, <2>1, <2>2 DEF TagsFit
  <2>4. PICK c, e : c = FramesAmong(s, n, l) /\ e = (IF IsParameter(x) THEN 0 ELSE 1)
    OBVIOUS
  <2>5. c \in Nat /\ e \in {0, 1} /\ Len(t) = 2 + c /\ Len(u) = 2 + c + e
    BY <1>2, <2>3, <2>4, FramesBound DEF TagsFrom
  <2>6. FramesAmong(w, n, l + 1) = c + e
    BY <1>2, <2>1, <2>4, FramesGrow
  <2>7. u[1] = t[1] /\ u[2] = t[2]
    <3>1. 1 \in 1 .. Len(t) /\ 2 \in 1 .. Len(t)
      BY <2>5
    <3> QED
      BY <3>1
  <2>8. IsLatest(w, n, "sps", u[2].sps) /\ IsLatest(w, n, "pps", u[2].pps)
    BY <1>2, <2>1, <2>3, <2>7, SameNals DEF TagsFrom
  <2>9. ASSUME NEW i \in n + 1 .. l + 1, ~IsParameter(w[i])
        PROVE  u[2 + FramesAmong(w, n, i)] = Frame(w[i])
    <3>1. CASE i \in n + 1 .. l
      <4>1. i \in 0 .. l /\ i \in 1 .. l /\ i \in Nat /\ i <= l /\ n <= i - 1 /\ n + 1 <= i
        BY <2>1, <3>1
      <4>2. w[i] = s[i] /\ FramesAmong(w, n, i) = FramesAmong(s, n, i)
        BY <1>2, <1>3, <2>1, <4>1, FramesGrow
      <4>3. PICK f \in Nat : f = FramesAmong(s, n, i) /\ f <= c
        BY <2>1, <2>4, <4>1, FramesBound
      <4>4. t[2 + f] = Frame(s[i])
        BY <1>2, <2>3, <2>9, <3>1, <4>2, <4>3 DEF TagsFrom
      <4>5. 2 + f \in 1 .. Len(t)
        BY <2>5, <4>3
      <4> QED
        BY <4>2, <4>3, <4>4, <4>5
    <3>2. CASE i = l + 1
      <4>1. ~IsParameter(x) /\ e = 1
        BY <1>3, <2>4, <2>9, <3>2
      <4>2. 2 + (c + e) = Len(t) + 1
        BY <2>5, <4>1
      <4> QED
        BY <1>3, <2>6, <3>2, <4>1, <4>2
    <3> QED
      BY <2>1, <3>1, <3>2
  <2>10. Len(u) = 2 + FramesAmong(w, n, Len(w))
    BY <1>3, <2>5, <2>6
  <2> QED
    BY <1>3, <2>3, <2>7, <2>8, <2>9, <2>10 DEF TagsFrom
<1> QED
  BY <1>2, <1>3, <1>4, <1>5 DEF TagsFit

\* The first NAL with which both are known.
LEMMA FitFirst ==
    ASSUME NEW s \in Seq(NalSet), NEW x \in NalSet, ~Known(s, Len(s)),
           NEW u, Len(u) = 2, u[1] = Script, NEW a, NEW b, u[2] = Header(a, b),
           Known(Append(s, x), Len(s) + 1),
           IsLatest(Append(s, x), Len(s) + 1, "sps", a), IsLatest(Append(s, x), Len(s) + 1, "pps", b)
    PROVE  TagsFit(Append(s, x), u)
<1>1. PICK l \in Nat : l = Len(s)
  BY LenProperties
<1>2. PICK w : w = Append(s, x) /\ l = Len(s)
  BY <1>1
<1>3. Len(w) = l + 1
  BY <1>2, AppendNal
<1>4. ASSUME NEW n \in 1 .. l + 1, Known(w, n) PROVE TagsFrom(w, u, n)
  <2>1. n = l + 1
    <3> SUFFICES ASSUME n # l + 1 PROVE FALSE
      OBVIOUS
    <3>1. n \in Nat /\ n <= l /\ n \in 0 .. Len(s)
      BY <1>2
    <3>2. Known(s, n)
      BY <1>2, <1>4, <3>1, SameNals
    <3> QED
      BY <1>2, <3>1, <3>2, KnownLater
  <2>2. FramesAmong(w, l + 1, l + 1) = 0
    BY FramesBound
  <2>3. u[2].sps = a /\ u[2].pps = b
    BY DEF Header
  <2>4. l + 1 + 1 .. l + 1 = {}
    OBVIOUS
  <2> QED
    BY <1>2, <1>3, <2>1, <2>2, <2>3, <2>4 DEF TagsFrom
<1> QED
  BY <1>2, <1>3, <1>4 DEF TagsFit

\* Before that there is no tag.
LEMMA FitBefore ==
    ASSUME NEW s \in Seq(NalSet), NEW x \in NalSet, ~Known(Append(s, x), Len(s) + 1)
    PROVE  TagsFit(Append(s, x), <<>>)
<1>1. PICK l \in Nat : l = Len(s)
  BY LenProperties
<1>2. PICK w : w = Append(s, x) /\ l = Len(s)
  BY <1>1
<1>3. Len(w) = l + 1
  BY <1>2, AppendNal
<1>4. ASSUME NEW n \in 1 .. l + 1 PROVE ~Known(w, n)
  BY <1>2, KnownLater
<1> QED
  BY <1>2, <1>3, <1>4 DEF TagsFit

\* A NAL that was parsed.
LEMMA MuxedNal ==
    ASSUME NalTypesOK, MuxInv, NEW x \in NalSet, ProcessNal(x),
           nals' = Append(nals, x), tags' = tags \o Tags(x)
    PROVE  MuxInv'
<1>1. PICK s, t, l : s = nals /\ t = tags /\ l = Len(s)
  OBVIOUS
<1>2. s \in Seq(NalSet) /\ t \in Seq(VideoTagSet) /\ l \in Nat /\ Len(t) \in Nat
  BY <1>1, LenProperties DEF NalTypesOK, MuxInv
<1>3. PICK w : w = Append(s, x) /\ Len(w) = l + 1 /\ w = nals'
  BY <1>1, <1>2, AppendNal
<1>4. PICK d, e, dd, ee : d = sps /\ e = pps /\ dd = Sps(x) /\ ee = Pps(x)
  OBVIOUS
<1>5. sps' = dd /\ pps' = ee /\ initialized' = (initialized \/ Completes(x))
  BY <1>4 DEF ProcessNal
<1>6. Holds(s, "sps", d) /\ Holds(s, "pps", e) /\ TagsFit(s, t)
  BY <1>1, <1>4 DEF MuxInv
<1>7. Holds(w, "sps", dd) /\ Holds(w, "pps", ee)
  <2>1. dd = (IF x.type = "sps" THEN x.data ELSE d) /\ ee = (IF x.type = "pps" THEN x.data ELSE e)
    BY <1>4 DEF Sps, Pps
  <2> QED
    BY <1>2, <1>3, <1>6, <2>1, HoldsOn
<1>8. Known(s, l) <=> d # NoData /\ e # NoData
  BY <1>1, <1>6, HoldsKnown
<1>9. Known(w, l + 1) <=> dd # NoData /\ ee # NoData
  BY <1>3, <1>7, HoldsKnown
<1>10. initialized <=> d # NoData /\ e # NoData
  BY <1>4 DEF MuxInv
<1>11. /\ x.data \in Seq(Fragments) /\ x.data # NoData
       /\ d \in Seq(Fragments) \cup {NoData} /\ e \in Seq(Fragments) \cup {NoData}
  BY <1>4, PipelineAssumption DEF NalSet, NalTypesOK
<1>12. CASE initialized
  <2>1. Known(s, l) /\ dd # NoData /\ ee # NoData /\ ~Completes(x)
    BY <1>4, <1>8, <1>10, <1>11, <1>12 DEF Sps, Pps, Completes
  <2>2. CASE IsParameter(x)
    <3>1. tags' = t
      <4>1. Tags(x) = <<>>
        BY <2>1, <2>2 DEF Tags
      <4> QED
        BY <1>1, <1>2, <4>1, ConcatEmptySeq
    <3>2. TagsFit(w, t)
      <4>1. Len(t) = Len(t) + (IF IsParameter(x) THEN 0 ELSE 1)
        BY <1>2, <2>2
      <4> QED
        BY <1>1, <1>2, <1>3, <1>6, <2>1, <2>2, <4>1, FitAfter
    <3> QED
      BY <1>2, <1>3, <1>5, <1>7, <1>12, <2>1, <3>1, <3>2 DEF MuxInv
  <2>3. CASE ~IsParameter(x)
    <3>1. PICK f : f = <<Frame(x)>>
      OBVIOUS
    <3>2. f \in Seq(VideoTagSet) /\ Len(f) = 1 /\ f[1] = Frame(x)
      <4>1. Frame(x) \in VideoTagSet
        BY <1>11 DEF Frame, VideoTagSet
      <4> QED
        BY <3>1, <4>1
    <3>3. PICK u : u = t \o f
      OBVIOUS
    <3>4. tags' = u
      <4>1. Tags(x) = f
        BY <1>12, <2>1, <2>3, <3>1 DEF Tags
      <4> QED
        BY <1>1, <3>3, <4>1
    <3>5. /\ u \in Seq(VideoTagSet) /\ Len(u) = Len(t) + 1
          /\ \A i \in 1 .. Len(t) : u[i] = t[i]
          /\ u[Len(t) + 1] = Frame(x)
      <4>1. PICK n \in Nat : n = Len(t)
        BY <1>2
      <4>2. /\ u \in Seq(VideoTagSet) /\ Len(u) = n + 1
            /\ \A i \in 1 .. n + 1 : u[i] = IF i <= n THEN t[i] ELSE f[i - n]
        <5>1. /\ t \o f \in Seq(VideoTagSet) /\ Len(t \o f) = Len(t) + Len(f)
              /\ \A i \in 1 .. Len(t) + Len(f) : (t \o f)[i] = IF i <= Len(t) THEN t[i] ELSE f[i - Len(t)]
          BY <1>2, <3>2, ConcatProperties
        <5> QED
          BY <3>2, <3>3, <4>1, <5>1
      <4>3. n + 1 \in 1 .. n + 1 /\ ~(n + 1 <= n) /\ n + 1 - n = 1
        OBVIOUS
      <4>4. u[n + 1] = f[1]
        BY <4>2, <4>3
      <4> QED
        BY <3>2, <4>1, <4>2, <4>4
    <3>6. TagsFit(w, u)
      <4>1. Len(u) = Len(t) + (IF IsParameter(x) THEN 0 ELSE 1)
        BY <2>3, <3>5
      <4> QED
        BY <1>1, <1>2, <1>3, <1>6, <2>1, <3>5, <4>1, FitAfter
    <3> QED
      BY <1>3, <1>5, <1>7, <1>12, <2>1, <3>4, <3>5, <3>6 DEF MuxInv
  <2> QED
    BY <2>2, <2>3
<1>13. CASE ~initialized
  <2>1. ~Known(s, l)
    BY <1>8, <1>10, <1>13
  <2>2. t = <<>>
    BY <1>1, <1>6, <2>1 DEF TagsFit
  <2>3. Completes(x) <=> dd # NoData /\ ee # NoData
    <3>1. ~IsParameter(x) => dd = d /\ ee = e
      BY <1>4 DEF IsParameter, Sps, Pps
    <3> QED
      BY <1>4, <1>10, <1>13, <3>1 DEF Completes
  <2>4. tags' = <<>> \o Tags(x)
    BY <1>1, <2>2
  <2>5. CASE Completes(x)
    <3>1. PICK u : u = <<Script, Header(dd, ee)>> /\ u = Tags(x)
      BY <1>4, <2>5 DEF Tags
    <3>2. dd \in Seq(Fragments) /\ ee \in Seq(Fragments)
      BY <1>4, <1>11, <2>3, <2>5 DEF Sps, Pps
    <3>3. Header(dd, ee) \in VideoTagSet /\ Script \in VideoTagSet
      BY <3>2 DEF Header, VideoTagSet
    <3>4. u \in Seq(VideoTagSet) /\ Len(u) = 2 /\ u[1] = Script /\ u[2] = Header(dd, ee)
      BY <3>1, <3>3
    <3>5. u = tags' /\ u \in Seq(VideoTagSet) /\ Len(u) = 2 /\ u[1] = Script /\ u[2] = Header(dd, ee)
      BY <2>4, <3>1, <3>4, ConcatEmptySeq
    <3>6. IsLatest(w, l + 1, "sps", dd) /\ IsLatest(w, l + 1, "pps", ee)
      BY <1>3, <1>7, <2>3, <2>5 DEF Holds
    <3>7. TagsFit(w, u)
      BY <1>1, <1>2, <1>3, <1>9, <2>1, <2>3, <2>5, <3>5, <3>6, FitFirst
    <3>8. initialized'
      BY <1>5, <2>5
    <3> QED
      BY <1>3, <1>5, <1>7, <2>3, <2>5, <3>5, <3>7, <3>8 DEF MuxInv
  <2>6. CASE ~Completes(x)
    <3>1. tags' = <<>>
      <4>1. Tags(x) = <<>>
        BY <1>13, <2>6 DEF Tags
      <4>2. <<>> \o <<>> = <<>>
        OBVIOUS
      <4> QED
        BY <2>4, <4>1, <4>2
    <3>2. TagsFit(w, <<>>)
      BY <1>1, <1>2, <1>3, <1>9, <2>3, <2>6, FitBefore
    <3>3. ~initialized'
      BY <1>5, <1>13, <2>6
    <3> QED
      BY <1>3, <1>5, <1>7, <2>3, <2>6, <3>1, <3>2, <3>3 DEF MuxInv
  <2> QED
    BY <2>5, <2>6
<1> QED
  BY <1>12, <1>13

LEMMA MuxRests == ASSUME MuxInv, UNCHANGED <<sps, pps, initialized, nals, tags>> PROVE MuxInv'
BY DEF MuxInv

\* A packet that goes through the parser.
LEMMA MuxReceive ==
    ASSUME IInv, nals' \in Seq(NalSet), MuxInv, NEW p, Receive(p)
    PROVE  MuxInv'
<1>1. CASE Parsed(p) = NoNal
  <2>1. UNCHANGED <<sps, pps, initialized, nals, tags>>
    BY <1>1 DEF Receive, muxer
  <2> QED
    BY <2>1, MuxRests
<1>2. CASE Parsed(p) # NoNal
  <2>1. PICK x : x = Parsed(p)
    OBVIOUS
  <2>2. ProcessNal(x) /\ nals' = Append(nals, x) /\ tags' = tags \o Tags(x)
    BY <1>2, <2>1 DEF Receive
  <2>3. PICK l \in Nat : l = Len(nals) /\ nals \in Seq(NalSet)
    BY InvParts, LenProperties DEF NalTypesOK
  <2>4. nals \in Seq(NalSet \cup {x})
    <3>1. nals \in [1 .. l -> NalSet]
      BY <2>3, LenProperties
    <3>2. nals \in [1 .. l -> NalSet \cup {x}]
      BY <3>1
    <3> QED
      BY <2>3, <3>2
  <2>5. Len(nals') = l + 1 /\ nals'[l + 1] = x
    BY <2>2, <2>3, <2>4, AppendProperties
  <2>6. x \in NalSet
    <3>1. l + 1 \in 1 .. Len(nals')
      BY <2>5
    <3> QED
      BY <2>5, <3>1, ElementOfSeq
  <2> QED
    BY <2>2, <2>6, InvParts, MuxedNal
<1> QED
  BY <1>1, <1>2

\* A video packet, whether it is lost or not.
LEMMA MuxStep == ASSUME IInv, nals' \in Seq(NalSet), MuxInv, SendVideo PROVE MuxInv'
<1>1. Lose \/ \E p : Receive(p)
  <2>1. CASE SendSingle
    BY <2>1 DEF SendSingle
  <2>2. CASE SendAggregate
    BY <2>2 DEF SendAggregate
  <2>3. CASE SendStart
    BY <2>3 DEF SendStart
  <2>4. CASE SendFragment
    BY <2>4 DEF SendFragment
  <2> QED
    BY <2>1, <2>2, <2>3, <2>4 DEF SendVideo
<1>2. CASE Lose
  <2>1. UNCHANGED <<sps, pps, initialized, nals, tags>>
    BY <1>2 DEF Lose, muxer
  <2> QED
    BY <2>1, MuxRests
<1>3. CASE \E p : Receive(p)
  BY <1>3, MuxReceive
<1> QED
  BY <1>1, <1>2, <1>3

LEMMA InitMux == Init => MuxInv
<1> SUFFICES ASSUME Init PROVE MuxInv
  OBVIOUS
<1>1. nals = <<>> /\ tags = <<>> /\ sps = NoData /\ pps = NoData /\ initialized = FALSE
  BY DEF Init, MuxerInit
<1>2. Len(nals) = 0
  BY <1>1
<1> QED
  BY <1>1, <1>2 DEF MuxInv, Holds, TagsFit

LEMMA MuxInvariant == Spec => [](IInv /\ MuxInv)
<1>1. Init => IInv /\ MuxInv
  BY InitInv, InitMux
<1>2. IInv /\ MuxInv /\ [Next]_vars => (IInv /\ MuxInv)'
  <2> SUFFICES ASSUME IInv, MuxInv, [Next]_vars PROVE IInv' /\ MuxInv'
    OBVIOUS
  <2>1. IInv'
    BY NextInv
  <2>2. nals' \in Seq(NalSet)
    BY <2>1 DEF IInv, TypeOK, NalSet
  <2>3. CASE SendVideo
    BY <2>1, <2>2, <2>3, MuxStep
  <2>4. CASE UNCHANGED video
    <3>1. UNCHANGED <<sps, pps, initialized, nals, tags>>
      BY <2>4 DEF video, muxer
    <3> QED
      BY <2>1, <3>1, MuxRests
  <2> QED
    BY <2>3, <2>4 DEF Next, vars
<1> QED
  BY <1>1, <1>2, PTL DEF Spec

\* The video tags are the script tag and the header, once, when both parameter sets
\* are known, and every frame after that in order, whatever is lost
\* (flv_muxer.rs:119-180).
THEOREM HeaderFirstThenFrames == Spec => []HeaderThenFrames
<1>1. IInv /\ MuxInv => HeaderThenFrames
  <2> SUFFICES ASSUME IInv, MuxInv PROVE HeaderThenFrames
    OBVIOUS
  <2>1. nals \in Seq(NalSet) /\ DOMAIN nals = 1 .. Len(nals)
    BY InvParts, LenProperties DEF NalTypesOK
  <2> QED
    BY <2>1 DEF MuxInv, TagsFit, TagsFrom, HeaderThenFrames
<1> QED
  BY <1>1, MuxInvariant, PTL
===============================================================================

------------------------------ MODULE TagStream ------------------------------
(***************************************************************************)
(* What a viewer of a live stream is promised (src/src/video/http_flv.rs   *)
(* and the broadcast channel of src/src/video/mod.rs): from the tag after  *)
(* those sent before it joined, the tags of one stream in their order, the *)
(* first with the FLV header.  A tag is skipped only when it is not among  *)
(* the last Capacity ones any more, and a stream that ends has been        *)
(* delivered to its last tag.                                              *)
(* HttpFlv implements this specification with a receiver, a forwarder task *)
(* and a bounded queue per viewer, and with slots that close a stream.     *)
(***************************************************************************)
EXTENDS Naturals, Sequences

CONSTANTS Viewers,   \* those who ask for a stream
          Streams,   \* the streams there may be
          NoStream,  \* the stream of a viewer that has none
          Capacity   \* number of tags that are kept for those who lag

VARIABLES sent,    \* number of tags sent per stream
          closed,  \* the streams to which no tag will be added
          viewer,  \* "outside", "streaming", "left" or "finished"
          stream,  \* the stream a viewer has joined
          joined,  \* tags that had been sent when it did
          view     \* what has been delivered to it

vars == <<sent, closed, viewer, stream, joined, view>>
viewers == <<viewer, stream, joined, view>>

Init ==
    /\ sent = [g \in Streams |-> 0]
    /\ closed = {}
    /\ viewer = [v \in Viewers |-> "outside"]
    /\ stream = [v \in Viewers |-> NoStream]
    /\ joined = [v \in Viewers |-> 0]
    /\ view = [v \in Viewers |-> <<>>]

Send(g) ==
    /\ g \notin closed
    /\ sent' = [sent EXCEPT ![g] = @ + 1]
    /\ UNCHANGED <<closed, viewers>>

Close(g) ==
    /\ g \notin closed
    /\ closed' = closed \cup {g}
    /\ UNCHANGED <<sent, viewers>>

Join(v, g) ==
    /\ viewer[v] = "outside"
    /\ g \notin closed
    /\ viewer' = [viewer EXCEPT ![v] = "streaming"]
    /\ stream' = [stream EXCEPT ![v] = g]
    /\ joined' = [joined EXCEPT ![v] = sent[g]]
    /\ UNCHANGED <<sent, closed, view>>

\* The last tag the viewer knows of.
Latest(v) == IF view[v] = <<>> THEN joined[v] ELSE view[v][Len(view[v])].tag

\* A later tag is delivered; those between are not kept any more.
Deliver(v) ==
    /\ viewer[v] = "streaming"
    /\ \E n \in Latest(v) + 1 .. sent[stream[v]] :
          /\ \A m \in Latest(v) + 1 .. n - 1 : m + Capacity <= sent[stream[v]]
          /\ view' = [view EXCEPT ![v] = Append(@, [flv |-> @ = <<>>, tag |-> n])]
    /\ UNCHANGED <<sent, closed, viewer, stream, joined>>

\* The stream has come to its end, and the viewer with it.
Finish(v) ==
    /\ viewer[v] = "streaming"
    /\ stream[v] \in closed
    /\ Latest(v) = sent[stream[v]]
    /\ viewer' = [viewer EXCEPT ![v] = "finished"]
    /\ UNCHANGED <<sent, closed, stream, joined, view>>

Leave(v) ==
    /\ viewer[v] = "streaming"
    /\ viewer' = [viewer EXCEPT ![v] = "left"]
    /\ UNCHANGED <<sent, closed, stream, joined, view>>

Next ==
    \/ \E g \in Streams : Send(g) \/ Close(g)
    \/ \E v \in Viewers : \/ \E g \in Streams : Join(v, g)
                          \/ Deliver(v) \/ Finish(v) \/ Leave(v)

Spec == Init /\ [][Next]_vars

==============================================================================

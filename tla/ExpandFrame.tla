---------------------------- MODULE ExpandFrame ----------------------------
(***************************************************************************)
(* Expand composed with frame (src/istore/images.go): a frame key written  *)
(* by expand names `?apply=frame&sec=i`, and frame(input, i) decodes the   *)
(* video to the first video frame at or after second i.  One frame request *)
(* is served in one step, beside the Expand requests of module Expand.    *)
(*                                                                         *)
(* The input is the packet stream of libav (through gmf): one video packet *)
(* per frame every FrameStepMs milliseconds up to the duration, a keyframe *)
(* every KeyEvery frames, each followed by a packet of another stream.     *)
(* Timestamps are milliseconds, as frame's `sec*1000` comparison takes.    *)
(***************************************************************************)
EXTENDS Expand

LOCAL INSTANCE SequencesExt

CONSTANTS
  FrameStepMs,   \* milliseconds between two video frames
  KeyEvery,      \* a keyframe every KeyEvery video frames
  DecodeErrors   \* whether the libav calls of frame may fail

ASSUME FrameStepMs \in Nat \ {0} /\ KeyEvery \in Nat \ {0} /\ DecodeErrors \in BOOLEAN

(* The timestamps of the video frames of a video of duration d (in        *)
(* microseconds, as ctx.Duration()): every frame starts before the end.   *)
VideoTs(d) == [k \in 1..((d - 1) \div (1000 * FrameStepMs) + 1) |-> (k - 1) * FrameStepMs]

(* The demuxed packets: each video frame, then a packet of another stream. *)
Packets(d) ==
  FlattenSeq([k \in DOMAIN VideoTs(d) |->
               << [video |-> TRUE, ts |-> VideoTs(d)[k], key |-> (k - 1) % KeyEvery = 0],
                  [video |-> FALSE, ts |-> VideoTs(d)[k], key |-> FALSE] >>])

(* ctx.SeekFrameAt(sec, video stream): the reading resumes at a video      *)
(* keyframe at or before the requested time (AVSEEK_FLAG_BACKWARD).        *)
SeekStarts(d, sec) ==
  { j \in DOMAIN Packets(d) : Packets(d)[j].key /\ Packets(d)[j].ts <= sec * 1000 }

(* A result of frame: a frame (kind `ok`, with its timestamp) or an error. *)
Fail(kind) == [kind |-> kind, ts |-> -1]

\* mutant: the frame must lie strictly after the requested second
ReadyLate(sec, ts) == sec * 1000 < ts

Ready(sec, ts) == sec * 1000 <= ts

(***************************************************************************)
(* The packet loop of frame, as the set of results it may return from the  *)
(* packets after the seek.  GetNextPacket returning nil is the `unexpected *)
(* end of stream`; a packet of another stream returns nil, nil; for a      *)
(* video packet ctx.GetStream and each GetNextFrame may fail, the frame is *)
(* scaled and returned once it is ready, and a packet out of frames        *)
(* returns nil, nil so the loop goes on with the next packet.              *)
(***************************************************************************)
RECURSIVE PacketLoop(_, _)
PacketLoop(pkts, sec) ==
  LET errs == IF DecodeErrors THEN {Fail("error")} ELSE {}
  IN CASE pkts = <<>>           -> {Fail("eos")}
       [] ~Head(pkts).video     -> PacketLoop(Tail(pkts), sec)
       [] Ready(sec, Head(pkts).ts)
                                -> errs \cup {[kind |-> "ok", ts |-> Head(pkts).ts]}
       [] OTHER                 -> errs \cup PacketLoop(Tail(pkts), sec)

(***************************************************************************)
(* frame(input, sec): OpenInput, GetBestStream, SeekFrameAt, FindEncoder,  *)
(* cc.Open and ImgAlloc, any of which may fail, then the packet loop from  *)
(* where the seek left the stream.                                         *)
(***************************************************************************)
FrameResults(d, sec) ==
  (IF DecodeErrors THEN {Fail("error")} ELSE {})
  \cup UNION {PacketLoop(SubSeq(Packets(d), s, Len(Packets(d))), sec) : s \in SeekStarts(d, sec)}

VARIABLE srv   \* the last frame request: the second and duration of the key
               \* served, and the result of frame

allvars == <<vars, srv>>

(* A frame request for a stored key: frame runs on the video of the key   *)
(* and only reads it, so the request is one step.                          *)
ServeFrame(f) ==
  /\ \E r \in FrameResults(f.dur, f.i) : srv' = [i |-> f.i, dur |-> f.dur, result |-> r]
  /\ UNCHANGED vars

InitAll == Init /\ srv = [i |-> 0, dur |-> 1, result |-> Fail("none")]

NextAll == (Next /\ UNCHANGED srv) \/ \E f \in frames : ServeFrame(f)

SpecAll == InitAll /\ [][NextAll]_allvars

-----------------------------------------------------------------------------
(* frame returns the first video frame at or after the requested second,   *)
(* and reports the end of the stream only when the video has none: the     *)
(* seek to an earlier keyframe, the packets of other streams and the       *)
(* frames before the second are all passed over.                           *)
FrameIsFirstAtOrAfter ==
  LET later == {VideoTs(srv.dur)[k] : k \in DOMAIN VideoTs(srv.dur)} \cap {t \in Nat : t >= srv.i * 1000}
  IN /\ srv.result.kind = "eos" => later = {}
     /\ srv.result.kind = "ok" => srv.result.ts = Min(later)

(* Every key expand writes can be served: frame(video, i) for the second i *)
(* of a key (i < int(duration) + 1) finds a frame unless libav fails.      *)
KeysServed ==
  srv.result.kind # "eos"

=============================================================================

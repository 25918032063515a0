---------------------------- MODULE CapturePipeline ----------------------------
(***************************************************************************)
(* The way of the captured frames through in_read of audio/audio_hw.c:     *)
(* read_buf, which get_next_buffer fills one period at a time, the input   *)
(* buffer of the effects, and the effects, which take and give frames as   *)
(* they please.  The three paths of in_read (effects, resampler only,      *)
(* neither) share the buffers, and effects come and go between two calls.  *)
(*                                                                         *)
(* Frames are numbered in the order the driver delivers them.  A call      *)
(* holds the stream's lock throughout, so the other calls of               *)
(* CaptureEffects happen between two calls only; within one, each step is  *)
(* one round of a loop.                                                    *)
(***************************************************************************)
EXTENDS CaptureEffects, SequencesExt

CONSTANTS
    Period,         \* config.period_size, in frames
    Requests,       \* frames asked for by a call
    MaxFrame        \* bound: the driver delivers no frame past this one

ASSUME PipelineAssumption ==
    /\ Period \in Nat \ {0} /\ MaxFrame \in Nat
    /\ Requests \subseteq Nat \ {0}

VARIABLES
    pc,             \* where the call is: "idle", "direct", "read", "fill", "process"
    resampler,      \* in->resampler # NULL
    next_frame,     \* the next frame of the driver
    read_buf,       \* the last period read
    read_buf_frames,
    proc_buf,       \* the first proc_buf_frames frames of proc_buf_in
    proc_buf_size,
    filled,         \* what the running read_frames has copied behind proc_buf
    held,           \* frames inside the effects
    request, out,   \* frames asked for, and those in the caller's buffer
    last,           \* the last frame of the calls before
    lost,           \* later frames that were given up
    bypassed        \* effects were all removed from the running stream, and the
                    \* frames they left behind are still in the buffers

buffer_vars == <<read_buf, read_buf_frames, proc_buf, proc_buf_size, filled>>
frame_vars  == <<pc, resampler, next_frame, buffer_vars, held, request, out, last,
                 lost, bypassed>>
vars == <<effect_vars, frame_vars>>

-----------------------------------------------------------------------------
Frames(a, n) == [i \in 1 .. n |-> a + i - 1]
Smaller(a, b) == IF a < b THEN a ELSE b

\* get_next_buffer: the unread frames are the last read_buf_frames ones.
Unread(buf, n) == SubSeq(buf, Len(buf) - n + 1, Len(buf))

ReadRest == Unread(read_buf, read_buf_frames)

\* The caller gets whatever is in its buffer, also from a call that failed.
Return(frames, given_up) ==
    /\ pc' = "idle"
    /\ out' = <<>>
    /\ last' = IF frames = <<>> THEN last ELSE Last(frames)
    /\ lost' = {f \in lost \cup given_up : f > last'}
    /\ filled' = <<>>
    /\ UNCHANGED <<request, bypassed>>

Init ==
    /\ EffectsInit
    /\ pc = "idle" /\ resampler \in BOOLEAN
    /\ next_frame = 1
    /\ read_buf = <<>> /\ read_buf_frames = 0
    /\ proc_buf = <<>> /\ proc_buf_size = 0 /\ filled = <<>>
    /\ held = <<>> /\ request = 0 /\ out = <<>> /\ last = 0
    /\ lost = {} /\ bypassed = FALSE

\* The path a call takes.  process_frames reloads proc_buf_in only if it holds
\* fewer frames than asked for.
PathOf(frames, kept) ==
    IF num_preprocessors = 0 THEN IF resampler' THEN "read" ELSE "direct"
    ELSE IF Len(kept) < frames THEN "fill" ELSE "process"

\* Mutant of the next definition: the buffer is allocated once.
BugSizeFor(frames, size) == IF size = 0 THEN frames ELSE size

\* proc_buf_in is grown to the request, never shrunk.
SizeFor(frames, size) == IF size < frames THEN frames ELSE size

Begin(frames, kept, size) ==
    /\ pc' = PathOf(frames, kept)
    /\ request' = frames
    /\ proc_buf_size' = IF pc' = "fill" THEN SizeFor(frames, size) ELSE size

\* The end of start_input_stream: what the buffers held is given up.
DropBuffers ==
    /\ read_buf' = <<>> /\ read_buf_frames' = 0
    /\ proc_buf' = <<>>
    /\ lost' = lost \cup Range(ReadRest) \cup Range(proc_buf)

\* in_read on a stream in standby.  A new number of channels recreates the
\* resampler, and the error of that is not looked at.
ReadStarting(frames) ==
    /\ pc = "idle"
    /\ StartInputStream
    /\ resampler' \in {resampler} \cup {resampler /\ ~aux_channels_changed}
    /\ \/ /\ ~standby'
          /\ DropBuffers
          /\ bypassed' = (bypassed /\ held # <<>>)
          /\ last' = IF bypassed = bypassed' THEN last ELSE next_frame - 1
          /\ Begin(frames, <<>>, 0)
       \/ /\ standby'
          /\ UNCHANGED <<pc, request, read_buf, read_buf_frames, proc_buf,
                         proc_buf_size, lost, bypassed, last>>
    /\ UNCHANGED <<next_frame, filled, held, out>>

\* in_read on a running stream.
ReadRunning(frames) ==
    /\ pc = "idle" /\ ~standby
    /\ UNCHANGED resampler
    /\ Begin(frames, proc_buf, proc_buf_size)
    /\ UNCHANGED <<effect_vars, next_frame, read_buf, read_buf_frames, proc_buf,
                   filled, held, out, last, lost, bypassed>>

\* pcm_read of the whole request into the caller's buffer.
ReadDirect ==
    /\ pc = "direct"
    /\ \/ /\ next_frame + request <= MaxFrame + 1
          /\ next_frame' = next_frame + request
          /\ Return(Frames(next_frame, request), {})
       \/ Return(<<>>, {}) /\ UNCHANGED next_frame
    /\ UNCHANGED <<effect_vars, resampler, read_buf, read_buf_frames, proc_buf,
                   proc_buf_size, held>>

-----------------------------------------------------------------------------
\* One round of read_frames: get_next_buffer, the copy and release_buffer.
\* With a resampler the same calls are made on its behalf.
Wanted == IF pc = "read" THEN request - Len(out)
          ELSE request - Len(proc_buf) - Len(filled)

Copied(frames) ==
    IF pc = "read"
    THEN IF Len(out \o frames) = request
         THEN Return(out \o frames, {})
         ELSE /\ out' = out \o frames
              /\ UNCHANGED <<pc, request, filled, last, lost, bypassed>>
    ELSE /\ filled' = filled \o frames
         /\ pc' = IF Len(frames) = Wanted THEN "process" ELSE pc
         /\ UNCHANGED <<request, out, last, lost, bypassed>>

NextBuffer ==
    /\ pc \in {"read", "fill"}
    /\ \E fresh \in BOOLEAN :
          /\ fresh <=> read_buf_frames = 0
          /\ fresh => next_frame + Period <= MaxFrame + 1
          /\ next_frame' = IF fresh THEN next_frame + Period ELSE next_frame
          /\ read_buf' = IF fresh THEN Frames(next_frame, Period) ELSE read_buf
          /\ LET rest == IF fresh THEN Period ELSE read_buf_frames
                 n    == Smaller(Wanted, rest)
             IN  /\ Copied(SubSeq(Unread(read_buf', rest), 1, n))
                 /\ read_buf_frames' = rest - n
    /\ UNCHANGED <<effect_vars, resampler, proc_buf, proc_buf_size, held>>

\* pcm_read fails: process_frames forgets what this read_frames had copied.
ReadFails ==
    /\ pc \in {"read", "fill"} /\ read_buf_frames = 0
    /\ Return(out, Range(filled))
    /\ UNCHANGED <<effect_vars, resampler, next_frame, read_buf, read_buf_frames,
                   proc_buf, proc_buf_size, held>>

\* Mutant of the next definition: what the effects left over is not kept.
BugLeftOverDropped(frames, consumed) == <<>>

\* The end of a round of process_frames: frames not consumed move to the front.
LeftOver(frames, consumed) == SubSeq(frames, consumed + 1, Len(frames))

\* One round of process_frames: the effects consume some of the input and
\* produce, in order, some of what they hold; it may be nothing.
Process ==
    /\ pc = "process"
    /\ LET input == proc_buf \o filled IN
       \E consumed \in 0 .. Len(input) :
       \E produced \in 0 .. Smaller(Len(held) + consumed, request - Len(out)) :
          LET inside == held \o SubSeq(input, 1, consumed)
              frames == out \o SubSeq(inside, 1, produced)
          IN  /\ proc_buf' = LeftOver(input, consumed)
              /\ held' = SubSeq(inside, produced + 1, Len(inside))
              /\ IF Len(frames) = request
                 THEN Return(frames, {}) /\ UNCHANGED proc_buf_size
                 ELSE /\ out' = frames /\ filled' = <<>>
                      /\ Begin(request, proc_buf', proc_buf_size)
                      /\ UNCHANGED <<last, lost, bypassed>>
    /\ UNCHANGED <<effect_vars, resampler, next_frame, read_buf, read_buf_frames>>

\* The calls of CaptureEffects, between two calls of in_read.  The effects
\* start afresh when the first one is enabled.
ControlCall ==
    /\ pc = "idle"
    /\ Control
    /\ held' = IF num_preprocessors' = 0 THEN <<>> ELSE held
    /\ lost' = lost \cup (IF num_preprocessors' = 0 THEN Range(held) ELSE {})
    /\ bypassed' =
          (bypassed \/ (num_preprocessors > 0 /\ num_preprocessors' = 0 /\ ~standby'))
    /\ UNCHANGED <<pc, resampler, next_frame, buffer_vars, request, out, last>>

Next ==
    \/ \E frames \in Requests : ReadStarting(frames) \/ ReadRunning(frames)
    \/ ReadDirect
    \/ NextBuffer
    \/ ReadFails
    \/ Process
    \/ ControlCall

Spec == Init /\ [][Next]_vars

-----------------------------------------------------------------------------
\* All frames read and not yet returned, in the order they will be.
InFlight == out \o held \o proc_buf \o filled \o ReadRest

\* Between the driver and the caller no frame is repeated, none overtakes
\* another and none disappears, over partial reads, refused and partial
\* processing, and errors in the middle: only those a failed read had copied
\* and those in the buffers at a standby are given up.  Removing all effects
\* from a running stream is left out until the next start: it leaves frames in
\* the buffers, which come back, late, when effects are added again.
FramesConserved ==
    ~bypassed =>
        /\ \A i, j \in 1 .. Len(InFlight) : i < j => InFlight[i] < InFlight[j]
        /\ Range(InFlight) = (last + 1 .. next_frame - 1) \ lost

\* read_frames never writes past the end of proc_buf_in, however the requests
\* of the calls change, nor process_frames past the caller's buffer.
BuffersFit ==
    /\ pc = "fill" => Len(proc_buf) + Len(filled) + Wanted <= proc_buf_size
    /\ Len(out) <= request
=============================================================================

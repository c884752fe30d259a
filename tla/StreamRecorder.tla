--------------------------- MODULE StreamRecorder ---------------------------
(***************************************************************************)
(* A recording on its way from the audio thread to a host sink: the two    *)
(* rings of chunks between StreamRecording and StreamConsumer (stream.rs), *)
(* the audio thread's side of a /b_write copy (World::drive_writes) and of *)
(* a DiskOut that a /b_close ends (CloseRecording), and the dispatcher's   *)
(* side, which drains the filled chunks each tick until the recording is   *)
(* finished (StreamDrainer, OscDispatcher::run_pending).                   *)
(*                                                                         *)
(* The audio thread, the NRT thread that drops the retired recording and   *)
(* the host interleave at every ring operation.  A frame is the version of *)
(* the buffer it was copied from and its index; a live input has one       *)
(* version.                                                                *)
(***************************************************************************)
EXTENDS Integers, SequencesExt, FiniteSets

CONSTANTS
    Chunks,        \* chunks in the pool
    ChunkFrames,   \* frames in a chunk
    Frames,        \* frames of the buffer that is copied
    OtherFrames,   \* frames of the buffer that may take its slot
    BlockFrames,   \* live frames per block
    MaxHeard,      \* bound on the live frames
    Replacing,     \* whether the buffer may be replaced
    NoChunk,       \* no chunk
    NrtApart       \* whether Nrt::process runs on a thread of its own

SizesOK ==
    /\ {Chunks, ChunkFrames, BlockFrames} \subseteq Nat \ {0}
    /\ Chunks >= 2 /\ {Frames, OtherFrames, MaxHeard} \subseteq Nat
    /\ {Replacing, NrtApart} \subseteq BOOLEAN

VARIABLES
    mode,        \* "copy" for /b_write, "live" for /b_write leaveOpen and DiskOut
    buffer,      \* the source slot: "original", "other" or "none"
    recording,   \* its Box: on the audio thread ("rt"), in the "trash", or "dropped"
    rt,          \* where the audio thread is
    left,        \* frames left to write in this block
    next,        \* BufferWriteOut.cursor, or the live frames so far
    current,     \* StreamRecording.current, or NoChunk
    filled,      \* chunks on their way to the host
    recycle,     \* the number of empty chunks on their way back
    written,     \* the frames the audio thread put into chunks
    host,        \* where the dispatcher is
    chunk,       \* the chunk it is writing out, or NoChunk
    sink,        \* the frames in the sink
    outcome,     \* what the client was told: "open", "done", "failed" or "freed"
    closing      \* /b_close: "no", "sent" or "applied"

rtVars == <<buffer, rt, left, next, current, written>>
hostVars == <<host, chunk, sink, outcome>>
vars == <<mode, recording, rtVars, hostVars, filled, recycle, closing>>

RingSize == Chunks + 1

(* cue_recording: the whole pool starts as empties. *)
Init ==
    /\ mode \in {"copy", "live"} /\ buffer = "original" /\ recording = "rt"
    /\ rt = "idle" /\ left = 0 /\ next = 0 /\ current = NoChunk
    /\ filled = <<>> /\ recycle = Chunks /\ written = <<>>
    /\ host = "idle" /\ chunk = NoChunk /\ sink = <<>>
    /\ outcome = "open" /\ closing = "no"

Total == IF buffer = "original" THEN Frames ELSE OtherFrames
Smaller(m, n) == IF m < n THEN m ELSE n

-----------------------------------------------------------------------------
(* The audio thread.                                                       *)

(* The recording's Box goes to the trash ring. *)
Retire == recording' = "trash" /\ rt' = "idle"

(* Mutant: a recording nobody drains is kept. *)
StartCopyBlind ==
    /\ mode = "copy" /\ rt = "idle" /\ recording = "rt"
    /\ \/ /\ buffer = "none"
          /\ rt' = "flush" /\ UNCHANGED <<recording, left>>
       \/ /\ buffer # "none"
          /\ rt' = "write" /\ left' = IF Total > next THEN Total - next ELSE 0
          /\ UNCHANGED recording
    /\ UNCHANGED <<mode, buffer, next, current, written, hostVars, filled, recycle, closing>>

(* drive_writes, the start of a block: the copy ends if the host dropped   *)
(* the consumer, and reads the live slot afresh.                           *)
StartCopy ==
    /\ mode = "copy" /\ rt = "idle" /\ recording = "rt"
    /\ \/ /\ outcome # "open"
          /\ Retire /\ UNCHANGED left
       \/ /\ outcome = "open" /\ buffer = "none"
          /\ rt' = "flush" /\ UNCHANGED <<recording, left>>
       \/ /\ outcome = "open" /\ buffer # "none"
          /\ rt' = "write" /\ left' = IF Total > next THEN Total - next ELSE 0
          /\ UNCHANGED recording
    /\ UNCHANGED <<mode, buffer, next, current, written, hostVars, filled, recycle, closing>>

(* DiskOut, the start of a block. *)
StartLive ==
    /\ mode = "live" /\ rt = "idle" /\ recording = "rt" /\ next < MaxHeard
    /\ rt' = "write" /\ left' = BlockFrames
    /\ UNCHANGED <<mode, recording, buffer, next, current, written, hostVars, filled, recycle,
                   closing>>

(* StreamRecording::write: frames go into the current chunk, or into an    *)
(* empty one taken from the recycle ring, until it is full or the block is *)
(* done.  Without one the rest of a live block is lost, and a copy goes on *)
(* in the next block.                                                      *)
Write ==
    /\ rt = "write" /\ left > 0 /\ (current # NoChunk \/ recycle > 0)
    /\ LET had == IF current = NoChunk THEN <<>> ELSE current
           n == Smaller(left, ChunkFrames - Len(had))
           new == [i \in 1..n |-> [of |-> buffer, index |-> next + i - 1]]
       IN /\ current' = had \o new
          /\ written' = written \o new
          /\ next' = next + n /\ left' = left - n
          /\ rt' = IF Len(had) + n = ChunkFrames THEN "push" ELSE "write"
    /\ recycle' = IF current = NoChunk THEN recycle - 1 ELSE recycle
    /\ UNCHANGED <<mode, recording, buffer, hostVars, filled, closing>>

EndWrite ==
    /\ rt = "write" /\ (left = 0 \/ (current = NoChunk /\ recycle = 0))
    /\ next' = IF mode = "live" THEN next + left ELSE next
    /\ rt' = IF mode = "copy" /\ next >= Total THEN "flush" ELSE "idle"
    /\ UNCHANGED <<mode, recording, buffer, left, current, written, hostVars, filled, recycle,
                   closing>>

(* A full chunk is handed over, or overwritten if the ring has no room.    *)
PushChunk ==
    /\ rt = "push"
    /\ IF Len(filled) < RingSize
       THEN filled' = Append(filled, current) /\ current' = NoChunk
       ELSE current' = <<>> /\ UNCHANGED filled
    /\ rt' = "write"
    /\ UNCHANGED <<mode, recording, buffer, left, next, written, hostVars, recycle, closing>>

(* Mutant: the recording is retired with its last frames in the chunk. *)
NoFlush ==
    /\ rt = "flush"
    /\ Retire
    /\ UNCHANGED <<mode, buffer, left, next, current, written, hostVars, filled, recycle, closing>>

(* flush hands a partial chunk over.  A copy whose flush finds the ring    *)
(* full tries again in the next block; a close does not wait.              *)
Flush ==
    /\ rt = "flush"
    /\ IF current \in {NoChunk, <<>>}
       THEN Retire /\ UNCHANGED <<filled, current>>
       ELSE IF Len(filled) < RingSize
            THEN Retire /\ filled' = Append(filled, current) /\ current' = NoChunk
            ELSE /\ IF mode = "live" THEN Retire ELSE rt' = "idle" /\ UNCHANGED recording
                 /\ UNCHANGED <<filled, current>>
    /\ UNCHANGED <<mode, buffer, left, next, written, hostVars, recycle, closing>>

(* CloseRecording, between two blocks, while the slot holds the recording. *)
(* It frees whatever is in the slot: when that is something else, this     *)
(* recording was retired before and has no part in it.                     *)
CloseRecording ==
    /\ mode = "live" /\ rt = "idle" /\ recording = "rt" /\ closing = "sent"
    /\ closing' = "applied" /\ rt' = "flush"
    /\ UNCHANGED <<mode, recording, buffer, left, next, current, written, hostVars, filled,
                   recycle>>

(* The slot of a live recording is freed or taken by another buffer: its   *)
(* partial chunk goes with it.  A failed sink and a /b_free send this.     *)
FreeSlot ==
    /\ mode = "live" /\ rt = "idle" /\ recording = "rt"
    /\ Replacing \/ outcome \in {"failed", "freed"}
    /\ Retire
    /\ UNCHANGED <<mode, buffer, left, next, current, written, hostVars, filled, recycle, closing>>

(* SetBuffer and FreeBuffer on the slot that is copied, and a cue, which   *)
(* leaves no buffer there either.                                          *)
ChangeSlot ==
    /\ mode = "copy" /\ rt = "idle" /\ buffer = "original"
    /\ buffer' \in {"none"} \cup IF Replacing THEN {"other"} ELSE {}
    /\ UNCHANGED <<mode, recording, rt, left, next, current, written, hostVars, filled, recycle,
                   closing>>

-----------------------------------------------------------------------------
(* The NRT thread.                                                         *)

(* Nrt::process drops the recording, which abandons the consumer.          *)
Drop ==
    /\ recording = "trash" /\ (NrtApart \/ host = "idle")
    /\ recording' = "dropped"
    /\ UNCHANGED <<mode, rtVars, hostVars, filled, recycle, closing>>

-----------------------------------------------------------------------------
(* The host: run_pending, once per tick.                                   *)

(* StreamDrainer::drain: chunk by chunk, until none is left. *)
Pop ==
    /\ outcome = "open" /\ host \in {"idle", "drain"} /\ filled # <<>>
    /\ chunk' = Head(filled) /\ filled' = Tail(filled)
    /\ host' = "save"
    /\ UNCHANGED <<mode, recording, rtVars, sink, outcome, recycle, closing>>

(* The sink takes a chunk, or fails: then the drainer is dropped and the   *)
(* client told.                                                            *)
Save ==
    /\ host = "save"
    /\ \/ /\ sink' = sink \o chunk /\ host' = "recycle"
          /\ UNCHANGED <<chunk, outcome>>
       \/ /\ outcome' = "failed" /\ host' = "idle" /\ chunk' = NoChunk
          /\ UNCHANGED sink
    /\ UNCHANGED <<mode, recording, rtVars, filled, recycle, closing>>

(* Mutant: the chunk is not sent back. *)
KeepChunk ==
    /\ host = "recycle"
    /\ chunk' = NoChunk /\ host' = "drain"
    /\ UNCHANGED <<mode, recording, rtVars, sink, outcome, filled, recycle, closing>>

(* StreamConsumer::recycle: the chunk is dropped if the ring is full. *)
Recycle ==
    /\ host = "recycle"
    /\ recycle' = IF recycle < RingSize THEN recycle + 1 ELSE recycle
    /\ chunk' = NoChunk /\ host' = "drain"
    /\ UNCHANGED <<mode, recording, rtVars, sink, outcome, filled, closing>>

(* Nothing is left to drain.  A copy, or a stream being closed, may be     *)
(* finished: is_finished looks at the ring first and at the recording then.*)
Drained ==
    /\ outcome = "open" /\ host \in {"idle", "drain"} /\ filled = <<>>
    /\ host' = IF mode = "copy" \/ closing # "no" THEN "isEmpty" ELSE "idle"
    /\ UNCHANGED <<mode, recording, rtVars, chunk, sink, outcome, filled, recycle, closing>>
IsEmpty ==
    /\ host = "isEmpty"
    /\ host' = IF filled = <<>> THEN "isAbandoned" ELSE "idle"
    /\ UNCHANGED <<mode, recording, rtVars, chunk, sink, outcome, filled, recycle, closing>>

IsAbandoned ==
    /\ host = "isAbandoned"
    /\ outcome' = IF recording = "dropped" THEN "done" ELSE "open"
    /\ host' = "idle"
    /\ UNCHANGED <<mode, recording, rtVars, chunk, sink, filled, recycle, closing>>

(* The sink does not open, before anything is drained or closed. *)
OpenFails ==
    /\ host = "idle" /\ outcome = "open" /\ sink = <<>> /\ closing = "no"
    /\ outcome' = "failed"
    /\ UNCHANGED <<mode, recording, rtVars, host, chunk, sink, filled, recycle, closing>>

(* /b_close sends CloseRecording. *)
RequestClose ==
    /\ mode = "live" /\ host = "idle" /\ outcome = "open" /\ closing = "no"
    /\ closing' = "sent"
    /\ UNCHANGED <<mode, recording, rtVars, hostVars, filled, recycle>>

(* /b_free: the dispatcher forgets a stream, and with it the consumer and  *)
(* close that is under way.                                                *)
ForgetStream ==
    /\ mode = "live" /\ host = "idle" /\ outcome = "open"
    /\ outcome' = "freed"
    /\ UNCHANGED <<mode, recording, rtVars, host, chunk, sink, filled, recycle, closing>>

Audio ==
    StartCopy \/ StartLive \/ Write \/ EndWrite \/ PushChunk \/ Flush \/ CloseRecording
Host == Pop \/ Save \/ Recycle \/ Drained \/ IsEmpty \/ IsAbandoned
Next == Audio \/ FreeSlot \/ ChangeSlot \/ Drop \/ Host \/ OpenFails
        \/ RequestClose \/ ForgetStream

Spec == Init /\ [][Next]_vars

(* The audio callback, the NRT tick and the dispatcher's tick keep coming; *)
(* a tick of the dispatcher ends, and a command is applied between blocks. *)
FairSpec ==
    /\ Spec
    /\ WF_vars(Audio) /\ SF_vars(CloseRecording) /\ SF_vars(Drop)
    /\ WF_vars(Host)

-----------------------------------------------------------------------------
(* Properties.                                                             *)

IsChunk(c) == c = NoChunk \/ Len(c) <= ChunkFrames

(* Type correctness. *)
TypeOK ==
    /\ recording \in {"rt", "trash", "dropped"} /\ buffer \in {"original", "other", "none"}
    /\ rt \in {"idle", "write", "push", "flush"}
    /\ host \in {"idle", "drain", "save", "recycle", "isEmpty", "isAbandoned"}
    /\ left \in Nat /\ next \in Nat /\ recycle \in 0..RingSize
    /\ IsChunk(current) /\ IsChunk(chunk) /\ \A i \in DOMAIN filled : IsChunk(filled[i])

(* The pool is conserved while both ends work: no chunk is lost or made,   *)
(* so neither ring is ever full, no full chunk is overwritten and no chunk *)
(* freed on the audio thread.                                              *)
ChunksConserved ==
    outcome = "open" =>
        recycle + Len(filled) + (IF current = NoChunk THEN 0 ELSE 1)
            + (IF chunk = NoChunk THEN 0 ELSE 1) = Chunks

(* What reaches the sink is what was written, in order and without a gap,  *)
(* with the rest still in the chunks between.                              *)
NothingReordered ==
    outcome = "open" =>
        written = sink
            \o (IF host = "save" THEN chunk ELSE <<>>)
            \o FlattenSeq(filled)
            \o (IF current = NoChunk THEN <<>> ELSE current)

(* The stream between the two threads is intact: its places are in range,  *)
(* its pool whole and its frames in order.                                 *)
StreamIntact == TypeOK /\ ChunksConserved /\ NothingReordered

(* A client that is told /done has all of it: everything the audio thread  *)
(* put into chunks, and the whole buffer if it stayed in its slot          *)
(* (StreamConsumer::is_finished, "every filled chunk has been drained and  *)
(* the RT-side StreamRecording has been dropped").  A live recording whose *)
(* slot was gone before the close loses its last partial chunk.            *)
DoneMeansDelivered ==
    outcome = "done" /\ (mode = "copy" \/ closing = "applied") =>
        /\ sink = written
        /\ mode = "copy" /\ buffer = "original" => Len(sink) = Frames

(* The recording's Box is given up: no retired or failed copy lingers on   *)
(* the audio thread.                                                       *)
RecordingRetired == mode = "copy" ~> recording = "dropped"

(* A copy and a close are answered, one way or the other, unless a /b_free *)
(* takes the stream away.                                                  *)
AlwaysAnswered == mode = "copy" \/ closing = "sent" ~> outcome # "open"
=============================================================================

------------------------------ MODULE StreamingUpload ------------------------------
(***************************************************************************)
(* StreamingUpload: FFmpeg decodes a file while its blocks still arrive.   *)
(* PUT handlers store blocks in a sparse file; range readers serve the     *)
(* file to FFmpeg over loopback and wait for blocks that have not come;    *)
(* decode() runs ffprobe and then ffmpeg; FileService.run polls, and ends  *)
(* with close(), the end of the decoder and dispose(), while DELETE may    *)
(* call close() at any time.                                               *)
(*                                                                         *)
(* One event loop: a step is what happens between two awaits.  mutex is    *)
(* the lock of the condition `changed`, held by a PUT while its thread     *)
(* writes.                                                                 *)
(***************************************************************************)
EXTENDS Naturals

CONSTANTS Blocks, Readers, None,
    MaxAsks     \* bound: blocks one FFmpeg process asks for (its input is a finite file)

VARIABLES
    received,   \* blocks the upload counts as stored
    written,    \* blocks that are in the file
    mutex,      \* None or the block a PUT is writing
    complete, closed,
    silent,     \* 120 seconds have passed since the last block
    reader,     \* [pc, block] of each range reader
    decoder,    \* where decode() is
    process,    \* its FFmpeg process, with the exit code
    asked,      \* blocks that process has asked for
    server,     \* none, open or closed
    closer,     \* where run and DELETE are inside close()
    runner,     \* FileService.run: working, closing, cancelling, disposed
    fd          \* whether the source file is open

vars == <<received, written, mutex, complete, closed, silent, reader, decoder, process, asked,
          server, closer, runner, fd>>

Callers == {"run", "delete"}
NoReader == [pc |-> "none", block |-> None]

TypeOK ==
    /\ received \subseteq Blocks /\ written \subseteq Blocks /\ mutex \in Blocks \cup {None}
    /\ {complete, closed, silent, fd} \subseteq BOOLEAN
    /\ reader \in [Readers -> [pc : {"none", "waiting", "reading", "sending"}, block : Blocks \cup {None}]]
    /\ decoder \in {"none", "probing", "converting", "trailing", "done", "failed"}
    /\ process \in {"none", "running", "ok", "bad"} /\ asked \in 0..MaxAsks
    /\ server \in {"none", "open", "closed"}
    /\ closer \in [Callers -> {"out", "lock", "readers", "done"}]
    /\ runner \in {"working", "closing", "cancelling", "disposed"}

Init ==
    /\ received = {} /\ written = {} /\ mutex = None
    /\ complete = FALSE /\ closed = FALSE /\ silent = FALSE /\ fd = TRUE
    /\ reader = [r \in Readers |-> NoReader]
    /\ decoder = "none" /\ process = "none" /\ asked = 0 /\ server = "none"
    /\ closer = [c \in Callers |-> "out"] /\ runner = "working"

\* check() raises when the upload was closed, or fell silent before it was complete.
BrokenClosed == closed                                      \* Mutant: silence is not noticed
Broken == closed \/ (~complete /\ silent)

\* Everything but the blocks, everything but the readers, ...
Same(readers, decoding, ending) ==
    /\ readers => UNCHANGED <<reader, asked>>
    /\ decoding => UNCHANGED <<decoder, process, server>>
    /\ ending => UNCHANGED <<closed, closer, runner, fd>>
SameBlocks == UNCHANGED <<received, written, mutex, complete, silent>>

-----------------------------------------------------------------------------
(* PUT /chunks/{index} and POST /finish                                    *)

CountedFirst(b) == received' = received \cup {b}            \* Mutant: counted before it is written
Counted(b) == received' = received
Put(b) ==
    /\ ~Broken /\ mutex = None /\ b \notin received
    /\ mutex' = b /\ Counted(b)
    /\ UNCHANGED <<written, complete, silent>> /\ Same(TRUE, TRUE, TRUE)

\* The thread has written: the block counts, and whoever waits is woken.
Stored ==
    /\ mutex # None /\ fd
    /\ received' = received \cup {mutex} /\ written' = written \cup {mutex}
    /\ mutex' = None /\ silent' = FALSE
    /\ UNCHANGED complete /\ Same(TRUE, TRUE, TRUE)

WriteFails ==
    /\ mutex # None /\ mutex' = None
    /\ UNCHANGED <<received, written, complete, silent>> /\ Same(TRUE, TRUE, TRUE)

Finish ==
    /\ mutex = None /\ ~Broken /\ received = Blocks
    /\ complete' = TRUE
    /\ UNCHANGED <<received, written, mutex, silent>> /\ Same(TRUE, TRUE, TRUE)

FallSilent ==
    /\ ~silent /\ silent' = TRUE
    /\ UNCHANGED <<received, written, mutex, complete>> /\ Same(TRUE, TRUE, TRUE)

-----------------------------------------------------------------------------
(* read_http: a connection of FFmpeg asks for blocks one after another     *)

End(r) == reader' = [reader EXCEPT ![r] = NoReader] /\ UNCHANGED asked
Want(r, b) ==
    /\ asked < MaxAsks /\ asked' = asked + 1
    /\ reader' = [reader EXCEPT ![r] = [pc |-> "waiting", block |-> b]]

Connect(r, b) ==
    /\ process = "running" /\ server = "open" /\ reader[r].pc = "none" /\ ~Broken
    /\ Want(r, b)
    /\ SameBlocks /\ Same(FALSE, TRUE, TRUE)

\* wait_for_block wakes up every second at least.
WaitForBlock(r) ==
    /\ reader[r].pc = "waiting" /\ mutex = None
    /\ \/ reader[r].block \in received
          /\ reader' = [reader EXCEPT ![r].pc = "reading"] /\ UNCHANGED asked
       \/ reader[r].block \notin received /\ Broken /\ End(r)
    /\ SameBlocks /\ Same(FALSE, TRUE, TRUE)

\* read_at, in a thread, fails after dispose.
ReadAt(r) ==
    /\ reader[r].pc = "reading"
    /\ \/ fd /\ reader' = [reader EXCEPT ![r].pc = "sending"] /\ UNCHANGED asked
       \/ ~fd /\ End(r)
    /\ SameBlocks /\ Same(FALSE, TRUE, TRUE)

\* The block is sent, or FFmpeg is not there any more; then the next one or the end.
Sent(r) ==
    /\ reader[r].pc = "sending"
    /\ \/ End(r)
       \/ ~Broken /\ process = "running" /\ \E b \in Blocks : Want(r, b)
    /\ SameBlocks /\ Same(FALSE, TRUE, TRUE)

-----------------------------------------------------------------------------
(* decode() and its processes                                              *)

\* The server listens before run polls for the first time.
Decode ==
    /\ decoder = "none" /\ runner = "working"
    /\ server' = "open" /\ decoder' = "probing" /\ process' = "none"
    /\ SameBlocks /\ Same(TRUE, FALSE, TRUE)

\* create_subprocess_exec: until it returns, close() sees no process.
Spawn ==
    /\ decoder \in {"probing", "converting"} /\ process = "none"
    /\ process' = "running" /\ asked' = 0
    /\ UNCHANGED <<reader, decoder, server>> /\ SameBlocks /\ Same(FALSE, FALSE, TRUE)

Exit(code) ==
    /\ process = "running" /\ process' = code
    /\ UNCHANGED <<decoder, server>> /\ SameBlocks /\ Same(TRUE, FALSE, TRUE)

\* command() has waited for the process.  The input may turn out to be no audio or too
\* long, after ffprobe as after ffmpeg.
Reaped ==
    /\ process \in {"ok", "bad"} /\ process' = "none"
    /\ \/ decoder' = "failed"
       \/ process = "ok" /\ decoder' = (IF decoder = "probing" THEN "converting" ELSE "trailing")
    /\ UNCHANGED server /\ SameBlocks /\ Same(TRUE, FALSE, TRUE)

\* Everything is decoded; the last blocks may not be needed for that.
ReturnsDecoded == TRUE                                      \* Mutant: the rest is not awaited
Returns == complete
Trail ==
    /\ decoder = "trailing"
    /\ \/ Returns /\ decoder' = "done"
       \/ ~Returns /\ Broken /\ decoder' = "failed"
    /\ UNCHANGED <<process, server>> /\ SameBlocks /\ Same(TRUE, FALSE, TRUE)

-----------------------------------------------------------------------------
(* close(), FileService.run and DELETE                                     *)

Advance(c, pc) == closer' = [closer EXCEPT ![c] = pc]

\* run returns, because decoder and transcription have ended, the session is deleted
\* (which a poll of alive() notices), or check() or an engine raised.
RunEnds ==
    /\ runner = "working"
    /\ runner' = "closing" /\ Advance("run", "lock")
    /\ UNCHANGED <<closed, fd>> /\ SameBlocks /\ Same(TRUE, TRUE, FALSE)

Delete ==
    /\ closer["delete"] = "out" /\ runner # "disposed"
    /\ Advance("delete", "lock")
    /\ UNCHANGED <<closed, runner, fd>> /\ SameBlocks /\ Same(TRUE, TRUE, FALSE)

\* closed is set under the lock; then a running process is terminated, the server closed.
Close(c) ==
    /\ closer[c] = "lock" /\ mutex = None
    /\ closed' = TRUE /\ Advance(c, "readers")
    /\ process' = IF process = "running" THEN "bad" ELSE process
    /\ server' = IF server = "open" THEN "closed" ELSE server
    /\ UNCHANGED <<decoder, runner, fd>> /\ SameBlocks /\ Same(TRUE, FALSE, FALSE)

\* gather(): the readers that there were have ended.
Closed(c) ==
    /\ closer[c] = "readers" /\ \A r \in Readers : reader[r].pc = "none"
    /\ Advance(c, "done")
    /\ runner' = IF c = "run" THEN "cancelling" ELSE runner
    /\ UNCHANGED <<closed, fd>> /\ SameBlocks /\ Same(TRUE, TRUE, FALSE)

\* decoder.cancel() kills the process; gather awaits the decoder.
CancelDecoder ==
    /\ runner = "cancelling" /\ decoder \notin {"none", "done", "failed"}
    /\ decoder' = "failed" /\ process' = "none"
    /\ UNCHANGED server /\ SameBlocks /\ Same(TRUE, FALSE, TRUE)

DecoderLeft == TRUE                                         \* Mutant: the decoder is not awaited
DecoderEnded == decoder \in {"none", "done", "failed"}
Dispose ==
    /\ runner = "cancelling" /\ DecoderEnded
    /\ runner' = "disposed" /\ fd' = FALSE
    /\ UNCHANGED <<closed, closer>> /\ SameBlocks /\ Same(TRUE, TRUE, FALSE)

-----------------------------------------------------------------------------
ReaderStep(r) == WaitForBlock(r) \/ ReadAt(r) \/ Sent(r)
Next ==
    \/ \E b \in Blocks : Put(b) \/ \E r \in Readers : Connect(r, b)
    \/ Stored \/ WriteFails \/ Finish \/ FallSilent
    \/ \E r \in Readers : ReaderStep(r)
    \/ Decode \/ Spawn \/ Reaped \/ Trail \/ \E code \in {"ok", "bad"} : Exit(code)
    \/ RunEnds \/ Delete \/ \E c \in Callers : Close(c) \/ Closed(c)
    \/ CancelDecoder \/ Dispose

Spec == Init /\ [][Next]_vars

\* What must go on: threads return, time passes, a process that has no reader waiting for
\* it exits, and the poll of run notices that the upload broke or the decoder ended.  The
\* lock of the condition is handed on first come, first served, hence the SF of close().
RunMustEnd == RunEnds /\ (Broken \/ decoder \in {"done", "failed"})
Write == Stored \/ WriteFails
ExitUnserved == (\A r \in Readers : reader[r].pc = "none") /\ \E code \in {"ok", "bad"} : Exit(code)

-----------------------------------------------------------------------------
(* Properties                                                              *)

\* A reader hands FFmpeg only bytes that were stored: a block counts after its write has
\* succeeded, so a failed write or a gap of the sparse file is never taken for audio.
NoGapIsRead ==
    \A r \in Readers : reader[r].pc \in {"reading", "sending"} => reader[r].block \in written

\* A decode that returns has seen the whole upload, also when FFmpeg needed only a part
\* of it and ended before.
DecodedWhole == decoder = "done" => complete /\ written = Blocks

\* When the source file is closed and removed nothing works with it any more: no FFmpeg
\* process, no range reader, no listening server, no write of a block.
QuietAfterDispose ==
    runner = "disposed" =>
        /\ process # "running" /\ server # "open" /\ mutex = None
        /\ \A r \in Readers : reader[r].pc = "none"

\* Every upload comes to an end although FFmpeg waits for blocks that the client may
\* never send and close() waits for the readers of FFmpeg.
Working == runner # "disposed"
UploadEnds == Working ~> ~Working
=============================================================================

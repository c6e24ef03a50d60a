----------------------------- MODULE Image2disk -----------------------------
(***************************************************************************)
(* image2disk: Write (image2disk/image/image.go) copies an HTTP body, maybe *)
(* through a decompressor, onto a device while a goroutine reports the     *)
(* progress; main retries it with exponential backoff.  net/http and       *)
(* cenkalti/backoff are modelled from their use.  An image is a number of  *)
(* chunks; time is the number of waits between attempts.                   *)
(***************************************************************************)
EXTENDS Naturals

CONSTANTS
    Chunks,        \* bound: chunks of the image
    RetryEnabled,  \* RETRY_ENABLED
    MaxElapsed,    \* RETRY_DURATION_MINUTES, in waits; 0 is backoff's "no limit"
    MayCut,        \* whether the body may end early (EOF, ErrUnexpectedEOF)
    MayStall       \* whether the server may go silent

ASSUME Image2diskAssumption ==
    /\ Chunks \in Nat /\ MaxElapsed \in Nat
    /\ {RetryEnabled, MayCut, MayStall} \subseteq BOOLEAN

VARIABLES
    pc,         \* main: its next call
    pos,        \* chunks copied by this attempt
    disk,       \* leading chunks of the device that hold the image
    looping,    \* progress goroutines in their select loop
    stalled,    \* the server is silent
    cancelled,  \* ctx: SIGINT, SIGHUP or SIGTERM arrived
    clock,      \* waits so far, up to one past the limit
    cut         \* history: some body ended before the image did

vars == <<pc, pos, disk, looping, stalled, cancelled, clock, cut>>

TypeOK ==
    /\ pc \in {"get", "open", "copy", "eof", "ioerr", "sync", "retry", "wait", "ok", "fail"}
    /\ pos \in 0..Chunks /\ disk \in 0..Chunks
    /\ looping \in Nat
    /\ stalled \in BOOLEAN /\ cancelled \in BOOLEAN /\ cut \in BOOLEAN
    /\ clock \in 0..(MaxElapsed + 1)

Init == /\ pc = "get" /\ pos = 0 /\ disk = 0 /\ looping = 0
        /\ stalled = FALSE /\ cancelled = FALSE /\ clock = 0 /\ cut = FALSE

-----------------------------------------------------------------------------
(* One attempt: Write.                                                     *)

\* Mutant: the request does not carry the context.
GetWithoutContext ==
    /\ pc = "get" /\ ~stalled /\ pc' \in {"open", "retry"} /\ pos' = 0
    /\ UNCHANGED <<disk, looping, stalled, cancelled, clock, cut>>

\* client.Do: an answer, or an error or an error status.
Get ==
    /\ pc = "get"
    /\ \/ ~stalled /\ ~cancelled /\ pc' = "open"
       \/ ~stalled /\ pc' = "retry"
       \/ cancelled /\ pc' = "retry"
    /\ pos' = 0
    /\ UNCHANGED <<disk, looping, stalled, cancelled, clock, cut>>

\* The device and the decompressor; then the progress goroutine starts.  Its
\* ticker panics at an interval that is not positive (image.go:134), which
\* PROGRESS_INTERVAL_SECONDS is taken not to be.
Open ==
    /\ pc = "open"
    /\ \/ pc' = "copy" /\ looping' = looping + 1
       \/ pc' = "retry" /\ UNCHANGED looping
    /\ UNCHANGED <<pos, disk, stalled, cancelled, clock, cut>>

\* Mutant: the device is opened with O_TRUNC, and attempts start anew.
CopyChunkAnew ==
    /\ pc = "copy" /\ pos < Chunks /\ ~stalled /\ ~cancelled
    /\ pos' = pos + 1 /\ disk' = pos + 1
    /\ UNCHANGED <<pc, looping, stalled, cancelled, clock, cut>>

CopyChunk ==
    /\ pc = "copy" /\ pos < Chunks /\ ~stalled /\ ~cancelled
    /\ pos' = pos + 1
    /\ disk' = IF disk < pos + 1 THEN pos + 1 ELSE disk
    /\ UNCHANGED <<pc, looping, stalled, cancelled, clock, cut>>

\* io.Copy ends with an EOF, which Progress.Read has wrapped: an error to
\* io.Copy, ignored by Write, and so is ErrUnexpectedEOF.
CopyEnds ==
    /\ pc = "copy" /\ (pos = Chunks \/ (MayCut /\ ~stalled))
    /\ pc' = "eof"
    /\ cut' = (cut \/ pos < Chunks)
    /\ UNCHANGED <<pos, disk, looping, stalled, cancelled, clock>>

\* Mutant: the error return forgets the goroutine.
CopyFailsLeaks ==
    /\ pc = "copy" /\ (~stalled \/ cancelled) /\ pc' = "retry"
    /\ UNCHANGED <<pos, disk, looping, stalled, cancelled, clock, cut>>

\* Any other error: a reset connection, a failed write, a cancelled context.
CopyFails ==
    /\ pc = "copy" /\ (~stalled \/ cancelled)
    /\ pc' = "ioerr"
    /\ UNCHANGED <<pos, disk, looping, stalled, cancelled, clock, cut>>

\* ticker.Stop(), and done <- true meets the goroutine's select.
Handshake ==
    /\ pc \in {"eof", "ioerr"} /\ looping > 0
    /\ looping' = looping - 1
    /\ pc' = IF pc = "eof" THEN "sync" ELSE "retry"
    /\ UNCHANGED <<pos, disk, stalled, cancelled, clock, cut>>

Sync ==
    /\ pc = "sync" /\ pc' \in {"ok", "retry"}
    /\ UNCHANGED <<pos, disk, looping, stalled, cancelled, clock, cut>>

-----------------------------------------------------------------------------
(* main.                                                                   *)

\* Mutant: the time limit is not passed to backoff.
MayRetryForEver == RetryEnabled /\ ~cancelled

\* NextBackOff: Stop when the context is done or the time is over.
MayRetry == RetryEnabled /\ ~cancelled /\ (MaxElapsed = 0 \/ clock <= MaxElapsed)

RetryNotify ==
    /\ pc = "retry"
    /\ pc' = IF MayRetry THEN "wait" ELSE "fail"
    /\ UNCHANGED <<pos, disk, looping, stalled, cancelled, clock, cut>>

\* The backoff interval, which a done context cuts short.
Wait ==
    /\ pc = "wait"
    /\ pc' = IF cancelled THEN "fail" ELSE "get"
    /\ clock' = IF clock <= MaxElapsed THEN clock + 1 ELSE clock
    /\ UNCHANGED <<pos, disk, looping, stalled, cancelled, cut>>

-----------------------------------------------------------------------------
(* The world.                                                              *)

Stall ==
    /\ MayStall /\ ~stalled /\ pc \in {"get", "copy"} /\ stalled' = TRUE
    /\ UNCHANGED <<pc, pos, disk, looping, cancelled, clock, cut>>

Signal ==
    /\ ~cancelled /\ pc \notin {"ok", "fail"} /\ cancelled' = TRUE
    /\ UNCHANGED <<pc, pos, disk, looping, stalled, clock, cut>>

Main == \/ Get \/ Open \/ CopyChunk \/ CopyEnds \/ CopyFails \/ Handshake \/ Sync
        \/ RetryNotify \/ Wait

Next == Main \/ Stall \/ Signal

\* The process and a server that is not silent go on; no signal is owed.
Spec == Init /\ [][Next]_vars /\ WF_vars(Main)

-----------------------------------------------------------------------------
(* Properties.                                                             *)

\* Attempts do not leave progress goroutines behind: each one that was started
\* has met its done signal before the next attempt or the end.
NoGoroutineLeft == pc \notin {"copy", "eof", "ioerr"} => looping = 0

\* README: the action retries "for the duration specified" and then fails; only
\* a server that goes silent, on which no timeout is set, can hold it up.
EndsUnlessStalled == <>stalled \/ <>(pc \in {"ok", "fail"})

\* A signal ends the action even where nothing else would: in front of a
\* silent server.
SignalEnds == cancelled ~> pc \in {"ok", "fail"}

\* The promise of a transfer.  What goes unnoticed is a body that ended early,
\* which Write takes for the end of the image.
Promise == INSTANCE Transfer WITH
    Whole <- Chunks,
    have <- disk,
    flawed <- cut,
    result <- CASE pc = "ok" -> "success" [] pc = "fail" -> "failure" [] OTHER -> "running"

\* Write and its retries keep it step by step.  main.go "Successfully wrote image
\* to disk": the device then holds every chunk, also after attempts that failed
\* at any point; an attempt never takes away what an earlier one wrote, and
\* after the result nothing is written.
KeepsPromise == Promise!Spec
=============================================================================

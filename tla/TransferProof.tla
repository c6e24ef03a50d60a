---------------------------- MODULE TransferProof ----------------------------
(***************************************************************************)
(* The two streams that implement Transfer.                                *)
(*                                                                         *)
(* For every image, time limit and environment: image2disk leaves no       *)
(* progress goroutine behind and keeps the promise of a transfer.  Both    *)
(* follow from where an attempt is: what it has copied is on the device    *)
(* (Written), it ends with the whole image or a body that was cut (Ended), *)
(* and its goroutine runs from Open to the handshake (Counted).            *)
(*                                                                         *)
(* For every disk, with and without compression, and whatever the disk,    *)
(* the connection and the server do, silence included: a slurp that reports success has sent *)
(* the whole body, and one that has its result sends nothing of the image  *)
(* any more.  The argument: until the pipe breaks, the transport has taken *)
(* what the goroutine has written so far (Position); client.Do returns     *)
(* early only when the connection is gone (Answered); and the goroutine    *)
(* leaves without an error only after mwriter.Close went into the pipe,    *)
(* which is the end of the body (Finished).                                *)
(*                                                                         *)
(* Of both: no behaviour is infinite, and who can hold it up before the    *)
(* end.                                                                    *)
(***************************************************************************)
EXTENDS Image2disk, Slurp, TLAPS

-----------------------------------------------------------------------------
(* image2disk.                                                             *)

\* An attempt starts at offset 0 of a device that is not truncated.
Written == pos <= disk

Ended == pc \in {"eof", "sync", "ok"} => pos = Chunks \/ cut

Counted == looping = IF pc \in {"copy", "eof", "ioerr"} THEN 1 ELSE 0

IInv == TypeOK /\ Written /\ Ended /\ Counted

-----------------------------------------------------------------------------
\* Nothing is copied before the first attempt.
LEMMA InitIInv == Init => IInv
  <1> SUFFICES ASSUME Init PROVE IInv
    OBVIOUS
  <1>1. stalled \in BOOLEAN /\ cancelled \in BOOLEAN /\ cut \in BOOLEAN
    BY DEF Init
  <1>2. pos \in 0..Chunks /\ disk \in 0..Chunks /\ clock \in 0..(MaxElapsed + 1)
    BY Image2diskAssumption DEF Init
  <1>3. looping \in Nat /\ Written /\ Ended /\ Counted
    BY DEF Init, Written, Ended, Counted
  <1> QED
    BY <1>1, <1>2, <1>3 DEF Init, IInv, TypeOK

\* Every action keeps the types.
LEMMA TypeStep == TypeOK /\ Counted /\ [Next]_vars => TypeOK'
  <1> SUFFICES ASSUME TypeOK, Counted, [Next]_vars PROVE TypeOK'
    OBVIOUS
  <1> USE Image2diskAssumption DEF TypeOK
  <1>1. CASE Get
    BY <1>1 DEF Get
  <1>2. CASE Open
    BY <1>2 DEF Open
  <1>3. CASE CopyChunk
    BY <1>3 DEF CopyChunk
  <1>4. CASE CopyEnds
    BY <1>4 DEF CopyEnds
  <1>5. CASE CopyFails
    BY <1>5 DEF CopyFails
  <1>6. CASE Handshake
    BY <1>6 DEF Handshake
  <1>7. CASE Sync
    BY <1>7 DEF Sync
  <1>8. CASE RetryNotify
    BY <1>8 DEF RetryNotify
  <1>9. CASE Wait
    BY <1>9 DEF Wait
  <1>10. CASE Stall
    BY <1>10 DEF Stall
  <1>11. CASE Signal
    BY <1>11 DEF Signal
  <1>12. CASE UNCHANGED vars
    BY <1>12 DEF vars
  <1> QED
    BY <1>1, <1>2, <1>3, <1>4, <1>5, <1>6, <1>7, <1>8, <1>9, <1>10, <1>11, <1>12 DEF Next, Main

\* ... and what ties the attempt to the device and to its goroutine.
LEMMA StepIInv == IInv /\ [Next]_vars => IInv'
  <1> SUFFICES ASSUME IInv, [Next]_vars PROVE Written' /\ Ended' /\ Counted'
    BY TypeStep DEF IInv
  <1> USE Image2diskAssumption DEF IInv, TypeOK, Written, Ended, Counted
  <1>1. CASE Get
    BY <1>1 DEF Get
  <1>2. CASE Open
    BY <1>2 DEF Open
  <1>3. CASE CopyChunk
    BY <1>3 DEF CopyChunk
  <1>4. CASE CopyEnds
    BY <1>4 DEF CopyEnds
  <1>5. CASE CopyFails
    BY <1>5 DEF CopyFails
  <1>6. CASE Handshake
    BY <1>6 DEF Handshake
  <1>7. CASE Sync
    BY <1>7 DEF Sync
  <1>8. CASE RetryNotify
    BY <1>8 DEF RetryNotify
  <1>9. CASE Wait
    BY <1>9 DEF Wait
  <1>10. CASE Stall
    BY <1>10 DEF Stall
  <1>11. CASE Signal
    BY <1>11 DEF Signal
  <1>12. CASE UNCHANGED vars
    BY <1>12 DEF vars
  <1> QED
    BY <1>1, <1>2, <1>3, <1>4, <1>5, <1>6, <1>7, <1>8, <1>9, <1>10, <1>11, <1>12 DEF Next, Main

\* The picture of an attempt is true at every moment.
THEOREM Invariance == Spec => []IInv
  BY InitIInv, StepIInv, PTL DEF Spec

\* Every variable keeps its type: clock and pos stay within their bounds.
THEOREM TypeCorrect == Spec => []TypeOK
  <1>1. IInv => TypeOK
    BY DEF IInv
  <1> QED
    BY Invariance, <1>1, PTL

\* NoGoroutineLeft: each attempt, however it ends, meets the goroutine that it
\* has started.
THEOREM GoroutinesMet == Spec => []NoGoroutineLeft
  <1>1. IInv => NoGoroutineLeft
    BY DEF IInv, Counted, NoGoroutineLeft
  <1> QED
    BY Invariance, <1>1, PTL

-----------------------------------------------------------------------------
(* The promise.                                                            *)

\* An attempt at its start is a transfer at its start.
LEMMA InitPromise == Init => Promise!Init
  BY DEF Init, Promise!Init

\* An action that neither writes, nor meets a body that was cut, nor ends the
\* process is a step that the promise does not see.
LEMMA Unseen ==
    ASSUME UNCHANGED <<disk, cut>>, pc' = pc \/ {pc, pc'} \cap {"ok", "fail"} = {}
    PROVE  UNCHANGED Promise!vars
  BY DEF Promise!vars

\* Every step is a step of the promise, or one that it does not see.
LEMMA StepPromise == IInv /\ [Next]_vars => [Promise!Next]_Promise!vars
  <1> SUFFICES ASSUME IInv, [Next]_vars PROVE [Promise!Next]_Promise!vars
    OBVIOUS
  <1> USE Image2diskAssumption DEF IInv, TypeOK
  <1>1. CASE Get \/ Open \/ CopyFails \/ Handshake
    BY <1>1, Unseen DEF Get, Open, CopyFails, Handshake
  <1>2. CASE CopyChunk
    <2>1. pc = "copy" /\ pc' = pc /\ cut' = cut
      BY <1>2 DEF CopyChunk
    <2>2. CASE disk' = disk
      BY <2>1, <2>2, Unseen
    <2>3. CASE disk' # disk
      <3>1. disk < Chunks /\ disk' = disk + 1
        BY <1>2, <2>3 DEF CopyChunk, Written
      <3>2. Promise!Advance
        BY <2>1, <3>1 DEF Promise!Advance
      <3> QED
        BY <3>2 DEF Promise!Next
    <2> QED
      BY <2>2, <2>3
  <1>3. CASE CopyEnds
    <2>1. pc = "copy" /\ pc' = "eof" /\ disk' = disk
      BY <1>3 DEF CopyEnds
    <2>2. CASE cut' = cut
      BY <2>1, <2>2, Unseen
    <2>3. CASE cut' # cut
      <3>1. cut' = TRUE
        BY <1>3, <2>3 DEF CopyEnds
      <3>2. Promise!Spoil
        BY <2>1, <3>1 DEF Promise!Spoil
      <3> QED
        BY <3>2 DEF Promise!Next
    <2> QED
      BY <2>2, <2>3
  <1>4. CASE Sync
    <2>1. CASE pc' = "ok"
      <3>1. disk = Chunks \/ cut
        BY <1>4 DEF Sync, Written, Ended
      <3>2. Promise!Succeed
        BY <1>4, <2>1, <3>1 DEF Sync, Promise!Succeed
      <3> QED
        BY <3>2 DEF Promise!Next
    <2>2. CASE pc' # "ok"
      BY <1>4, <2>2, Unseen DEF Sync
    <2> QED
      BY <2>1, <2>2
  <1>5. CASE RetryNotify \/ Wait
    <2>1. /\ pc \in {"retry", "wait"} /\ pc' \in {"wait", "get", "fail"}
          /\ UNCHANGED <<disk, cut>>
      BY <1>5 DEF RetryNotify, Wait
    <2>2. CASE pc' = "fail"
      <3>1. Promise!Fail
        BY <2>1, <2>2 DEF Promise!Fail
      <3> QED
        BY <3>1 DEF Promise!Next
    <2>3. CASE pc' # "fail"
      BY <2>1, <2>3, Unseen
    <2> QED
      BY <2>2, <2>3
  <1>6. CASE Stall \/ Signal \/ UNCHANGED vars
    BY <1>6, Unseen DEF Stall, Signal, vars
  <1> QED
    BY <1>1, <1>2, <1>3, <1>4, <1>5, <1>6 DEF Next, Main

\* KeepsPromise: image2disk and its retries implement the transfer.
THEOREM PromiseKept == Spec => KeepsPromise
  BY InitPromise, Invariance, StepPromise, PTL DEF Spec, KeepsPromise, Promise!Spec

-----------------------------------------------------------------------------
(* The end of image2disk.  The liveness properties need fairness, which is *)
(* checked and not proved; the two facts they rest on are steps and states.*)

One(b) == IF b THEN 1 ELSE 0

\* Calls that are left until the next wait, at most, and events that may still
\* come from outside.
CallsOfAttempt ==
    CASE pc = "get" -> Chunks + 8
      [] pc = "open" -> Chunks + 7
      [] pc = "copy" -> Chunks - pos + 6
      [] pc \in {"eof", "ioerr"} -> 5
      [] pc = "sync" -> 4
      [] pc = "retry" -> 3
      [] pc = "wait" -> 2
      [] OTHER -> 1

AttemptLeft == CallsOfAttempt + One(~stalled) + One(~cancelled)

\* The next wait, or one call less.
AttemptShrinks == \/ clock' = clock + 1
                  \/ clock' = clock /\ AttemptLeft' < AttemptLeft

\* With a time limit, backoff waits only as long as there is time left.
Paced == pc = "wait" => MaxElapsed = 0 \/ clock <= MaxElapsed

\* main's next call can be made.
MainReady ==
    CASE pc \in {"get", "copy"} -> ~stalled \/ cancelled
      [] pc \in {"eof", "ioerr"} -> looping > 0
      [] OTHER -> pc \notin {"ok", "fail"}

\* The count of calls is one: it cannot shrink for ever.
LEMMA AttemptCount == TypeOK => AttemptLeft \in 0..(Chunks + 10)
  <1> SUFFICES ASSUME TypeOK PROVE AttemptLeft \in 0..(Chunks + 10)
    OBVIOUS
  <1>1. CallsOfAttempt \in 1..(Chunks + 8)
    BY Image2diskAssumption DEF TypeOK, CallsOfAttempt
  <1>2. One(~stalled) \in 0..1 /\ One(~cancelled) \in 0..1
    BY DEF One
  <1> QED
    BY <1>1, <1>2, Image2diskAssumption DEF AttemptLeft

\* Backoff and its limit, step by step.
LEMMA PacedStep == Paced /\ [Next]_vars => Paced'
  <1> SUFFICES ASSUME Paced, [Next]_vars PROVE Paced'
    OBVIOUS
  <1>1. CASE RetryNotify
    BY <1>1 DEF RetryNotify, MayRetry, Paced
  <1>2. CASE Get \/ Open \/ CopyChunk \/ CopyEnds \/ CopyFails \/ Handshake \/ Sync
    BY <1>2 DEF Get, Open, CopyChunk, CopyEnds, CopyFails, Handshake, Sync, Paced
  <1>3. CASE Wait
    BY <1>3 DEF Wait, Paced
  <1>4. CASE Stall \/ Signal \/ UNCHANGED vars
    BY <1>4 DEF Stall, Signal, vars, Paced
  <1> QED
    BY <1>1, <1>2, <1>3, <1>4 DEF Next, Main

\* Every step brings the next wait nearer, or is one.
LEMMA AttemptStep ==
    ASSUME MaxElapsed # 0, TypeOK, TypeOK', Paced, Next
    PROVE  AttemptShrinks
  <1> USE Image2diskAssumption DEF TypeOK, AttemptShrinks, AttemptLeft, CallsOfAttempt, One
  <1>1. CASE Get
    BY <1>1 DEF Get
  <1>2. CASE Open
    BY <1>2 DEF Open
  <1>3. CASE CopyChunk
    BY <1>3 DEF CopyChunk
  <1>4. CASE CopyEnds
    BY <1>4 DEF CopyEnds
  <1>5. CASE CopyFails
    BY <1>5 DEF CopyFails
  <1>6. CASE Handshake
    BY <1>6 DEF Handshake
  <1>7. CASE Sync
    BY <1>7 DEF Sync
  <1>8. CASE RetryNotify
    BY <1>8 DEF RetryNotify
  <1>9. CASE Wait
    BY <1>9 DEF Wait, Paced
  <1>10. CASE Stall
    BY <1>10 DEF Stall
  <1>11. CASE Signal
    BY <1>11 DEF Signal
  <1> QED
    BY <1>1, <1>2, <1>3, <1>4, <1>5, <1>6, <1>7, <1>8, <1>9, <1>10, <1>11 DEF Next, Main

\* The safety half of EndsUnlessStalled and SignalEnds, part one: with a time
\* limit no run of the action goes on for ever.  There are at most MaxElapsed + 1
\* waits, and at most Chunks + 10 steps before each and after the last.
\* (Without a limit, RETRY_DURATION_MINUTES of 0, the retries do not end.)
THEOREM AttemptsAreBounded ==
    MaxElapsed # 0 =>
        (Spec => /\ [](clock <= MaxElapsed + 1 /\ AttemptLeft \in 0..(Chunks + 10))
                 /\ [][AttemptShrinks]_vars)
  <1> SUFFICES ASSUME MaxElapsed # 0
               PROVE  Spec => /\ [](clock <= MaxElapsed + 1 /\ AttemptLeft \in 0..(Chunks + 10))
                              /\ [][AttemptShrinks]_vars
    OBVIOUS
  <1>1. Init => Paced
    BY DEF Init, Paced
  <1>2. TypeOK => clock <= MaxElapsed + 1 /\ AttemptLeft \in 0..(Chunks + 10)
    BY AttemptCount, Image2diskAssumption DEF TypeOK
  <1>3. TypeOK /\ TypeOK' /\ Paced /\ [Next]_vars => [AttemptShrinks]_vars
    BY AttemptStep
  <1> QED
    BY <1>1, <1>2, <1>3, PacedStep, TypeCorrect, PTL DEF Spec

\* Part two: only a silent server, and no signal, can hold the action up before
\* its end.  In particular the handshake with the progress goroutine never
\* waits: the goroutine is in its loop.
THEOREM OnlySilenceHolds == Spec => [](pc \in {"ok", "fail"} \/ MainReady \/ (stalled /\ ~cancelled))
  <1>1. IInv => pc \in {"ok", "fail"} \/ MainReady \/ (stalled /\ ~cancelled)
    BY DEF IInv, TypeOK, Counted, MainReady
  <1> QED
    BY Invariance, <1>1, PTL

-----------------------------------------------------------------------------
(* slurp.                                                                  *)

Footer == IF Compressed THEN 1 ELSE 0

\* Where the goroutine's calls stand in the body.  k counts the chunk that is
\* about to be written; mclose writes the last item.
At == CASE g = "part" -> 0
        [] g = "open" -> 1
        [] g = "read" -> 1 + k
        [] g = "write" -> k
        [] g = "zclose" -> 1 + Reads
        [] OTHER -> 1 + Reads + Footer

Sending == {"part", "open", "read", "write", "zclose", "mclose"}

\* A broken pipe takes nothing, and the goroutine goes on to its errors.
Position ==
    /\ g \in Sending => sent <= At /\ (pipe # "broken" => sent = At)
    /\ g = "fail" => sent < Body
    /\ g = "deferM" => sent <= Body
    /\ g \in {"part", "open"} => k = 0
    /\ g = "zclose" => Compressed
    /\ g \in Sending => pipe # "eof"

\* An answer before the end of the body comes with a dead connection.
Answered == resp # "none" => sent >= Body \/ net = "down"

\* A result, or the wait for errchan, follows client.Do.
Asked == main # "do" => resp # "none"

\* The goroutine leaves with its error delivered or the body complete.
Finished == g \in {"deferM", "deferW", "closing", "exit"} /\ main # "error" => sent >= Body

UploadIInv == UploadTypeOK /\ Position /\ Answered /\ Asked /\ Finished

-----------------------------------------------------------------------------
(* Lemmas about the body.                                                  *)

\* Body: an item for the part header and one for the closing boundary.
LEMMA BodyLength ==
    /\ Body \in Nat /\ Footer \in Nat /\ Body = 1 + Reads + Footer + 1
    /\ Compressed => Footer = 1
    /\ ~Compressed => Footer = 0
  <1>1. CASE Compressed
    BY <1>1, SlurpAssumption DEF Body, Footer
  <1>2. CASE ~Compressed
    BY <1>2, SlurpAssumption DEF Body, Footer
  <1> QED
    BY <1>1, <1>2

\* AfterWrite and AfterBroken, call by call.
LEMMA WriteSteps ==
    /\ AfterWrite["part"] = "open" /\ AfterWrite["write"] = "read"
    /\ AfterWrite["zclose"] = "mclose" /\ AfterWrite["mclose"] = "deferM"
    /\ AfterWrite["deferM"] = "deferW"
    /\ AfterBroken["part"] = "fail" /\ AfterBroken["write"] = "fail"
    /\ AfterBroken["zclose"] = "mclose" /\ AfterBroken["mclose"] = "fail"
    /\ AfterBroken["deferM"] = "deferW"
  BY DEF AfterWrite, AfterBroken

-----------------------------------------------------------------------------
(* The invariant.                                                          *)

\* Nothing is sent before the goroutine's first write.
LEMMA InitUploadIInv == UploadInit => UploadIInv
  <1> SUFFICES ASSUME UploadInit PROVE UploadIInv
    OBVIOUS
  <1>1. httpErr \in BOOLEAN /\ diskFailed \in BOOLEAN
    BY DEF UploadInit
  <1>2. k \in 0..Reads /\ sent \in 0..(Body + 1)
    BY SlurpAssumption, BodyLength DEF UploadInit
  <1>3. Position
    BY DEF UploadInit, Position, At, Sending
  <1>4. Answered /\ Asked /\ Finished
    BY DEF UploadInit, Answered, Asked, Finished
  <1> QED
    BY <1>1, <1>2, <1>3, <1>4 DEF UploadInit, UploadIInv, UploadTypeOK, Writing

\* Every action keeps the types; Position bounds what is sent.
LEMMA UploadTypeStep == UploadTypeOK /\ Position /\ [UploadNext]_upload => UploadTypeOK'
  <1> SUFFICES ASSUME UploadTypeOK, Position, [UploadNext]_upload PROVE UploadTypeOK'
    OBVIOUS
  <1> USE SlurpAssumption, BodyLength DEF UploadTypeOK, Position, Writing, Sending, At
  <1>1. CASE OpenDisk
    BY <1>1 DEF OpenDisk, DiskFails
  <1>2. CASE ReadDisk
    <2>1. diskFailed' \in BOOLEAN
      BY <1>2 DEF ReadDisk, DiskFails
    <2>2. k' \in 0..Reads /\ g' \in {"write", "zclose", "mclose", "fail"}
      BY <1>2 DEF ReadDisk, DiskFails
    <2>3. UNCHANGED <<pipe, net, sent, server, resp, main, httpErr>>
      BY <1>2 DEF ReadDisk
    <2> QED
      BY <2>1, <2>2, <2>3
  <1>3. CASE PipeWrite
    BY <1>3, WriteSteps DEF PipeWrite
  <1>4. CASE PipeBroken
    BY <1>4, WriteSteps DEF PipeBroken
  <1>5. CASE CloseWriter
    BY <1>5 DEF CloseWriter
  <1>6. CASE CloseErrchan
    BY <1>6 DEF CloseErrchan
  <1>7. CASE DoReturns
    BY <1>7 DEF DoReturns
  <1>8. CASE ReceiveError
    BY <1>8 DEF ReceiveError
  <1>9. CASE ReceiveClosed
    BY <1>9 DEF ReceiveClosed
  <1>10. CASE Disconnect
    BY <1>10 DEF Disconnect
  <1>11. CASE TransportFails
    BY <1>11 DEF TransportFails
  <1>12. CASE StoreImage
    BY <1>12 DEF StoreImage
  <1>13. CASE RefuseUpload
    BY <1>13 DEF RefuseUpload
  <1>14. CASE ServerExits
    BY <1>14 DEF ServerExits
  <1>15. CASE GoSilent
    BY <1>15 DEF GoSilent
  <1>16. CASE UNCHANGED upload
    BY <1>16 DEF upload
  <1> QED
    BY <1>1, <1>2, <1>3, <1>4, <1>5, <1>6, <1>7, <1>8,
       <1>9, <1>10, <1>11, <1>12, <1>13, <1>14, <1>15, <1>16 DEF UploadNext, Goroutine, Caller

\* ... and what ties the goroutine, the transport and the caller.
LEMMA StepUploadIInv == UploadIInv /\ [UploadNext]_upload => UploadIInv'
  <1> SUFFICES ASSUME UploadIInv, [UploadNext]_upload PROVE Position' /\ Answered' /\ Asked' /\ Finished'
    BY UploadTypeStep DEF UploadIInv
  <1> USE SlurpAssumption, BodyLength DEF UploadIInv, UploadTypeOK, Position, Answered, Asked, Finished, Writing, Sending, At
  <1>1. CASE OpenDisk
    <2>1. /\ g = "open" /\ g' \in {"read", "fail"}
          /\ UNCHANGED <<k, pipe, net, sent, server, resp, main, httpErr>>
      BY <1>1 DEF OpenDisk, DiskFails
    <2> QED
      BY <2>1
  <1>2. CASE ReadDisk
    BY <1>2 DEF ReadDisk, DiskFails
  <1>3. CASE PipeWrite
    BY <1>3, WriteSteps DEF PipeWrite
  <1>4. CASE PipeBroken
    BY <1>4, WriteSteps DEF PipeBroken
  <1>5. CASE CloseWriter
    BY <1>5 DEF CloseWriter
  <1>6. CASE CloseErrchan
    BY <1>6 DEF CloseErrchan
  <1>7. CASE DoReturns
    BY <1>7 DEF DoReturns
  <1>8. CASE ReceiveError
    BY <1>8 DEF ReceiveError
  <1>9. CASE ReceiveClosed
    BY <1>9 DEF ReceiveClosed
  <1>10. CASE Disconnect
    BY <1>10 DEF Disconnect
  <1>11. CASE TransportFails
    BY <1>11 DEF TransportFails
  <1>12. CASE StoreImage
    BY <1>12 DEF StoreImage
  <1>13. CASE RefuseUpload
    BY <1>13 DEF RefuseUpload
  <1>14. CASE ServerExits
    BY <1>14 DEF ServerExits
  <1>15. CASE GoSilent
    BY <1>15 DEF GoSilent
  <1>16. CASE UNCHANGED upload
    BY <1>16 DEF upload
  <1> QED
    BY <1>1, <1>2, <1>3, <1>4, <1>5, <1>6, <1>7, <1>8,
       <1>9, <1>10, <1>11, <1>12, <1>13, <1>14, <1>15, <1>16 DEF UploadNext, Goroutine, Caller

\* The picture is true at every moment.
THEOREM UploadInvariance == UploadSpec => []UploadIInv
  BY InitUploadIInv, StepUploadIInv, PTL DEF UploadSpec

\* Every variable keeps its type: at most one item beyond the body is sent.
THEOREM UploadTypeCorrect == UploadSpec => []UploadTypeOK
  <1>1. UploadIInv => UploadTypeOK
    BY DEF UploadIInv
  <1> QED
    BY UploadInvariance, <1>1, PTL

-----------------------------------------------------------------------------
(* The promise.                                                            *)

\* An upload at its start is a transfer at its start.
LEMMA InitUploadPromise == UploadInit => UploadPromise!Init
  BY BodyLength DEF UploadInit, UploadPromise!Init

\* A step that sends nothing and brings no result is not seen by the promise.
LEMMA UploadUnseen ==
    ASSUME sent' = sent, main' = main \/ {main, main'} \subseteq {"do", "recv"}
    PROVE  UNCHANGED UploadPromise!vars
  BY DEF UploadPromise!vars

\* An item that goes into the pipe is an item of the image that arrives, or
\* the boundary after the last one.
LEMMA SendAdvances ==
    ASSUME UploadIInv, PipeWrite
    PROVE  [UploadPromise!Next]_UploadPromise!vars
  <1>1. /\ sent \in Nat /\ sent' = sent + 1 /\ main' = main /\ net = "up"
        /\ main \in {"do", "recv", "success", "error"}
    BY BodyLength DEF UploadIInv, UploadTypeOK, PipeWrite
  <1>2. CASE sent < Body
    <2>1. main \in {"do", "recv"}
      BY <1>1, <1>2, BodyLength DEF UploadIInv, Asked, Answered
    <2>2. UploadPromise!Advance
      BY <1>1, <1>2, <2>1, BodyLength DEF UploadPromise!Advance
    <2> QED
      BY <2>2 DEF UploadPromise!Next
  <1>3. CASE ~(sent < Body)
    <2>1. ~(sent' < Body)
      BY <1>1, <1>3, BodyLength
    <2> QED
      BY <1>1, <1>3, <2>1 DEF UploadPromise!vars
  <1> QED
    BY <1>2, <1>3

\* Every step is a step of the promise, or one that it does not see.
LEMMA StepUploadPromise == UploadIInv /\ [UploadNext]_upload => [UploadPromise!Next]_UploadPromise!vars
  <1> SUFFICES ASSUME UploadIInv, [UploadNext]_upload PROVE [UploadPromise!Next]_UploadPromise!vars
    OBVIOUS
  <1>1. CASE PipeWrite
    BY <1>1, SendAdvances
  <1>2. CASE ReceiveError
    <2>1. UploadPromise!Fail
      BY <1>2 DEF ReceiveError, UploadPromise!Fail
    <2> QED
      BY <2>1 DEF UploadPromise!Next
  <1>3. CASE ReceiveClosed
    <2>1. main = "recv" /\ main' \in {"success", "error"} /\ sent' = sent /\ sent >= Body
      BY <1>3 DEF ReceiveClosed, UploadIInv, Finished
    <2>2. CASE main' = "success"
      <3>1. ~(sent < Body)
        BY <2>1, BodyLength DEF UploadIInv, UploadTypeOK
      <3>2. UploadPromise!Succeed
        BY <2>1, <2>2, <3>1 DEF UploadPromise!Succeed
      <3> QED
        BY <3>2 DEF UploadPromise!Next
    <2>3. CASE main' = "error"
      <3>1. UploadPromise!Fail
        BY <2>1, <2>3 DEF UploadPromise!Fail
      <3> QED
        BY <3>1 DEF UploadPromise!Next
    <2> QED
      BY <2>1, <2>2, <2>3
  <1>4. CASE DoReturns
    BY <1>4, UploadUnseen DEF DoReturns
  <1>5. CASE OpenDisk \/ ReadDisk \/ PipeBroken \/ CloseWriter \/ CloseErrchan
    BY <1>5, UploadUnseen DEF OpenDisk, ReadDisk, PipeBroken, CloseWriter, CloseErrchan
  <1>6. CASE Disconnect \/ GoSilent \/ TransportFails \/ StoreImage \/ RefuseUpload \/ ServerExits
    BY <1>6, UploadUnseen DEF Disconnect, GoSilent, TransportFails, StoreImage, RefuseUpload, ServerExits
  <1>7. CASE UNCHANGED upload
    BY <1>7, UploadUnseen DEF upload
  <1> QED
    BY <1>1, <1>2, <1>3, <1>4, <1>5, <1>6, <1>7 DEF UploadNext, Goroutine, Caller

\* UploadKeepsPromise: UploadMultipartFile implements the transfer.
THEOREM UploadPromiseKept == UploadSpec => UploadKeepsPromise
  BY InitUploadPromise, UploadInvariance, StepUploadPromise, PTL DEF UploadSpec, UploadKeepsPromise, UploadPromise!Spec

-----------------------------------------------------------------------------
(* The end of slurp.                                                       *)

\* Calls that the goroutine has left, at most.
CallsOfCopy ==
    CASE g = "part" -> 2 * Reads + 10
      [] g = "open" -> 2 * Reads + 9
      [] g = "read" -> 2 * (Reads - k) + 8
      [] g = "write" -> 2 * (Reads - k) + 9
      [] g = "zclose" -> 7
      [] g = "mclose" -> 6
      [] g = "fail" -> 5
      [] g = "deferM" -> 4
      [] g = "deferW" -> 3
      [] g = "closing" -> 2
      [] OTHER -> 1

CallsOfCaller == CASE main = "do" -> 2 [] main = "recv" -> 1 [] OTHER -> 0

UploadLeft == CallsOfCopy + CallsOfCaller
              + One(net = "up") + One(net # "down") + One(pipe = "open") + One(resp = "none") + One(server = "reading")

\* Who can take the next step.
GoroutineReady == \/ g \in {"open", "read", "deferW", "closing"}
                  \/ g \in Writing /\ (pipe = "broken" \/ (pipe = "open" /\ net = "up"))
CallerReady == (main = "do" /\ resp # "none") \/ (main = "recv" /\ g \in {"fail", "exit"})
TransportReady == net = "down" /\ (pipe = "open" \/ resp = "none")
StoreReady == server = "reading" /\ net = "up" /\ sent >= Body

UploadReady == GoroutineReady \/ CallerReady \/ TransportReady \/ StoreReady

UploadOver == main \in {"success", "error"} /\ g = "exit"

\* The goroutine offers an error of the disk on errchan, while client.Do waits
\* for more of the body.
DiskErrorUnheard == /\ diskFailed /\ g = "fail"
                    /\ main = "do" /\ resp = "none" /\ pipe = "open" /\ net # "down"

\* The goroutine waits for a silent server to read, or client.Do for it to answer.
ServerAwaited == /\ net = "silent"
                 /\ \/ g \in Writing /\ pipe = "open"
                    \/ g = "exit" /\ main = "do" /\ resp = "none"

\* What each party knows of the others: a closed pipe tells who closed it, and a
\* server that has made up its mind has answered or hung up.
Linked ==
    /\ pipe = "eof" => g \in {"closing", "exit"}
    /\ pipe = "broken" => resp # "none"
    /\ g = "fail" => diskFailed \/ pipe = "broken"
    /\ server # "reading" => resp # "none" \/ net = "down"
    /\ main \in {"success", "error"} => g \in {"deferM", "deferW", "closing", "exit"}

\* The count of calls is one.
LEMMA UploadCount == UploadTypeOK => UploadLeft \in 0..(2 * Reads + 17)
  <1> SUFFICES ASSUME UploadTypeOK PROVE UploadLeft \in 0..(2 * Reads + 17)
    OBVIOUS
  <1>1. CallsOfCopy \in 1..(2 * Reads + 10)
    BY SlurpAssumption DEF UploadTypeOK, Writing, CallsOfCopy
  <1>2. CallsOfCaller \in 0..2
    BY DEF CallsOfCaller
  <1>3. /\ One(net = "up") \in 0..1 /\ One(net # "down") \in 0..1 /\ One(pipe = "open") \in 0..1
        /\ One(resp = "none") \in 0..1 /\ One(server = "reading") \in 0..1
    BY DEF One
  <1> QED
    BY <1>1, <1>2, <1>3, SlurpAssumption DEF UploadLeft

\* A step of anybody is one call or one event less.
LEMMA UploadStep ==
    ASSUME UploadTypeOK, UploadTypeOK', UploadNext
    PROVE  UploadLeft' < UploadLeft
  <1> USE SlurpAssumption DEF UploadTypeOK, Writing, UploadLeft, CallsOfCopy, CallsOfCaller, One
  <1>1. CASE OpenDisk
    BY <1>1 DEF OpenDisk, DiskFails
  <1>2. CASE ReadDisk
    BY <1>2 DEF ReadDisk, DiskFails
  <1>3. CASE PipeWrite
    BY <1>3, WriteSteps DEF PipeWrite
  <1>4. CASE PipeBroken
    BY <1>4, WriteSteps DEF PipeBroken
  <1>5. CASE CloseWriter
    BY <1>5 DEF CloseWriter
  <1>6. CASE CloseErrchan
    BY <1>6 DEF CloseErrchan
  <1>7. CASE DoReturns
    BY <1>7 DEF DoReturns
  <1>8. CASE ReceiveError
    BY <1>8 DEF ReceiveError
  <1>9. CASE ReceiveClosed
    BY <1>9 DEF ReceiveClosed
  <1>10. CASE Disconnect
    BY <1>10 DEF Disconnect
  <1>11. CASE TransportFails
    BY <1>11 DEF TransportFails
  <1>12. CASE StoreImage
    BY <1>12 DEF StoreImage
  <1>13. CASE RefuseUpload
    BY <1>13 DEF RefuseUpload
  <1>14. CASE ServerExits
    BY <1>14 DEF ServerExits
  <1>15. CASE GoSilent
    BY <1>15 DEF GoSilent
  <1> QED
    BY <1>1, <1>2, <1>3, <1>4, <1>5, <1>6, <1>7, <1>8,
       <1>9, <1>10, <1>11, <1>12, <1>13, <1>14, <1>15 DEF UploadNext, Goroutine, Caller

\* The safety half of HealthyUploadReturns and HealthyGoroutineExits, part one:
\* no upload goes on for ever; it makes at most 2 * Reads + 17 steps.
THEOREM UploadIsBounded ==
    UploadSpec => [](UploadLeft \in 0..(2 * Reads + 17)) /\ [][UploadLeft' < UploadLeft]_upload
  <1>1. UploadTypeOK /\ UploadTypeOK' /\ [UploadNext]_upload => [UploadLeft' < UploadLeft]_upload
    BY UploadStep
  <1> QED
    BY <1>1, UploadCount, UploadTypeCorrect, PTL DEF UploadSpec

\* The links between the parties, step by step.
LEMMA LinkedStep == UploadIInv /\ Linked /\ [UploadNext]_upload => Linked'
  <1> SUFFICES ASSUME UploadIInv, Linked, [UploadNext]_upload PROVE Linked'
    OBVIOUS
  <1> USE DEF UploadIInv, UploadTypeOK, Asked, Linked, Writing
  <1>1. CASE OpenDisk
    BY <1>1 DEF OpenDisk, DiskFails
  <1>2. CASE ReadDisk
    BY <1>2 DEF ReadDisk, DiskFails
  <1>3. CASE PipeWrite
    BY <1>3, WriteSteps DEF PipeWrite
  <1>4. CASE PipeBroken
    BY <1>4, WriteSteps DEF PipeBroken
  <1>5. CASE CloseWriter
    BY <1>5 DEF CloseWriter
  <1>6. CASE CloseErrchan
    BY <1>6 DEF CloseErrchan
  <1>7. CASE DoReturns
    BY <1>7 DEF DoReturns
  <1>8. CASE ReceiveError
    BY <1>8 DEF ReceiveError
  <1>9. CASE ReceiveClosed
    BY <1>9 DEF ReceiveClosed
  <1>10. CASE Disconnect
    BY <1>10 DEF Disconnect
  <1>11. CASE TransportFails
    BY <1>11 DEF TransportFails
  <1>12. CASE StoreImage
    BY <1>12 DEF StoreImage
  <1>13. CASE RefuseUpload
    BY <1>13 DEF RefuseUpload
  <1>14. CASE ServerExits
    BY <1>14 DEF ServerExits
  <1>15. CASE GoSilent
    BY <1>15 DEF GoSilent
  <1>16. CASE UNCHANGED upload
    BY <1>16 DEF upload
  <1> QED
    BY <1>1, <1>2, <1>3, <1>4, <1>5, <1>6, <1>7, <1>8,
       <1>9, <1>10, <1>11, <1>12, <1>13, <1>14, <1>15, <1>16 DEF UploadNext, Goroutine, Caller

\* Whoever waits, waits for somebody who can go on.
LEMMA SomebodyReady ==
    ASSUME UploadIInv, Linked
    PROVE  UploadOver \/ UploadReady \/ DiskErrorUnheard \/ ServerAwaited
  <1> SUFFICES ASSUME ~UploadReady, ~ServerAwaited PROVE UploadOver \/ DiskErrorUnheard
    OBVIOUS
  <1> USE DEF UploadIInv, UploadTypeOK, Linked, Writing,
              UploadReady, GoroutineReady, CallerReady, TransportReady, StoreReady, ServerAwaited
  <1>1. g \in {"fail", "exit"}
    OBVIOUS
  <1>2. CASE g = "fail"
    <2>1. main = "do" /\ resp = "none"
      BY <1>2
    <2>2. pipe = "open" /\ net # "down" /\ diskFailed
      BY <1>2, <2>1
    <2> QED
      BY <1>2, <2>1, <2>2 DEF DiskErrorUnheard
  <1>3. CASE g = "exit"
    <2>1. CASE main = "do"
      <3>1. sent >= Body /\ resp = "none" /\ net = "up"
        BY <1>3, <2>1 DEF Finished
      <3> QED
        BY <3>1
    <2>2. main # "recv"
      BY <1>3
    <2> QED
      BY <1>3, <2>1, <2>2 DEF UploadOver
  <1> QED
    BY <1>1, <1>2, <1>3

\* Part two: client.Do, the goroutine, the transport and the server wait for
\* each other in one state only, which the run SlurpDisk reaches: the goroutine
\* has an error of the disk to hand over, and its pipe is still open.  Otherwise
\* somebody can go on, or a silent server is waited for, which no timeout ends.
THEOREM OnlyDiskErrorsHang == UploadSpec => [](UploadOver \/ UploadReady \/ DiskErrorUnheard \/ ServerAwaited)
  <1>1. UploadInit => Linked
    BY DEF UploadInit, Linked
  <1>2. UploadIInv /\ Linked => UploadOver \/ UploadReady \/ DiskErrorUnheard \/ ServerAwaited
    BY SomebodyReady
  <1> QED
    BY <1>1, <1>2, LinkedStep, UploadInvariance, PTL DEF UploadSpec
=============================================================================

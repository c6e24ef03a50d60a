-------------------------------- MODULE Slurp --------------------------------
(***************************************************************************)
(* slurp: UploadMultipartFile (slurp/image/image.go) streams a disk to an  *)
(* HTTP server.  A goroutine writes the multipart body into an io.Pipe;    *)
(* http.Client.Do reads the other end; errchan (unbuffered) carries the    *)
(* goroutine's error back.  imageHandler (slurp/server/main.go) stores the *)
(* upload.  net/http, mime/multipart and io.Pipe are modelled from their   *)
(* use: a write into the pipe is a rendezvous with the transport, and      *)
(* fails once the transport has closed the request body.                   *)
(***************************************************************************)
EXTENDS Naturals

CONSTANTS
    Reads,      \* bound: reads of the disk until its end
    Compressed,  \* whether gzip sits between the disk and the body
    DiskErrors,  \* whether opening or reading the disk may fail
    NetErrors,   \* whether the connection may fail
    ServerErrors \* whether the server may fail to take the upload, or go silent

ASSUME SlurpAssumption ==
    /\ Reads \in Nat
    /\ {Compressed, DiskErrors, NetErrors, ServerErrors} \subseteq BOOLEAN

VARIABLES
    g,        \* the copy goroutine: its next call
    k,        \* chunks copied
    pipe,     \* "open", "eof" (writer closed), "broken" (reader closed)
    net,      \* the connection: "up", "silent" (the server reads and answers no more), "down"
    sent,     \* body items the transport has taken: part header, data, trailers
    server,   \* imageHandler: "reading", "stored", "lost", "refused"
    resp,     \* what the transport has for client.Do: "none", "answer", "fail"
    main,     \* UploadMultipartFile: "do", "recv", "success", "error"
    httpErr,  \* err of client.Do
    diskFailed \* history: the disk could not be opened or read

upload == <<g, k, pipe, net, sent, server, resp, main, httpErr, diskFailed>>

\* The body is complete with the part header, the data, gzip's footer and
\* the closing boundary.
Body == 1 + Reads + (IF Compressed THEN 1 ELSE 0) + 1

\* Calls that write into the pipe.
Writing == {"part", "write", "zclose", "mclose", "deferM"}

UploadTypeOK ==
    /\ g \in Writing \cup {"open", "read", "fail", "deferW", "closing", "exit"}
    /\ k \in 0..Reads
    /\ pipe \in {"open", "eof", "broken"}
    /\ net \in {"up", "silent", "down"}
    /\ sent \in 0..(Body + 1)
    /\ server \in {"reading", "stored", "lost", "refused"}
    /\ resp \in {"none", "answer", "fail"}
    /\ main \in {"do", "recv", "success", "error"}
    /\ httpErr \in BOOLEAN /\ diskFailed \in BOOLEAN

UploadInit ==
    /\ g = "part" /\ k = 0 /\ pipe = "open" /\ net = "up" /\ sent = 0
    /\ server = "reading" /\ resp = "none" /\ main = "do" /\ httpErr = FALSE
    /\ diskFailed = FALSE

-----------------------------------------------------------------------------
(* The goroutine.                                                          *)

\* Where the goroutine goes on after a successful write.
AfterWrite == [part |-> "open", write |-> "read", zclose |-> "mclose",
               mclose |-> "deferM", deferM |-> "deferW"]

\* ... and after a failed one.  The results of zipWriter.Close and of the
\* deferred mwriter.Close are dropped.
AfterBroken == [part |-> "fail", write |-> "fail", zclose |-> "mclose",
                mclose |-> "fail", deferM |-> "deferW"]

DiskFails == DiskErrors /\ g' = "fail" /\ diskFailed' = TRUE

OpenDisk ==
    /\ g = "open"
    /\ \/ g' = "read" /\ UNCHANGED diskFailed
       \/ DiskFails
    /\ UNCHANGED <<k, pipe, net, sent, server, resp, main, httpErr>>

\* One read of io.Copy: a chunk, the end of the disk, or an error.
ReadDisk ==
    /\ g = "read"
    /\ \/ k < Reads /\ k' = k + 1 /\ g' = "write" /\ UNCHANGED diskFailed
       \/ k = Reads /\ g' = (IF Compressed THEN "zclose" ELSE "mclose") /\ UNCHANGED <<k, diskFailed>>
       \/ DiskFails /\ UNCHANGED k
    /\ UNCHANGED <<pipe, net, sent, server, resp, main, httpErr>>

\* A write meets the transport's read of the request body, which goes on as
\* long as the server reads.
PipeWrite ==
    /\ g \in Writing /\ pipe = "open" /\ net = "up"
    /\ g' = AfterWrite[g]
    /\ sent' = sent + 1
    /\ UNCHANGED <<k, pipe, net, server, resp, main, httpErr, diskFailed>>

PipeBroken ==
    /\ g \in Writing /\ pipe = "broken"
    /\ g' = AfterBroken[g]
    /\ UNCHANGED <<k, pipe, net, sent, server, resp, main, httpErr, diskFailed>>

\* defer writer.Close(), then defer close(errchan).
CloseWriter ==
    /\ g = "deferW"
    /\ pipe' = IF pipe = "open" THEN "eof" ELSE pipe
    /\ g' = "closing"
    /\ UNCHANGED <<k, net, sent, server, resp, main, httpErr, diskFailed>>

\* Mutant: the goroutine returns without closing errchan.
CloseErrchanForgotten == g = "closing" /\ UNCHANGED upload

CloseErrchan ==
    /\ g = "closing" /\ g' = "exit"
    /\ UNCHANGED <<k, pipe, net, sent, server, resp, main, httpErr, diskFailed>>

-----------------------------------------------------------------------------
(* The caller.                                                             *)

\* Mutant: an error of client.Do is returned before errchan is read.
DoReturnsEarly ==
    /\ main = "do" /\ resp # "none"
    /\ main' = (IF resp = "fail" THEN "error" ELSE "recv") /\ httpErr' = (resp = "fail")
    /\ UNCHANGED <<g, k, pipe, net, sent, server, resp, diskFailed>>

DoReturns ==
    /\ main = "do" /\ resp # "none"
    /\ main' = "recv" /\ httpErr' = (resp = "fail")
    /\ UNCHANGED <<g, k, pipe, net, sent, server, resp, diskFailed>>

\* Mutant: an answer that comes before the end of the body is enough.
ReceiveSkipped ==
    /\ main = "recv"
    /\ main' = IF httpErr THEN "error" ELSE "success"
    /\ UNCHANGED <<g, k, pipe, net, sent, server, resp, httpErr, diskFailed>>

\* errchan <- err meets merr := <-errchan.
ReceiveError ==
    /\ main = "recv" /\ g = "fail"
    /\ main' = "error" /\ g' = "deferM"
    /\ UNCHANGED <<k, pipe, net, sent, server, resp, httpErr, diskFailed>>

ReceiveClosed ==
    /\ main = "recv" /\ g = "exit"
    /\ main' = IF httpErr THEN "error" ELSE "success"
    /\ UNCHANGED <<g, k, pipe, net, sent, server, resp, httpErr, diskFailed>>

-----------------------------------------------------------------------------
(* Transport and server.                                                   *)

\* The connection fails on its own.
Disconnect ==
    /\ NetErrors /\ net # "down" /\ net' = "down"
    /\ UNCHANGED <<g, k, pipe, sent, server, resp, main, httpErr, diskFailed>>

\* The server hangs: what the transport can buffer is full, or the answer does
\* not come.  The client has no timeout (image.go:44) and its request no
\* deadline (:58), so only the end of the connection makes an end of it.
GoSilent ==
    /\ ServerErrors /\ net = "up" /\ net' = "silent"
    /\ UNCHANGED <<g, k, pipe, sent, server, resp, main, httpErr, diskFailed>>

\* The transport sees the failure: it closes the request body, and Do fails
\* unless an answer came first.
TransportFails ==
    /\ net = "down" /\ (pipe = "open" \/ resp = "none")
    /\ pipe' = IF pipe = "open" THEN "broken" ELSE pipe
    /\ resp' = IF resp = "none" THEN "fail" ELSE resp
    /\ UNCHANGED <<g, k, net, sent, server, main, httpErr, diskFailed>>

\* imageHandler has the whole form and copies the file; an error of the copy
\* is logged and the answer is 200 all the same.
StoreImage ==
    /\ server = "reading" /\ net = "up" /\ sent >= Body
    /\ server' \in {"stored"} \cup (IF ServerErrors THEN {"lost"} ELSE {})
    /\ resp' = "answer"
    /\ UNCHANGED <<g, k, pipe, net, sent, main, httpErr, diskFailed>>

\* The form cannot be parsed (imageHandler prints and returns: 200), or the
\* path is unknown (404): an answer, and the server hangs up.
RefuseUpload ==
    /\ ServerErrors /\ server = "reading" /\ net = "up"
    /\ server' = "refused" /\ resp' = "answer" /\ net' = "down"
    /\ UNCHANGED <<g, k, pipe, sent, main, httpErr, diskFailed>>

\* log.Fatalf when the image file cannot be opened: the server exits.
ServerExits ==
    /\ ServerErrors /\ server = "reading" /\ net = "up" /\ sent >= Body
    /\ server' = "lost" /\ net' = "down"
    /\ UNCHANGED <<g, k, pipe, sent, resp, main, httpErr, diskFailed>>

Goroutine == OpenDisk \/ ReadDisk \/ PipeWrite \/ PipeBroken \/ CloseWriter \/ CloseErrchan
Caller == DoReturns \/ ReceiveError \/ ReceiveClosed

UploadNext == Goroutine \/ Caller \/ Disconnect \/ GoSilent \/ TransportFails \/ StoreImage \/ RefuseUpload \/ ServerExits

\* The goroutine and the caller are scheduled, the transport notices a dead
\* connection, and a server that is not silent reads on and deals with a whole
\* upload; a silent one owes nothing.  Nobody owes a failure.
UploadSpec == /\ UploadInit /\ [][UploadNext]_upload
        /\ WF_upload(Goroutine) /\ WF_upload(Caller) /\ WF_upload(TransportFails) /\ WF_upload(StoreImage)

-----------------------------------------------------------------------------
(* Properties.                                                             *)

\* The goroutine hands its error over errchan, and the caller always gets an
\* answer or an error: client.Do, the goroutine and the receive from errchan
\* never wait for each other for ever.
UploadReturns == <>(main \in {"success", "error"})

\* What is left of it when the disk may fail: an upload of a disk that can be
\* read comes to an end, whatever fails, closes or refuses, unless the server
\* stays silent on an open connection: against that image.go:44 has no timeout.
HealthyUploadReturns == <>diskFailed \/ <>[](net = "silent") \/ <>(main \in {"success", "error"})

\* Neither does the goroutine stay behind with the disk open, unless a silent
\* server leaves it in a write.
HealthyGoroutineExits == <>diskFailed \/ <>[](net = "silent") \/ <>(g = "exit")

\* The promise of a transfer, for the items of the body; the second closing
\* boundary, of the deferred mwriter.Close, is not one of them.
UploadPromise == INSTANCE Transfer WITH
    Whole <- Body,
    have <- IF sent < Body THEN sent ELSE Body,
    flawed <- FALSE,
    result <- CASE main = "success" -> "success" [] main = "error" -> "failure" [] OTHER -> "running"

\* UploadMultipartFile keeps it step by step: success is reported only when the
\* whole body went into the connection (zipWriter.Close's error is dropped, but
\* the mwriter.Close after it meets the same broken pipe), and the goroutine
\* sends nothing of the image any more once the caller has its result.
UploadKeepsPromise == UploadPromise!Spec
=============================================================================

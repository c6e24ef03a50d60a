------------------------------ MODULE Oci2disk ------------------------------
(***************************************************************************)
(* oci2disk: Write (oci2disk/image/image.go) lets oras pull the layers of  *)
(* an OCI artifact into a DiskImageStore (writer.go).  oras fetches the    *)
(* layers concurrently; a copier feeds each one into the Writer of its     *)
(* layer.  For a titled layer that is oras's pass-through writer: an       *)
(* io.Pipe whose other end the function f of writer.go copies, maybe       *)
(* through a decompressor, to the device, and a channel `done' of one      *)
(* place that Commit waits for.  Registry, oras, containerd's copy loop    *)
(* and io.Pipe are modelled from this use.  A layer is `Chunks' chunks.    *)
(***************************************************************************)
EXTENDS Naturals, FiniteSets, Sequences

CONSTANTS
    Layers,   \* the layers of the artifact with the allowed media type
    Chunks    \* bound: chunks of a layer

ASSUME Oci2diskAssumption == IsFiniteSet(Layers) /\ Chunks \in Nat

VARIABLES
    titled,     \* layers with an org.opencontainers.image.title
    compressed, \* COMPRESSED
    copier,     \* per layer, the copy loop of the pull: its next call
    sent,       \* per layer, chunks it has passed on
    closed,     \* per layer, the writing end of the pipe is closed
    f,          \* per layer, the function of writer.go: its next call
    done,       \* per layer, the channel: "empty", "nil" or "error"
    disk,       \* what was written to the device, in order: <<layer, chunk>>
    main,       \* image.Write and main: "pull", "ok", "fail"
    silent,     \* the registry has stopped sending
    bad,        \* history: layers that came short or with other data
    aborted     \* history: f returned before its pipe was at its end

layer == <<copier, sent, closed, f, done>>
env == <<titled, compressed, silent, bad, aborted>>
vars == <<layer, env, disk, main>>

TypeOK ==
    /\ titled \subseteq Layers /\ bad \subseteq titled
    /\ copier \in [Layers -> {"writer", "copy", "push", "commit", "wait", "ok", "error"}]
    /\ sent \in [Layers -> 0..Chunks]
    /\ closed \in [Layers -> BOOLEAN]
    /\ f \in [Layers -> {"none", "header", "first", "read", "write", "exit"}]
    /\ done \in [Layers -> {"empty", "nil", "error"}]
    /\ disk \in Seq(Layers \X (1..Chunks))
    /\ main \in {"pull", "ok", "fail"}
    /\ compressed \in BOOLEAN /\ silent \in BOOLEAN /\ aborted \in BOOLEAN

Init ==
    /\ titled \in SUBSET Layers /\ compressed \in BOOLEAN
    /\ copier = [l \in Layers |-> "writer"] /\ sent = [l \in Layers |-> 0]
    /\ closed = [l \in Layers |-> FALSE]
    /\ f = [l \in Layers |-> "none"] /\ done = [l \in Layers |-> "empty"]
    /\ disk = <<>> /\ main = "pull" /\ silent = FALSE /\ bad = {} /\ aborted = FALSE

-----------------------------------------------------------------------------
(* The copier of a layer.                                                  *)

\* DiskImageStore.Writer: io.Discard without a title, the pipe and f with one.
Writer(l) ==
    /\ main = "pull" /\ copier[l] = "writer"
    /\ copier' = [copier EXCEPT ![l] = "copy"]
    /\ f' = [f EXCEPT ![l] = IF l \notin titled THEN "none"
                             ELSE IF compressed THEN "header" ELSE "read"]
    /\ UNCHANGED <<sent, closed, done, env, disk, main>>

\* A chunk from the registry, as it should be or not.
FetchChunk(l) ==
    /\ main = "pull" /\ copier[l] = "copy" /\ sent[l] < Chunks /\ ~silent
    /\ copier' = [copier EXCEPT ![l] = "push"]
    /\ bad' \in {bad, bad \cup ({l} \cap titled)}
    /\ UNCHANGED <<sent, closed, f, done, titled, compressed, silent, aborted, disk, main>>

\* Its write: at once into io.Discard, into the pipe when f reads.
Push(l) ==
    /\ main = "pull" /\ copier[l] = "push"
    /\ l \in titled => f[l] \in {"header", "read"}
    /\ copier' = [copier EXCEPT ![l] = "copy"]
    /\ sent' = [sent EXCEPT ![l] = @ + 1]
    /\ f' = [f EXCEPT ![l] = CASE @ = "header" -> "first" [] @ = "read" -> "write" [] OTHER -> @]
    /\ UNCHANGED <<closed, done, env, disk, main>>

\* The end of the blob, which the registry may serve early.
BlobEnds(l) ==
    /\ main = "pull" /\ copier[l] = "copy" /\ ~silent
    /\ copier' = [copier EXCEPT ![l] = "commit"]
    /\ bad' = IF sent[l] < Chunks THEN bad \cup ({l} \cap titled) ELSE bad
    /\ UNCHANGED <<sent, closed, f, done, titled, compressed, silent, aborted, disk, main>>

\* The connection fails, or another layer's error has cancelled the pull; the
\* copier closes its writer and with it the pipe.
CopyFails(l) ==
    /\ main = "pull" /\ copier[l] = "copy"
    /\ ~silent \/ (\E m \in Layers : copier[m] = "error")
    /\ copier' = [copier EXCEPT ![l] = "error"]
    /\ closed' = [closed EXCEPT ![l] = TRUE]
    /\ UNCHANGED <<sent, f, done, env, disk, main>>

\* Commit: the pass-through writer closes the pipe and waits for done.
Commit(l) ==
    /\ main = "pull" /\ copier[l] = "commit"
    /\ closed' = [closed EXCEPT ![l] = TRUE]
    /\ copier' = [copier EXCEPT ![l] = IF l \in titled THEN "wait" ELSE "ok"]
    /\ UNCHANGED <<sent, f, done, env, disk, main>>

\* Mutant: the error in done is not looked at.
CommittedAnyway(l) ==
    /\ main = "pull" /\ copier[l] = "wait" /\ done[l] # "empty"
    /\ copier' = [copier EXCEPT ![l] = "ok"]
    /\ UNCHANGED <<sent, closed, f, done, env, disk, main>>

\* ... and, unless done brought an error, calls DiskImage.Commit, which returns
\* nil whatever the size and the digest are.
Committed(l) ==
    /\ main = "pull" /\ copier[l] = "wait" /\ done[l] # "empty"
    /\ copier' = [copier EXCEPT ![l] = IF done[l] = "nil" THEN "ok" ELSE "error"]
    /\ UNCHANGED <<sent, closed, f, done, env, disk, main>>

-----------------------------------------------------------------------------
(* f of a layer.                                                           *)

\* findDecompressor: an unknown suffix, or no header of that format, is a
\* log.Fatalf: the process exits.
NoDecompressor(l) ==
    /\ main = "pull"
    /\ f[l] \in {"header", "first"}
    /\ main' = "fail"
    /\ UNCHANGED <<layer, env, disk>>

Decompressor(l) ==
    /\ main = "pull" /\ f[l] = "first"
    /\ f' = [f EXCEPT ![l] = "write"]
    /\ UNCHANGED <<copier, sent, closed, done, env, disk, main>>

\* Mutant: the file is opened for every write, at offset 0.
WriteDeviceAtStart(l) ==
    /\ main = "pull" /\ f[l] = "write"
    /\ disk' = <<<<l, sent[l]>>>>
    /\ f' = [f EXCEPT ![l] = "read"]
    /\ UNCHANGED <<copier, sent, closed, done, env, main>>

\* The chunk goes to the device, at the file's one offset.
WriteDevice(l) ==
    /\ main = "pull" /\ f[l] = "write"
    /\ disk' = Append(disk, <<l, sent[l]>>)
    /\ f' = [f EXCEPT ![l] = "read"]
    /\ UNCHANGED <<copier, sent, closed, done, env, main>>

\* f returns early: the device is full or fails, or the decompressor has met
\* other data than its format's.  Nobody closes the reading end of the pipe.
Abort(l) ==
    /\ main = "pull" /\ f[l] = "write"
    /\ f' = [f EXCEPT ![l] = "exit"] /\ done' = [done EXCEPT ![l] = "error"]
    /\ aborted' = TRUE
    /\ UNCHANGED <<copier, sent, closed, titled, compressed, silent, bad, disk, main>>

\* Mutant: a return at the end of the pipe without a word in done.
EndSilently(l) ==
    /\ main = "pull" /\ f[l] = "read" /\ closed[l]
    /\ f' = [f EXCEPT ![l] = "exit"] /\ UNCHANGED done
    /\ UNCHANGED <<copier, sent, closed, env, disk, main>>

\* The end of the pipe: an error of the decompressor when data was lost or
\* altered on the way to it (the format is taken to carry a checksum), and
\* otherwise nil.
End(l) ==
    /\ main = "pull" /\ f[l] \in {"header", "read"} /\ closed[l]
    /\ f' = [f EXCEPT ![l] = "exit"]
    /\ done' = [done EXCEPT ![l] = IF compressed /\ (l \in bad \/ sent[l] < Chunks) THEN "error" ELSE "nil"]
    /\ UNCHANGED <<copier, sent, closed, env, disk, main>>

-----------------------------------------------------------------------------
(* image.Write and the registry.                                           *)

\* The device cannot be opened, or the reference cannot be resolved.
PullFails ==
    /\ main = "pull" /\ \A l \in Layers : copier[l] = "writer"
    /\ main' = "fail"
    /\ UNCHANGED <<layer, env, disk>>

\* Mutant: the first copier that ends decides.
PullReturnsFirst ==
    /\ main = "pull" /\ \E l \in Layers : copier[l] \in {"commit", "wait", "ok"}
    /\ main' = "ok"
    /\ UNCHANGED <<layer, env, disk>>

\* oras.Pull waits for every copier.  What comes after it (Sync, BLKRRPART)
\* only warns.
PullReturns ==
    /\ main = "pull" /\ \A l \in Layers : copier[l] \in {"ok", "error"}
    /\ main' = IF \E l \in Layers : copier[l] = "error" THEN "fail" ELSE "ok"
    /\ UNCHANGED <<layer, env, disk>>

\* No request has a timeout.
GoSilent ==
    /\ main = "pull" /\ ~silent /\ silent' = TRUE
    /\ UNCHANGED <<layer, titled, compressed, bad, aborted, disk, main>>

Copier(l) == Writer(l) \/ FetchChunk(l) \/ Push(l) \/ BlobEnds(l) \/ CopyFails(l) \/ Commit(l) \/ Committed(l)
F(l) == NoDecompressor(l) \/ Decompressor(l) \/ WriteDevice(l) \/ Abort(l) \/ End(l)

Next == (\E l \in Layers : Copier(l) \/ F(l)) \/ PullFails \/ PullReturns \/ GoSilent

\* Goroutines are scheduled, and a registry that is not silent sends, ends or
\* fails.  Nobody owes silence.
Spec == /\ Init /\ [][Next]_vars
        /\ \A l \in Layers : WF_vars(Copier(l)) /\ WF_vars(F(l))
        /\ WF_vars(PullReturns)

-----------------------------------------------------------------------------
(* Properties.                                                             *)

\* Layer l is on the device: every chunk of it, once, and in order.
Holds(l) ==
    /\ \A k \in 1..Chunks : \E a \in DOMAIN disk : disk[a] = <<l, k>>
    /\ \A a, b \in DOMAIN disk : \A k, m \in 1..Chunks :
        disk[a] = <<l, k>> /\ disk[b] = <<l, m>> /\ a < b => k < m

Image(l) == [k \in 1..Chunks |-> <<l, k>>]

\* main.go "Successfully written": every titled layer was written whole and in
\* order, unless the registry served something else (writer.go Commit checks
\* nothing), and with one titled layer the device holds exactly that.
SuccessMeansWhole ==
    main = "ok" =>
        /\ \A l \in titled \ bad : Holds(l)
        /\ \A l \in Layers : titled = {l} /\ bad = {} => disk = Image(l)

\* With COMPRESSED the decompressor's own check makes up for Commit: no success
\* after data was lost or altered on the way.  This takes a stream with a
\* checksum in it, which gzip and bzip2 always have and zstd and xz may lack.
CompressionChecks == main = "ok" /\ compressed => bad = {}

\* The pull comes to an end: f and the copier never wait for each other for
\* ever, unless f returned early (its pipe stays open for reading, and the
\* copier in Write) or the registry went silent.
HealthyPullReturns == <>(aborted \/ silent) \/ <>(main # "pull")

\* The promise of a transfer.  An artifact without exactly one titled layer is
\* flawed from the start: none is a success with nothing written, several
\* share the file's offset.
Promise == INSTANCE Transfer WITH
    Whole <- Chunks,
    have <- IF Len(disk) < Chunks THEN Len(disk) ELSE Chunks,
    flawed <- Cardinality(titled) # 1 \/ bad # {},
    result <- CASE main = "pull" -> "running" [] main = "ok" -> "success" [] OTHER -> "failure"

\* image.Write keeps that promise step by step: what the device holds, counted
\* up to a whole image, grows chunk by chunk, success comes only with the whole
\* of it unless the artifact was flawed, and nothing changes after the result.
KeepsPromise == Promise!Spec
=============================================================================

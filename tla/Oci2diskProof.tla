---------------------------- MODULE Oci2diskProof ----------------------------
(***************************************************************************)
(* For every artifact, any number of layers and every schedule of the      *)
(* goroutines: a success of oci2disk means that each titled layer is on    *)
(* the device, whole and in order, unless the registry served something    *)
(* else; with COMPRESSED nothing else can be served; and the pull keeps    *)
(* the promise of a transfer.  Two things are followed: where the copier   *)
(* and the function f of a layer stand to each other (Fed), and which      *)
(* chunks the device has got from them (Landing, Alone).  No pull goes on  *)
(* for ever, and copier and f never wait for each other (Manned).          *)
(***************************************************************************)
EXTENDS Oci2disk, FiniteSetTheorems, TLAPS

\* A copier ends with the whole layer, a bad one or an error; its Commit comes
\* back with what f has left in done, at the end of the pipe.
Fed(l) ==
    /\ copier[l] = "push" => sent[l] < Chunks
    /\ f[l] \in {"first", "write"} => sent[l] >= 1
    /\ f[l] # "none" => l \in titled /\ copier[l] # "writer"
    /\ closed[l] => copier[l] \in {"wait", "ok", "error"}
    /\ copier[l] \in {"commit", "wait", "ok"} => sent[l] = Chunks \/ l \in bad \/ l \notin titled
    /\ done[l] # "empty" => f[l] = "exit"
    /\ done[l] = "nil" => closed[l] /\ (compressed => l \notin bad /\ sent[l] = Chunks)
    /\ copier[l] = "ok" /\ l \in titled => done[l] = "nil"

\* The chunks of a layer that are on the device, unless f has given up: f may
\* have one in its hands.  A layer without a title goes nowhere.
Landed(l) == IF l \notin titled THEN 0
             ELSE IF f[l] \in {"first", "write"} THEN sent[l] - 1 ELSE sent[l]

Landing(l) ==
    /\ \A a \in DOMAIN disk : \A k \in 1..Chunks : disk[a] = <<l, k>> => k <= Landed(l)
    /\ \A a, b \in DOMAIN disk : \A k, m \in 1..Chunks :
        disk[a] = <<l, k>> /\ disk[b] = <<l, m>> /\ a < b => k < m
    /\ done[l] # "error" => \A k \in 1..Landed(l) : \E a \in DOMAIN disk : disk[a] = <<l, k>>

\* A titled layer without company has the device for itself.
Alone(l) ==
    titled = {l} =>
        /\ \A a \in 1..Len(disk) : disk[a] = <<l, a>>
        /\ done[l] # "error" => Len(disk) = Landed(l)

Returned == main = "ok" => \A l \in Layers : copier[l] = "ok"

IInv == /\ TypeOK /\ Returned
        /\ \A l \in Layers : Fed(l)
        /\ \A l \in Layers : Landing(l)
        /\ \A l \in Layers : Alone(l)

-----------------------------------------------------------------------------
(* Types.                                                                  *)

\* A write of one more chunk.
LEMMA AppendOne ==
    ASSUME NEW S, NEW s \in Seq(S), NEW e \in S
    PROVE  /\ Append(s, e) \in Seq(S)
           /\ Len(Append(s, e)) = Len(s) + 1
           /\ Len(s) \in Nat /\ DOMAIN s = 1..Len(s)
           /\ DOMAIN Append(s, e) = 1..(Len(s) + 1)
           /\ \A a \in 1..Len(s) : Append(s, e)[a] = s[a]
           /\ Append(s, e)[Len(s) + 1] = e
  OBVIOUS

\* Init, the types.
LEMMA InitTypes == Init => TypeOK
  <1> SUFFICES ASSUME Init PROVE TypeOK
    OBVIOUS
  <1>1. compressed \in BOOLEAN /\ silent \in BOOLEAN /\ aborted \in BOOLEAN
    BY DEF Init
  <1>2. titled \subseteq Layers /\ bad \subseteq titled
    BY DEF Init
  <1>3. closed \in [Layers -> BOOLEAN]
    BY DEF Init
  <1>4. sent \in [Layers -> 0..Chunks]
    BY Oci2diskAssumption DEF Init
  <1>5. disk \in Seq(Layers \X (1..Chunks))
    BY DEF Init
  <1> QED
    BY <1>1, <1>2, <1>3, <1>4, <1>5 DEF Init, TypeOK

\* Every action keeps the types.  A chunk is counted only while there is one
\* left (Fed), and f writes the last one that it was given.
LEMMA TypeStep ==
    ASSUME TypeOK, \A l \in Layers : Fed(l), [Next]_vars
    PROVE  TypeOK'
  <1> USE Oci2diskAssumption DEF TypeOK
  <1>1. CASE \E m \in Layers : Writer(m)
    BY <1>1 DEF Writer, layer, env
  <1>2. CASE \E m \in Layers : FetchChunk(m)
    <2>1. PICK m \in Layers : FetchChunk(m)
      BY <1>2
    <2>2. bad' \subseteq titled
      BY <2>1 DEF FetchChunk
    <2> QED
      BY <2>1, <2>2 DEF FetchChunk
  <1>3. CASE \E m \in Layers : Push(m)
    <2>1. PICK m \in Layers : Push(m)
      BY <1>3
    <2>2. sent[m] \in 0..Chunks /\ sent[m] < Chunks
      BY <2>1 DEF Push, Fed
    <2>3. sent' \in [Layers -> 0..Chunks]
      BY <2>1, <2>2 DEF Push
    <2>4. f' \in [Layers -> {"none", "header", "first", "read", "write", "exit"}]
      BY <2>1 DEF Push
    <2> QED
      BY <2>1, <2>3, <2>4 DEF Push, env
  <1>4. CASE \E m \in Layers : BlobEnds(m)
    <2>1. PICK m \in Layers : BlobEnds(m)
      BY <1>4
    <2>2. bad' \subseteq titled
      BY <2>1 DEF BlobEnds
    <2> QED
      BY <2>1, <2>2 DEF BlobEnds
  <1>5. CASE \E m \in Layers : CopyFails(m)
    BY <1>5 DEF CopyFails, layer, env
  <1>6. CASE \E m \in Layers : Commit(m)
    BY <1>6 DEF Commit, layer, env
  <1>7. CASE \E m \in Layers : Committed(m)
    BY <1>7 DEF Committed, layer, env
  <1>8. CASE \E m \in Layers : NoDecompressor(m)
    BY <1>8 DEF NoDecompressor, layer, env
  <1>9. CASE \E m \in Layers : Decompressor(m)
    BY <1>9 DEF Decompressor, layer, env
  <1>10. CASE \E m \in Layers : WriteDevice(m)
    <2>1. PICK m \in Layers : WriteDevice(m)
      BY <1>10
    <2>2. <<m, sent[m]>> \in Layers \X (1..Chunks)
      BY <2>1 DEF WriteDevice, Fed
    <2>3. disk' \in Seq(Layers \X (1..Chunks))
      BY <2>1, <2>2, AppendOne DEF WriteDevice
    <2> QED
      BY <2>1, <2>3 DEF WriteDevice, env
  <1>11. CASE \E m \in Layers : Abort(m)
    BY <1>11 DEF Abort, layer, env
  <1>12. CASE \E m \in Layers : End(m)
    BY <1>12 DEF End, layer, env
  <1>13. CASE PullFails
    BY <1>13 DEF PullFails, layer, env
  <1>14. CASE PullReturns
    BY <1>14 DEF PullReturns, layer, env
  <1>15. CASE GoSilent
    BY <1>15 DEF GoSilent, layer, env
  <1>16. CASE UNCHANGED vars
    BY <1>16 DEF vars, layer, env
  <1> QED
    BY <1>1, <1>2, <1>3, <1>4, <1>5, <1>6, <1>7, <1>8,
       <1>9, <1>10, <1>11, <1>12, <1>13, <1>14, <1>15, <1>16 DEF Next, Copier, F

-----------------------------------------------------------------------------
(* The copier and f.                                                       *)

\* At the start every layer waits for its writer.
LEMMA InitFed == Init => Returned /\ \A l \in Layers : Fed(l)
  BY Oci2diskAssumption DEF Init, Returned, Fed

\* What a step does to another layer than its own does not reach this one.
LEMMA FedStep ==
    ASSUME TypeOK, \A l \in Layers : Fed(l), [Next]_vars
    PROVE  \A l \in Layers : Fed(l)'
  <1> SUFFICES ASSUME NEW l \in Layers PROVE Fed(l)'
    OBVIOUS
  <1> USE Oci2diskAssumption DEF TypeOK, Fed, layer, env
  <1>1. CASE \E m \in Layers : Writer(m)
    BY <1>1 DEF Writer
  <1>2. CASE \E m \in Layers : FetchChunk(m)
    BY <1>2 DEF FetchChunk
  <1>3. CASE \E m \in Layers : Push(m)
    BY <1>3 DEF Push
  <1>4. CASE \E m \in Layers : BlobEnds(m)
    BY <1>4 DEF BlobEnds
  <1>5. CASE \E m \in Layers : CopyFails(m)
    BY <1>5 DEF CopyFails
  <1>6. CASE \E m \in Layers : Commit(m)
    BY <1>6 DEF Commit
  <1>7. CASE \E m \in Layers : Committed(m)
    BY <1>7 DEF Committed
  <1>8. CASE \E m \in Layers : NoDecompressor(m)
    BY <1>8 DEF NoDecompressor
  <1>9. CASE \E m \in Layers : Decompressor(m)
    BY <1>9 DEF Decompressor
  <1>10. CASE \E m \in Layers : WriteDevice(m)
    BY <1>10 DEF WriteDevice
  <1>11. CASE \E m \in Layers : Abort(m)
    BY <1>11 DEF Abort
  <1>12. CASE \E m \in Layers : End(m)
    BY <1>12 DEF End
  <1>13. CASE PullFails
    BY <1>13 DEF PullFails
  <1>14. CASE PullReturns
    BY <1>14 DEF PullReturns
  <1>15. CASE GoSilent
    BY <1>15 DEF GoSilent
  <1>16. CASE UNCHANGED vars
    BY <1>16 DEF vars
  <1> QED
    BY <1>1, <1>2, <1>3, <1>4, <1>5, <1>6, <1>7, <1>8,
       <1>9, <1>10, <1>11, <1>12, <1>13, <1>14, <1>15, <1>16 DEF Next, Copier, F

\* Returned: main looks at every copier, and none moves afterwards.
LEMMA ReturnedStep ==
    ASSUME TypeOK, Returned, [Next]_vars
    PROVE  Returned'
  <1> USE DEF TypeOK, Returned, layer, env
  <1>1. CASE \E m \in Layers : Writer(m)
    BY <1>1 DEF Writer
  <1>2. CASE \E m \in Layers : FetchChunk(m)
    BY <1>2 DEF FetchChunk
  <1>3. CASE \E m \in Layers : Push(m)
    BY <1>3 DEF Push
  <1>4. CASE \E m \in Layers : BlobEnds(m)
    BY <1>4 DEF BlobEnds
  <1>5. CASE \E m \in Layers : CopyFails(m)
    BY <1>5 DEF CopyFails
  <1>6. CASE \E m \in Layers : Commit(m)
    BY <1>6 DEF Commit
  <1>7. CASE \E m \in Layers : Committed(m)
    BY <1>7 DEF Committed
  <1>8. CASE \E m \in Layers : NoDecompressor(m)
    BY <1>8 DEF NoDecompressor
  <1>9. CASE \E m \in Layers : Decompressor(m)
    BY <1>9 DEF Decompressor
  <1>10. CASE \E m \in Layers : WriteDevice(m)
    BY <1>10 DEF WriteDevice
  <1>11. CASE \E m \in Layers : Abort(m)
    BY <1>11 DEF Abort
  <1>12. CASE \E m \in Layers : End(m)
    BY <1>12 DEF End
  <1>13. CASE PullFails
    BY <1>13 DEF PullFails
  <1>14. CASE PullReturns
    BY <1>14 DEF PullReturns
  <1>15. CASE GoSilent
    BY <1>15 DEF GoSilent
  <1>16. CASE UNCHANGED vars
    BY <1>16 DEF vars
  <1> QED
    BY <1>1, <1>2, <1>3, <1>4, <1>5, <1>6, <1>7, <1>8,
       <1>9, <1>10, <1>11, <1>12, <1>13, <1>14, <1>15, <1>16 DEF Next, Copier, F

-----------------------------------------------------------------------------
(* The device.                                                             *)

\* Nothing is on the device at the start.
LEMMA InitDevice == Init => \A l \in Layers : Landing(l) /\ Alone(l)
  <1> SUFFICES ASSUME Init, NEW l \in Layers PROVE Landing(l) /\ Alone(l)
    OBVIOUS
  <1>1. disk = <<>> /\ DOMAIN disk = {} /\ Len(disk) = 0 /\ Landed(l) = 0
    BY DEF Init, Landed
  <1> QED
    BY <1>1 DEF Landing, Alone

\* A step without a write leaves what has landed: f takes a chunk out of the
\* pipe (Push), gives up with an error (Abort), or goes on.
LEMMA NoWrite ==
    ASSUME TypeOK, \A l \in Layers : Fed(l), [Next]_vars,
           ~\E m \in Layers : WriteDevice(m)
    PROVE  \A l \in Layers :
                /\ disk' = disk /\ titled' = titled
                /\ Landed(l) \in Int /\ Landed(l)' \in Int /\ Landed(l)' >= Landed(l)
                /\ done'[l] # "error" => done[l] # "error" /\ Landed(l)' = Landed(l)
  <1> SUFFICES ASSUME NEW l \in Layers
               PROVE  /\ disk' = disk /\ titled' = titled
                      /\ Landed(l) \in Int /\ Landed(l)' \in Int /\ Landed(l)' >= Landed(l)
                      /\ done'[l] # "error" => done[l] # "error" /\ Landed(l)' = Landed(l)
    OBVIOUS
  <1> USE Oci2diskAssumption DEF TypeOK, Fed, Landed, layer, env
  <1>1. CASE \E m \in Layers : Writer(m)
    <2>1. PICK m \in Layers : Writer(m)
      BY <1>1
    <2>2. /\ f[m] = "none" /\ f'[m] \in {"none", "header", "read"}
          /\ f'[l] = f[l] \/ l = m
          /\ UNCHANGED <<sent, done, titled, disk>>
      BY <2>1 DEF Writer
    <2> QED
      BY <2>2
  <1>2. CASE \E m \in Layers : FetchChunk(m)
    BY <1>2 DEF FetchChunk
  <1>3. CASE \E m \in Layers : Push(m)
    <2>1. PICK m \in Layers : Push(m)
      BY <1>3
    <2>2. /\ sent'[m] = sent[m] + 1 /\ (l # m => sent'[l] = sent[l] /\ f'[l] = f[l])
          /\ UNCHANGED <<done, titled, disk>>
      BY <2>1 DEF Push
    <2>3. m \in titled => \/ f[m] = "header" /\ f'[m] = "first"
                          \/ f[m] = "read" /\ f'[m] = "write"
      <3>1. f[m] = "header" => f'[m] = "first"
        BY <2>1 DEF Push
      <3>2. f[m] = "read" => f'[m] = "write"
        BY <2>1 DEF Push
      <3>3. m \in titled => f[m] \in {"header", "read"}
        BY <2>1 DEF Push
      <3> QED
        BY <3>1, <3>2, <3>3
    <2>4. CASE l = m
      <3>1. CASE l \in titled
        BY <2>2, <2>3, <2>4, <3>1
      <3>2. CASE l \notin titled
        BY <2>2, <2>4, <3>2
      <3> QED
        BY <3>1, <3>2
    <2>5. CASE l # m
      BY <2>2, <2>5
    <2> QED
      BY <2>4, <2>5
  <1>4. CASE \E m \in Layers : BlobEnds(m)
    BY <1>4 DEF BlobEnds
  <1>5. CASE \E m \in Layers : CopyFails(m)
    BY <1>5 DEF CopyFails
  <1>6. CASE \E m \in Layers : Commit(m)
    BY <1>6 DEF Commit
  <1>7. CASE \E m \in Layers : Committed(m)
    BY <1>7 DEF Committed
  <1>8. CASE \E m \in Layers : NoDecompressor(m)
    BY <1>8 DEF NoDecompressor
  <1>9. CASE \E m \in Layers : Decompressor(m)
    BY <1>9 DEF Decompressor
  <1>10. CASE \E m \in Layers : WriteDevice(m)
    BY <1>10
  <1>11. CASE \E m \in Layers : Abort(m)
    BY <1>11 DEF Abort
  <1>12. CASE \E m \in Layers : End(m)
    BY <1>12 DEF End
  <1>13. CASE PullFails
    BY <1>13 DEF PullFails
  <1>14. CASE PullReturns
    BY <1>14 DEF PullReturns
  <1>15. CASE GoSilent
    BY <1>15 DEF GoSilent
  <1>16. CASE UNCHANGED vars
    BY <1>16 DEF vars
  <1> QED
    BY <1>1, <1>2, <1>3, <1>4, <1>5, <1>6, <1>7, <1>8,
       <1>9, <1>10, <1>11, <1>12, <1>13, <1>14, <1>15, <1>16 DEF Next, Copier, F

\* A chunk of layer m arrives behind everything else.
LEMMA OneWrite ==
    ASSUME TypeOK, \A l \in Layers : Fed(l), NEW m \in Layers, WriteDevice(m)
    PROVE  /\ DOMAIN disk = 1..Len(disk) /\ Len(disk) \in Nat
           /\ DOMAIN disk' = 1..(Len(disk) + 1) /\ Len(disk') = Len(disk) + 1
           /\ \A a \in 1..Len(disk) : disk'[a] = disk[a]
           /\ disk'[Len(disk) + 1] = <<m, sent[m]>>
           /\ m \in titled /\ done[m] = "empty" /\ titled' = titled /\ done' = done
           /\ sent[m] \in 1..Chunks /\ Landed(m) = sent[m] - 1 /\ Landed(m)' = sent[m]
           /\ \A l \in Layers \ {m} : Landed(l) \in Int /\ Landed(l)' = Landed(l)
  <1> USE Oci2diskAssumption
  <1>1. sent[m] \in 1..Chunks /\ m \in titled /\ done[m] = "empty" /\ f[m] = "write"
    BY DEF TypeOK, Fed, WriteDevice
  <1>2. titled' = titled /\ done' = done /\ sent' = sent /\ f'[m] = "read"
    BY DEF TypeOK, WriteDevice, env
  <1>3. \A l \in Layers \ {m} : f'[l] = f[l]
    BY DEF TypeOK, WriteDevice
  <1>4. Landed(m) = sent[m] - 1 /\ Landed(m)' = sent[m]
    BY <1>1, <1>2 DEF Landed
  <1>5. \A l \in Layers \ {m} : Landed(l) \in Int /\ Landed(l)' = Landed(l)
    BY <1>2, <1>3 DEF Landed, TypeOK
  <1>6. <<m, sent[m]>> \in Layers \X (1..Chunks) /\ disk \in Seq(Layers \X (1..Chunks))
    BY <1>1 DEF TypeOK
  <1>7. disk' = Append(disk, <<m, sent[m]>>)
    BY DEF WriteDevice
  <1>8. /\ DOMAIN disk = 1..Len(disk) /\ Len(disk) \in Nat
        /\ DOMAIN disk' = 1..(Len(disk) + 1) /\ Len(disk') = Len(disk) + 1
        /\ \A a \in 1..Len(disk) : disk'[a] = disk[a]
        /\ disk'[Len(disk) + 1] = <<m, sent[m]>>
    <2> DEFINE w == <<m, sent[m]>>
               S == Layers \X (1..Chunks)
    <2> HIDE DEF w, S
    <2>1. w \in S /\ disk \in Seq(S) /\ disk' = Append(disk, w)
      BY <1>6, <1>7 DEF w, S
    <2>2. /\ Len(Append(disk, w)) = Len(disk) + 1
          /\ Len(disk) \in Nat /\ DOMAIN disk = 1..Len(disk)
          /\ DOMAIN Append(disk, w) = 1..(Len(disk) + 1)
          /\ \A a \in 1..Len(disk) : Append(disk, w)[a] = disk[a]
          /\ Append(disk, w)[Len(disk) + 1] = w
      BY <2>1, AppendOne
    <2> QED
      BY <2>1, <2>2 DEF w
  <1> QED
    BY <1>1, <1>2, <1>4, <1>5, <1>8

\* The chunks of a layer stay in order, whichever layer writes.
LEMMA LandingWrite ==
    ASSUME TypeOK, \A l \in Layers : Fed(l), NEW m \in Layers, WriteDevice(m),
           NEW l \in Layers, Landing(l)
    PROVE  Landing(l)'
  <1> USE Oci2diskAssumption, OneWrite
  <1> DEFINE n == Len(disk)
  <1>0. Landed(l) \in Int /\ Landed(l)' \in Int /\ Landed(l) <= Landed(l)'
    BY DEF Landed
  <1> SUFFICES /\ \A a \in 1..(n + 1) : \A k \in 1..Chunks : disk'[a] = <<l, k>> => k <= Landed(l)'
               /\ \A a, b \in 1..(n + 1) : \A k, j \in 1..Chunks :
                    disk'[a] = <<l, k>> /\ disk'[b] = <<l, j>> /\ a < b => k < j
               /\ done'[l] # "error" =>
                    \A k \in 1..Landed(l)' : \E a \in 1..(n + 1) : disk'[a] = <<l, k>>
    BY DEF Landing
  <1>1. ASSUME NEW k \in 1..Chunks, disk'[n + 1] = <<l, k>>
        PROVE  l = m /\ k = sent[m]
    BY <1>1
  <1>2. ASSUME NEW a \in 1..(n + 1), NEW k \in 1..Chunks, disk'[a] = <<l, k>>
        PROVE  /\ k <= Landed(l)'
               /\ a < n + 1 => k <= Landed(l)
    <2>1. CASE a \in 1..n
      <3>1. disk[a] = <<l, k>> /\ a \in DOMAIN disk
        BY <1>2, <2>1
      <3>2. k \in Int /\ (k <= Landed(l) => k <= Landed(l)')
        BY <1>0
      <3> QED
        BY <2>1, <3>1, <3>2 DEF Landing
    <2>2. CASE a = n + 1
      BY <1>1, <1>2, <2>2
    <2> QED
      BY <2>1, <2>2
  <1>3. ASSUME NEW a \in 1..(n + 1), NEW b \in 1..(n + 1), NEW k \in 1..Chunks, NEW j \in 1..Chunks,
               disk'[a] = <<l, k>>, disk'[b] = <<l, j>>, a < b
        PROVE  k < j
    <2>1. CASE b \in 1..n
      <3>1. disk[a] = <<l, k>> /\ disk[b] = <<l, j>> /\ a \in 1..n
        BY <1>3, <2>1
      <3> QED
        BY <1>3, <2>1, <3>1 DEF Landing
    <2>2. CASE b = n + 1
      <3>1. l = m /\ j = sent[m]
        BY <1>1, <1>3, <2>2
      <3>2. k <= Landed(l)
        BY <1>2, <1>3, <2>2
      <3> QED
        BY <3>1, <3>2
    <2> QED
      BY <2>1, <2>2
  <1>4. ASSUME done'[l] # "error", NEW k \in 1..Landed(l)'
        PROVE  \E a \in 1..(n + 1) : disk'[a] = <<l, k>>
    <2>1. CASE k \in 1..Landed(l)
      <3>1. PICK a \in 1..n : disk[a] = <<l, k>>
        BY <1>4, <2>1 DEF Landing
      <3> QED
        BY <3>1
    <2>2. CASE k \notin 1..Landed(l)
      <3>1. l = m /\ k = sent[m]
        BY <1>0, <1>4, <2>2
      <3> QED
        BY <3>1
    <2> QED
      BY <2>1, <2>2
  <1> QED
    BY <1>2, <1>3, <1>4

\* A layer without company writes its next chunk to the next place.
LEMMA AloneWrite ==
    ASSUME TypeOK, \A l \in Layers : Fed(l), NEW m \in Layers, WriteDevice(m),
           NEW l \in Layers, Alone(l)
    PROVE  Alone(l)'
  <1> USE OneWrite
  <1> SUFFICES ASSUME titled = {l}
               PROVE  /\ \A a \in 1..(Len(disk) + 1) : disk'[a] = <<l, a>>
                      /\ Len(disk) + 1 = Landed(l)'
    BY DEF Alone
  <1>1. l = m /\ Len(disk) = sent[m] - 1 /\ \A a \in 1..Len(disk) : disk[a] = <<l, a>>
    BY DEF Alone
  <1>2. \A a \in 1..Len(disk) : disk'[a] = <<l, a>>
    BY <1>1
  <1>3. disk'[Len(disk) + 1] = <<l, Len(disk) + 1>>
    BY <1>1
  <1>4. Len(disk) + 1 = Landed(l)'
    BY <1>1
  <1> QED
    BY <1>2, <1>3, <1>4

\* Every step keeps both.
LEMMA DeviceStep ==
    ASSUME TypeOK, \A l \in Layers : Fed(l), [Next]_vars,
           NEW l \in Layers, Landing(l), Alone(l)
    PROVE  Landing(l)' /\ Alone(l)'
  <1>1. CASE \E m \in Layers : WriteDevice(m)
    BY <1>1, LandingWrite, AloneWrite
  <1>2. CASE ~\E m \in Layers : WriteDevice(m)
    <2>1. /\ disk' = disk /\ titled' = titled
          /\ Landed(l) \in Int /\ Landed(l)' \in Int /\ Landed(l)' >= Landed(l)
          /\ done'[l] # "error" => done[l] # "error" /\ Landed(l)' = Landed(l)
      BY <1>2, NoWrite
    <2> QED
      BY <2>1, Oci2diskAssumption DEF Landing, Alone
  <1> QED
    BY <1>1, <1>2

-----------------------------------------------------------------------------
(* The theorems.                                                           *)

\* The picture of the pull is true at every moment.
THEOREM Invariance == Spec => []IInv
  <1>1. Init => IInv
    BY InitTypes, InitFed, InitDevice DEF IInv
  <1>2. IInv /\ [Next]_vars => IInv'
    <2> SUFFICES ASSUME IInv, [Next]_vars PROVE IInv'
      OBVIOUS
    <2>1. TypeOK /\ Returned /\ \A l \in Layers : Fed(l)
      BY DEF IInv
    <2>2. TypeOK' /\ Returned'
      BY <2>1, TypeStep, ReturnedStep
    <2>3. \A l \in Layers : Fed(l)'
      BY <2>1, FedStep
    <2>4. \A l \in Layers : Landing(l)' /\ Alone(l)'
      BY <2>1, DeviceStep DEF IInv
    <2> QED
      BY <2>2, <2>3, <2>4 DEF IInv
  <1> QED
    BY <1>1, <1>2, PTL DEF Spec

\* Every variable keeps its type: no more chunks than a layer has, and nothing
\* on the device that is not a chunk of a layer.
THEOREM TypeCorrect == Spec => []TypeOK
  <1>1. IInv => TypeOK
    BY DEF IInv
  <1> QED
    BY Invariance, <1>1, PTL

\* CompressionChecks: Commit checks nothing, but with COMPRESSED an error in
\* done keeps a layer that came short or altered from a success.
THEOREM CorruptionFound == Spec => []CompressionChecks
  <1>1. IInv => CompressionChecks
    <2> SUFFICES ASSUME IInv, main = "ok", compressed, NEW l \in bad PROVE FALSE
      BY DEF CompressionChecks
    <2>1. l \in titled /\ l \in Layers /\ copier[l] = "ok"
      BY DEF IInv, TypeOK, Returned
    <2> QED
      BY <2>1 DEF IInv, Fed
  <1> QED
    BY Invariance, <1>1, PTL

\* At a success, a titled layer that came as published has landed.
LEMMA SuccessLands ==
    ASSUME IInv, main = "ok", NEW l \in titled \ bad
    PROVE  l \in Layers /\ done[l] = "nil" /\ Landed(l) = Chunks
  <1>1. l \in Layers /\ copier[l] = "ok"
    BY DEF IInv, TypeOK, Returned
  <1>2. done[l] = "nil" /\ f[l] = "exit" /\ sent[l] = Chunks
    BY <1>1 DEF IInv, Fed
  <1> QED
    BY <1>1, <1>2 DEF Landed

\* SuccessMeansWhole: "Successfully written" means every titled layer whole and
\* in order, or a registry that served something else.
THEOREM SuccessWhole == Spec => []SuccessMeansWhole
  <1>1. IInv => SuccessMeansWhole
    <2> SUFFICES ASSUME IInv, main = "ok" PROVE SuccessMeansWhole
      BY DEF SuccessMeansWhole
    <2>1. ASSUME NEW l \in titled \ bad PROVE Holds(l)
      <3>1. l \in Layers /\ done[l] = "nil" /\ Landed(l) = Chunks
        BY SuccessLands
      <3> QED
        BY <3>1 DEF IInv, Landing, Holds
    <2>2. ASSUME NEW l \in Layers, titled = {l}, bad = {} PROVE disk = Image(l)
      <3>1. done[l] = "nil" /\ Landed(l) = Chunks
        BY <2>2, SuccessLands
      <3>2. Len(disk) = Chunks /\ \A a \in 1..Len(disk) : disk[a] = <<l, a>>
        BY <2>2, <3>1 DEF IInv, Alone
      <3>3. disk = [a \in 1..Len(disk) |-> disk[a]]
        BY DEF IInv, TypeOK
      <3> QED
        BY <3>2, <3>3 DEF Image
    <2> QED
      BY <2>1, <2>2 DEF SuccessMeansWhole
  <1> QED
    BY Invariance, <1>1, PTL
-----------------------------------------------------------------------------
(* The promise.                                                            *)

\* Nothing is on the device at the start, and the artifact is what it is.
LEMMA InitPromise == Init => Promise!Init
  <1> SUFFICES ASSUME Init PROVE Promise!Init
    OBVIOUS
  <1>1. Len(disk) = 0 /\ main = "pull"
    BY DEF Init
  <1> QED
    BY <1>1, Oci2diskAssumption DEF Promise!Init

\* The flaw: an artifact without exactly one titled layer, or a bad layer.
Flawed == Cardinality(titled) # 1 \/ bad # {}

\* A step that writes nothing, spoils nothing and brings no result is not seen.
LEMMA Unseen ==
    ASSUME UNCHANGED <<disk, titled, bad, main>>
    PROVE  UNCHANGED Promise!vars
  BY DEF Promise!vars

\* Without a flaw there is one titled layer, and it is not bad.
LEMMA Flawless ==
    ASSUME TypeOK, ~Flawed
    PROVE  \E l \in Layers : titled = {l} /\ bad = {}
  <1>1. IsFiniteSet(titled) /\ Cardinality(titled) = 1
    BY FS_Subset, Oci2diskAssumption DEF TypeOK, Flawed
  <1>2. PICK l : titled = {l}
    BY <1>1, FS_Singleton
  <1> QED
    BY <1>2 DEF TypeOK, Flawed

\* A layer that comes short or altered is a flaw from then on.
LEMMA Spoiled ==
    ASSUME TypeOK, main = "pull", UNCHANGED <<disk, titled, main>>,
           NEW l \in Layers, bad' \in {bad, bad \cup ({l} \cap titled)}
    PROVE  [Promise!Next]_Promise!vars
  <1>1. CASE bad' = bad
    BY <1>1, Unseen
  <1>2. CASE bad' # bad
    <2>1. bad' # {}
      BY <1>2
    <2>2. Promise!Spoil
      BY <2>1 DEF Promise!Spoil
    <2> QED
      BY <2>2 DEF Promise!Next
  <1> QED
    BY <1>1, <1>2

\* Every step is a step of the promise, or one that it does not see.
LEMMA StepPromise == IInv /\ [Next]_vars => [Promise!Next]_Promise!vars
  <1> SUFFICES ASSUME IInv, [Next]_vars PROVE [Promise!Next]_Promise!vars
    OBVIOUS
  <1>0. TypeOK /\ \A l \in Layers : Fed(l)
    BY DEF IInv
  <1>1. ASSUME NEW m \in Layers, WriteDevice(m) PROVE [Promise!Next]_Promise!vars
    <2>1. Len(disk) \in Nat /\ Len(disk') = Len(disk) + 1 /\ titled' = titled
      BY <1>0, <1>1, OneWrite
    <2>2. main = "pull" /\ main' = main /\ bad' = bad
      BY <1>1 DEF WriteDevice, env
    <2>3. CASE Len(disk) < Chunks
      <3>1. Promise!Advance
        BY <2>1, <2>2, <2>3, Oci2diskAssumption DEF Promise!Advance
      <3> QED
        BY <3>1 DEF Promise!Next
    <2>4. CASE ~(Len(disk) < Chunks)
      <3>1. ~(Len(disk') < Chunks)
        BY <2>1, <2>4, Oci2diskAssumption
      <3> QED
        BY <2>1, <2>2, <2>4, <3>1 DEF Promise!vars
    <2> QED
      BY <2>3, <2>4
  <1>2. ASSUME NEW m \in Layers, FetchChunk(m) \/ BlobEnds(m) PROVE [Promise!Next]_Promise!vars
    <2>1. main = "pull" /\ UNCHANGED <<disk, titled, main>> /\ bad' \in {bad, bad \cup ({m} \cap titled)}
      BY <1>2 DEF FetchChunk, BlobEnds
    <2> QED
      BY <1>0, <2>1, Spoiled
  <1>3. ASSUME main = "pull", main' = "fail", UNCHANGED <<disk, titled, bad>>
        PROVE  [Promise!Next]_Promise!vars
    <2>1. Promise!Fail
      BY <1>3 DEF Promise!Fail
    <2> QED
      BY <2>1 DEF Promise!Next
  <1>4. CASE (\E m \in Layers : NoDecompressor(m)) \/ PullFails
    BY <1>3, <1>4 DEF NoDecompressor, PullFails, env
  <1>5. CASE PullReturns
    <2>1. main = "pull" /\ main' \in {"ok", "fail"} /\ UNCHANGED <<disk, titled, bad>>
      BY <1>5 DEF PullReturns, env
    <2>2. CASE main' = "ok"
      <3>1. \A l \in Layers : copier[l] = "ok"
        BY <1>5, <2>2 DEF PullReturns
      <3>2. Flawed \/ Len(disk) = Chunks
        <4> SUFFICES ASSUME ~Flawed PROVE Len(disk) = Chunks
          OBVIOUS
        <4>1. PICK l \in Layers : titled = {l} /\ bad = {}
          BY <1>0, Flawless
        <4>2. done[l] = "nil" /\ f[l] = "exit" /\ sent[l] = Chunks
          BY <3>1, <4>1 DEF IInv, Fed
        <4> QED
          BY <4>1, <4>2 DEF IInv, Alone, Landed
      <3>3. Promise!Succeed
        BY <2>1, <2>2, <3>2 DEF Promise!Succeed, Flawed
      <3> QED
        BY <3>3 DEF Promise!Next
    <2>3. CASE main' = "fail"
      BY <1>3, <2>1, <2>3
    <2> QED
      BY <2>1, <2>2, <2>3
  <1>6. ASSUME NEW m \in Layers,
               Writer(m) \/ Push(m) \/ CopyFails(m) \/ Commit(m) \/ Committed(m)
        PROVE  UNCHANGED Promise!vars
    BY <1>6, Unseen DEF Writer, Push, CopyFails, Commit, Committed, env
  <1>7. ASSUME NEW m \in Layers, Decompressor(m) \/ Abort(m) \/ End(m)
        PROVE  UNCHANGED Promise!vars
    BY <1>7, Unseen DEF Decompressor, Abort, End, env
  <1>8. CASE GoSilent \/ UNCHANGED vars
    BY <1>8, Unseen DEF GoSilent, vars, env
  <1> QED
    BY <1>1, <1>2, <1>4, <1>5, <1>6, <1>7, <1>8 DEF Next, Copier, F

\* KeepsPromise: image.Write implements the transfer.
THEOREM PromiseKept == Spec => KeepsPromise
  BY InitPromise, Invariance, StepPromise, PTL DEF Spec, KeepsPromise, Promise!Spec

-----------------------------------------------------------------------------
(* The end of the pull.  HealthyPullReturns needs fairness, which is       *)
(* checked and not proved; the two facts it rests on are steps and states. *)

\* What the copier and f of a layer have left to do, at most.
CopierLeft(l) ==
    CASE copier[l] = "writer" -> 8
      [] copier[l] = "copy" -> 5
      [] copier[l] = "push" -> 4
      [] copier[l] = "commit" -> 3
      [] copier[l] = "wait" -> 2
      [] OTHER -> 0

FLeft(l) == CASE f[l] = "first" -> 3
              [] f[l] = "write" -> 2
              [] f[l] \in {"header", "read"} -> 1
              [] OTHER -> 0

LayerLeft(l) == 5 * (Chunks - sent[l]) + CopierLeft(l) + FLeft(l)

\* One layer has less to do and the others as much as before, or what happens
\* once happens: the pull ends, the registry goes silent.
LayerAdvances(l) == LayerLeft(l)' < LayerLeft(l) /\ \A m \in Layers \ {l} : LayerLeft(m)' = LayerLeft(m)

PullAdvances == \/ \E l \in Layers : LayerAdvances(l)
                \/ main = "pull" /\ main' # "pull"
                \/ ~silent /\ silent'

\* f runs for every titled layer whose copier does, leaves a word in done, and
\* the copier waits for that word with its pipe closed.
Manned(l) ==
    /\ copier[l] # "writer" /\ l \in titled => f[l] # "none"
    /\ f[l] = "exit" => done[l] # "empty"
    /\ copier[l] = "wait" => closed[l] /\ l \in titled

\* The next call of the copier, or of f, can be made.
CopierReady(l) ==
    \/ copier[l] \in {"writer", "commit"}
    \/ copier[l] = "copy" /\ (~silent \/ \E m \in Layers : copier[m] = "error")
    \/ copier[l] = "push" /\ (l \in titled => f[l] \in {"header", "read"})
    \/ copier[l] = "wait" /\ done[l] # "empty"

FReady(l) == f[l] \in {"header", "first", "write"} \/ (f[l] = "read" /\ closed[l])

Ended(l) == copier[l] \in {"ok", "error"}

\* Two ways to wait for ever: for a registry that has gone silent, and with a
\* chunk in the pipe whose reader has returned with an error.
WaitsForRegistry(l) == copier[l] = "copy" /\ silent
WaitsForReader(l) == copier[l] = "push" /\ l \in titled /\ f[l] = "exit" /\ done[l] = "error"

\* What is left to do is a count.
LEMMA LayerCount == TypeOK => \A l \in Layers : LayerLeft(l) \in 0..(5 * Chunks + 11)
  <1> SUFFICES ASSUME TypeOK, NEW l \in Layers PROVE LayerLeft(l) \in 0..(5 * Chunks + 11)
    OBVIOUS
  <1>1. CopierLeft(l) \in 0..8 /\ FLeft(l) \in 0..3
    BY DEF CopierLeft, FLeft
  <1>2. sent[l] \in 0..Chunks
    BY DEF TypeOK
  <1> QED
    BY <1>1, <1>2, Oci2diskAssumption DEF LayerLeft

\* A step of layer l does not touch what another one has to do.
LEMMA OtherLayers ==
    ASSUME NEW l \in Layers, NEW m \in Layers \ {l},
           copier'[m] = copier[m], sent'[m] = sent[m], f'[m] = f[m]
    PROVE  LayerLeft(m)' = LayerLeft(m)
  BY DEF LayerLeft, CopierLeft, FLeft

\* Every call of a copier or of f leaves its layer with less to do.
LEMMA LayerStep ==
    ASSUME TypeOK, \A l \in Layers : Fed(l), NEW l \in Layers, Copier(l) \/ F(l), main' = main
    PROVE  LayerAdvances(l)
  <1>1. \A m \in Layers \ {l} : copier'[m] = copier[m] /\ sent'[m] = sent[m] /\ f'[m] = f[m]
    BY DEF Copier, F, Writer, FetchChunk, Push, BlobEnds, CopyFails, Commit, Committed,
           NoDecompressor, Decompressor, WriteDevice, Abort, End, TypeOK, layer
  <1>2. LayerLeft(l)' < LayerLeft(l)
    <2> USE Oci2diskAssumption DEF TypeOK, LayerLeft, CopierLeft, FLeft
    <2>1. CASE Writer(l)
      BY <2>1 DEF Writer
    <2>2. CASE FetchChunk(l)
      BY <2>2 DEF FetchChunk
    <2>3. CASE Push(l)
      BY <2>3 DEF Push, Fed
    <2>4. CASE BlobEnds(l)
      BY <2>4 DEF BlobEnds
    <2>5. CASE CopyFails(l)
      BY <2>5 DEF CopyFails
    <2>6. CASE Commit(l)
      BY <2>6 DEF Commit
    <2>7. CASE Committed(l)
      BY <2>7 DEF Committed
    <2>8. CASE Decompressor(l)
      BY <2>8 DEF Decompressor
    <2>9. CASE WriteDevice(l)
      BY <2>9 DEF WriteDevice
    <2>10. CASE Abort(l)
      BY <2>10 DEF Abort
    <2>11. CASE End(l)
      BY <2>11 DEF End
    <2>12. ~NoDecompressor(l)
      BY DEF NoDecompressor
    <2> QED
      BY <2>1, <2>2, <2>3, <2>4, <2>5, <2>6, <2>7, <2>8, <2>9, <2>10, <2>11, <2>12 DEF Copier, F
  <1> QED
    BY <1>1, <1>2, OtherLayers DEF LayerAdvances

\* The safety half of HealthyPullReturns, part one: no pull goes on for ever.
\* Each layer takes at most 5 * Chunks + 11 steps, and there are two more.
THEOREM PullIsBounded ==
    Spec => /\ [](\A l \in Layers : LayerLeft(l) \in 0..(5 * Chunks + 11))
            /\ [][PullAdvances]_vars
  <1>1. IInv => \A l \in Layers : LayerLeft(l) \in 0..(5 * Chunks + 11)
    BY LayerCount DEF IInv
  <1>2. IInv /\ [Next]_vars => [PullAdvances]_vars
    <2> SUFFICES ASSUME IInv, Next PROVE PullAdvances
      OBVIOUS
    <2>1. CASE \E l \in Layers : Copier(l) \/ F(l)
      <3>1. PICK l \in Layers : Copier(l) \/ F(l)
        BY <2>1
      <3>2. CASE main' = main
        BY <3>1, <3>2, LayerStep DEF IInv, PullAdvances
      <3>3. CASE main' # main
        BY <3>1, <3>3 DEF PullAdvances, Copier, F, Writer, FetchChunk, Push, BlobEnds, CopyFails,
                          Commit, Committed, NoDecompressor, Decompressor, WriteDevice, Abort, End
      <3> QED
        BY <3>2, <3>3
    <2>2. CASE PullFails \/ PullReturns
      BY <2>2 DEF PullFails, PullReturns, PullAdvances
    <2>3. CASE GoSilent
      BY <2>3 DEF GoSilent, PullAdvances
    <2> QED
      BY <2>1, <2>2, <2>3 DEF Next
  <1> QED
    BY <1>1, <1>2, Invariance, PTL DEF Spec

\* What the copier and f know of each other, step by step.
LEMMA MannedStep ==
    ASSUME TypeOK, \A l \in Layers : Manned(l), [Next]_vars
    PROVE  \A l \in Layers : Manned(l)'
  <1> SUFFICES ASSUME NEW l \in Layers PROVE Manned(l)'
    OBVIOUS
  <1> USE DEF TypeOK, Manned, layer, env
  <1>1. CASE \E m \in Layers : Writer(m)
    BY <1>1 DEF Writer
  <1>2. CASE \E m \in Layers : FetchChunk(m)
    BY <1>2 DEF FetchChunk
  <1>3. CASE \E m \in Layers : Push(m)
    BY <1>3 DEF Push
  <1>4. CASE \E m \in Layers : BlobEnds(m)
    BY <1>4 DEF BlobEnds
  <1>5. CASE \E m \in Layers : CopyFails(m)
    BY <1>5 DEF CopyFails
  <1>6. CASE \E m \in Layers : Commit(m)
    BY <1>6 DEF Commit
  <1>7. CASE \E m \in Layers : Committed(m)
    BY <1>7 DEF Committed
  <1>8. CASE \E m \in Layers : NoDecompressor(m)
    BY <1>8 DEF NoDecompressor
  <1>9. CASE \E m \in Layers : Decompressor(m)
    BY <1>9 DEF Decompressor
  <1>10. CASE \E m \in Layers : WriteDevice(m)
    BY <1>10 DEF WriteDevice
  <1>11. CASE \E m \in Layers : Abort(m)
    BY <1>11 DEF Abort
  <1>12. CASE \E m \in Layers : End(m)
    BY <1>12 DEF End
  <1>13. CASE PullFails
    BY <1>13 DEF PullFails
  <1>14. CASE PullReturns
    BY <1>14 DEF PullReturns
  <1>15. CASE GoSilent
    BY <1>15 DEF GoSilent
  <1>16. CASE UNCHANGED vars
    BY <1>16 DEF vars
  <1> QED
    BY <1>1, <1>2, <1>3, <1>4, <1>5, <1>6, <1>7, <1>8,
       <1>9, <1>10, <1>11, <1>12, <1>13, <1>14, <1>15, <1>16 DEF Next, Copier, F

\* A copier that cannot go on waits for f, and f can; or for one that has gone.
LEMMA SomebodyReady ==
    ASSUME TypeOK, NEW l \in Layers, Fed(l), Manned(l)
    PROVE  Ended(l) \/ CopierReady(l) \/ FReady(l) \/ WaitsForRegistry(l) \/ WaitsForReader(l)
  <1> USE DEF Ended, CopierReady, FReady, WaitsForRegistry, WaitsForReader
  <1>0. /\ copier[l] \in {"writer", "copy", "push", "commit", "wait", "ok", "error"}
        /\ f[l] \in {"none", "header", "first", "read", "write", "exit"}
        /\ done[l] \in {"empty", "nil", "error"}
    BY DEF TypeOK
  <1>1. CASE copier[l] = "push"
    BY <1>0, <1>1 DEF Manned, Fed
  <1>2. CASE copier[l] = "wait"
    BY <1>0, <1>2 DEF Manned
  <1>3. CASE copier[l] \notin {"push", "wait"}
    BY <1>0, <1>3
  <1> QED
    BY <1>1, <1>2, <1>3

\* Part two: as long as the pull goes on, every layer has ended or can go on,
\* or is stuck in one of the two ways; f and the copier never wait for each
\* other.  With every layer at its end the pull returns.
THEOREM NoMutualWait ==
    Spec => [](\A l \in Layers : \/ Ended(l) \/ CopierReady(l) \/ FReady(l)
                                 \/ WaitsForRegistry(l) \/ WaitsForReader(l))
  <1> DEFINE AllManned == \A l \in Layers : Manned(l)
             Moving == \A l \in Layers : \/ Ended(l) \/ CopierReady(l) \/ FReady(l)
                                         \/ WaitsForRegistry(l) \/ WaitsForReader(l)
  <1>1. Init => AllManned
    BY DEF Init, Manned
  <1>2. IInv /\ AllManned /\ [Next]_vars => AllManned'
    BY MannedStep DEF IInv
  <1>3. IInv /\ AllManned => Moving
    BY SomebodyReady DEF IInv
  <1>4. Spec => []Moving
    <2> HIDE DEF AllManned, Moving
    <2> QED
      BY <1>1, <1>2, <1>3, Invariance, PTL DEF Spec
  <1> QED
    BY <1>4
=============================================================================

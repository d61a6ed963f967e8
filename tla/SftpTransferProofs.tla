------------------------- MODULE SftpTransferProofs --------------------------
(***************************************************************************)
(* The safety of SftpTransfer for every file size, chunk size and number   *)
(* of workers, and however often the sftp client fails and the process is  *)
(* killed.                                                                 *)
(***************************************************************************)
EXTENDS SftpTransfer, FiniteSetTheorems, SequenceTheorems, TLAPS

\* The workers that have a job.
Busy == {w \in Workers : wpc[w] # "idle"}

\* Position p is in the chunk that starts at off.
InChunk(p, off) == off <= p /\ p < off + ChunkLen(off)

\* Position p is in a chunk that is queued or that a worker has not written yet.
Pending(p) ==
  \/ \E i \in 1 .. Len(jobs) : InChunk(p, jobs[i])
  \/ \E w \in Workers : wpc[w] \in {"ready", "read", "write"} /\ InChunk(p, chunk[w])

Types ==
  /\ size \in 0 .. FileSize
  /\ good \subseteq Positions
  /\ pc \in {"new", "prepare", "resume", "loop", "send", "wait", "close", "chmod", "returned"}
  /\ offset \in 0 .. FileSize
  /\ next \in Nat
  /\ wg \in Int
  /\ jobs \in Seq(Positions)
  /\ wpc \in [Workers -> {"idle", "ready", "read", "write", "progress", "finished"}]
  /\ chunk \in [Workers -> Nat]
  /\ written \in [Workers -> Nat]
  /\ progressOpen \in BOOLEAN
  /\ result \in {"none", "ok", "err"}

\* The wait group counts the jobs that are queued, those that workers have and
\* the one that is being handed over.
Counting == wg = Len(jobs) + Cardinality(Busy) + (IF pc = "send" THEN 1 ELSE 0)

\* What GetFile or PutFile knows where it is: past the loop everything was
\* handed over, and past Wait no job is left.
Phases ==
  /\ pc = "send" => next < FileSize
  /\ pc \in {"wait", "close", "chmod"} => next >= FileSize
  /\ pc \in {"loop", "send", "wait", "close", "chmod"} => offset < FileSize
  /\ pc \in {"close", "chmod"} => wg = 0
  /\ ~progressOpen => wg = 0 /\ pc \in {"chmod", "returned"}
  /\ result = "ok" => pc = "returned"

\* What a worker knows of its chunk, and what the destination's size says.
Chunks ==
  /\ \A w \in Workers : wpc[w] # "idle" => chunk[w] \in Positions
  /\ \A w \in Workers : wpc[w] \in {"write", "progress", "finished"} =>
       /\ written[w] <= ChunkLen(chunk[w])
       /\ \A p \in Positions : chunk[w] <= p /\ p < chunk[w] + written[w] => p \in good
  /\ \A w \in Workers : wpc[w] \in {"progress", "finished"} =>
       written[w] = ChunkLen(chunk[w])
  /\ \A p \in good : p < size

\* No position is forgotten: what was handed over is right or still pending.
Handed == \A p \in Positions : offset <= p /\ p < next => p \in good \/ Pending(p)

\* The file is whole from the offset on.
Whole == size = FileSize /\ \A p \in Positions : offset <= p => p \in good

\* The inductive invariant.
Inv == Types /\ Counting /\ Phases /\ Chunks /\ Handed /\ (result = "ok" => Whole)

\* A chunk that starts inside the file is not empty and ends inside the file.
LEMMA ChunkLenBounds ==
  ASSUME NEW off \in Positions
  PROVE  ChunkLen(off) \in 1 .. ChunkSize /\ off + ChunkLen(off) <= FileSize
  BY TransferAssumption DEF ChunkLen, Positions

\* The workers with a job are finitely many.
LEMMA BusyFinite == IsFiniteSet(Busy) /\ Cardinality(Busy) \in Nat
  BY TransferAssumption, FS_Subset, FS_CardinalityType DEF Busy

\* If the count is zero outside the hand-over, no job is queued and no worker
\* has one.
LEMMA ZeroIsIdle ==
  ASSUME Types, Counting, wg = 0
  PROVE  jobs = <<>> /\ Busy = {} /\ \A w \in Workers : wpc[w] = "idle"
<1>1. Len(jobs) \in Nat /\ Cardinality(Busy) \in Nat
  BY BusyFinite, LenProperties DEF Types
<1>2. Len(jobs) = 0 /\ Cardinality(Busy) = 0
  BY <1>1 DEF Counting
<1>3. Busy = {}
  BY <1>2, BusyFinite, FS_EmptySet
<1>4. jobs = <<>>
  BY <1>2, EmptySeq DEF Types
<1>5. QED
  BY <1>3, <1>4 DEF Busy

\* The invariant holds at the start.
LEMMA InitInv == Init => Inv
<1> SUFFICES ASSUME Init PROVE Inv
  OBVIOUS
<1>1. Types
  BY TransferAssumption DEF Init, Types, Positions
<1>2. Busy = {} /\ Cardinality(Busy) = 0
  BY FS_EmptySet DEF Init, Busy
<1>3. Counting
  BY <1>2 DEF Init, Counting
<1>4. Phases
  BY DEF Init, Phases
<1>5. Chunks
  BY TransferAssumption DEF Init, Chunks, Positions
<1>6. Handed
  BY TransferAssumption DEF Init, Handed, Positions
<1>7. QED
  BY <1>1, <1>3, <1>4, <1>5, <1>6 DEF Init, Inv

------------------------------------------------------------------------------
(* GetFile and PutFile *)

\* A step of the call that touches neither the queue nor the workers keeps
\* what is pending.
LEMMA SamePending ==
  ASSUME UNCHANGED <<jobs, wpc, chunk>>
  PROVE  Busy' = Busy /\ \A p : Pending(p)' <=> Pending(p)
  BY DEF Busy, Pending, InChunk

\* The steps before the loop, and the end.
LEMMA CallInv ==
  ASSUME Inv, CallReady \/ Prepare \/ PrepareFails \/ Resume \/ PoolWait \/ CloseProgress \/ Chmod
  PROVE  Inv'
<1> USE TransferAssumption DEF Inv, Types, Phases, Goto
<1>1. UNCHANGED <<jobs, wpc, chunk, written, good, size>>
  BY DEF CallReady, Prepare, PrepareFails, Resume, PoolWait, CloseProgress, Chmod, workVars, destVars
<1>2. Busy' = Busy /\ \A p : Pending(p)' <=> Pending(p)
  BY <1>1, SamePending
<1>3. Chunks'
  BY <1>1 DEF Chunks
<1>4. CASE CallReady
  BY <1>1, <1>2, <1>3, <1>4 DEF CallReady, Counting, Handed, Whole
<1>5. CASE Prepare
  BY <1>1, <1>2, <1>3, <1>5 DEF Prepare, Counting, Handed, Whole
<1>6. CASE PrepareFails
  BY <1>1, <1>2, <1>3, <1>6 DEF PrepareFails, Counting, Handed, Whole
<1>7. CASE Resume
  <2>1. PICK o \in {size, 0} :
          /\ offset' = o /\ next' = o
          /\ IF o >= FileSize THEN Goto("resume", "returned") /\ result' = "ok"
                              ELSE Goto("resume", "loop") /\ UNCHANGED result
          /\ UNCHANGED <<wg, progressOpen>>
    BY <1>7 DEF Resume, ResumeOffsets
  <2>2. Types' /\ Phases'
    BY <1>1, <2>1
  <2>3. Counting'
    BY <1>1, <1>2, <2>1 DEF Counting
  <2>4. Handed' /\ (result' = "ok" => Whole')
    BY <1>1, <2>1 DEF Handed, Whole, Positions
  <2>5. QED
    BY <1>3, <2>2, <2>3, <2>4
<1>8. CASE PoolWait
  BY <1>1, <1>2, <1>3, <1>8 DEF PoolWait, Counting, Handed, Whole
<1>9. CASE CloseProgress
  BY <1>1, <1>2, <1>3, <1>9 DEF CloseProgress, Counting, Handed, Whole
<1>10. CASE Chmod
  <2>1. wg = 0 /\ next >= FileSize /\ offset < FileSize
    BY <1>10 DEF Chmod
  <2>2. jobs = <<>> /\ \A w \in Workers : wpc[w] = "idle"
    BY <2>1, ZeroIsIdle
  <2>3. \A p \in Positions : ~Pending(p)
    BY <2>2 DEF Pending
  <2>4. \A p \in Positions : offset <= p => p \in good
    BY <2>1, <2>3 DEF Handed, Positions
  <2>5. FileSize - 1 \in good
    BY <2>1, <2>4 DEF Positions
  <2>6. Whole
    BY <2>4, <2>5 DEF Whole, Chunks
  <2>7. Whole'
    BY <1>1, <1>10, <2>6 DEF Chmod, Whole
  <2>8. QED
    BY <1>1, <1>2, <1>3, <1>10, <2>7 DEF Chmod, Counting, Handed
<1>11. QED
  BY <1>4, <1>5, <1>6, <1>7, <1>8, <1>9, <1>10

\* The loop: a chunk is counted, then queued.
LEMMA EnqueueInv == ASSUME Inv, EnqueueAdd \/ EnqueueSend PROVE Inv'
<1> USE TransferAssumption DEF Inv, Types, Phases, Goto
<1>1. UNCHANGED <<wpc, chunk, written, good, size, offset, result, progressOpen>>
  BY DEF EnqueueAdd, EnqueueSend, workVars, destVars
<1>2. Chunks' /\ Busy' = Busy /\ result # "ok"
  BY <1>1 DEF Chunks, Busy, EnqueueAdd, EnqueueSend
<1>3. Len(jobs) \in Nat /\ Cardinality(Busy) \in Nat
  BY BusyFinite, LenProperties
<1>4. CASE EnqueueAdd
  <2>1. \A p : Pending(p)' <=> Pending(p)
    BY <1>1, <1>4, SamePending DEF EnqueueAdd
  <2>2. Counting'
    BY <1>2, <1>3, <1>4 DEF EnqueueAdd, Counting
  <2>3. QED
    BY <1>1, <1>2, <1>4, <2>1, <2>2 DEF EnqueueAdd, Handed
<1>5. CASE EnqueueSend
  <2>1. next \in Positions /\ jobs' = Append(jobs, next) /\ next' = next + ChunkSize
    BY <1>5 DEF EnqueueSend, Positions
  <2>2. /\ jobs' \in Seq(Positions) /\ Len(jobs') = Len(jobs) + 1
        /\ \A i \in 1 .. Len(jobs) : jobs'[i] = jobs[i]
        /\ jobs'[Len(jobs) + 1] = next
    BY <2>1, AppendProperties
  <2>3. Types' /\ Phases'
    BY <1>1, <1>5, <2>1, <2>2 DEF EnqueueSend
  <2>4. Counting'
    BY <1>2, <1>3, <1>5, <2>2 DEF EnqueueSend, Counting
  <2>5. \A p \in Positions : Pending(p) => Pending(p)'
    <3>1. SUFFICES ASSUME NEW p \in Positions, NEW i \in 1 .. Len(jobs), InChunk(p, jobs[i])
                   PROVE  \E j \in 1 .. Len(jobs') : InChunk(p, jobs'[j])
      BY <1>1 DEF Pending, InChunk
    <3>2. i \in 1 .. Len(jobs') /\ jobs'[i] = jobs[i]
      BY <1>3, <2>2
    <3>3. QED
      BY <3>1, <3>2
  <2>6. \A p \in Positions : next <= p /\ p < next' => Pending(p)'
    <3>1. SUFFICES ASSUME NEW p \in Positions, next <= p, p < next'
                   PROVE  InChunk(p, next)
      BY <1>3, <2>2 DEF Pending, InChunk
    <3>2. QED
      BY <2>1, <3>1 DEF InChunk, ChunkLen, Positions
  <2>7. Handed'
    BY <1>1, <2>1, <2>5, <2>6 DEF Handed, Positions
  <2>8. QED
    BY <1>1, <1>2, <2>3, <2>4, <2>7
<1>6. QED
  BY <1>4, <1>5

------------------------------------------------------------------------------
(* The workers *)

\* A step within a job leaves the queue and the count alone.
LEMMA JobStep ==
  ASSUME Inv, NEW w \in Workers, NEW to \in {"ready", "read", "write", "progress", "finished"},
         wpc[w] # "idle", wpc' = [wpc EXCEPT ![w] = to],
         UNCHANGED <<pc, wg, jobs>>
  PROVE  Counting' /\ Busy' = Busy
  BY DEF Inv, Types, Counting, Busy

\* Waiting, reading and failing write nothing.
LEMMA ReadInv ==
  ASSUME Inv, NEW w \in Workers, ChunkReady(w) \/ ChunkRead(w) \/ ChunkFails(w)
  PROVE  Inv'
<1> USE DEF Step, destVars, progressVars
<1>1. PICK to \in {"read", "write", "ready"} :
        /\ wpc[w] \in {"ready", "read", "write"} /\ wpc' = [wpc EXCEPT ![w] = to]
        /\ to = "write" => written' = [written EXCEPT ![w] = 0]
        /\ to # "write" => UNCHANGED written
        /\ UNCHANGED <<pc, offset, next, result, progressOpen, wg, jobs, chunk, good, size>>
  BY DEF ChunkReady, ChunkRead, ChunkFails
<1>2. Counting'
  BY <1>1, JobStep
<1>3. Types' /\ Phases'
  <2>1. written' \in [Workers -> Nat]
    <3>1. written \in [Workers -> Nat]
      BY DEF Inv, Types
    <3>2. [written EXCEPT ![w] = 0] \in [Workers -> Nat]
      BY <3>1
    <3>3. QED
      BY <1>1, <3>1, <3>2
  <2>2. wpc' \in [Workers -> {"idle", "ready", "read", "write", "progress", "finished"}]
    BY <1>1 DEF Inv, Types
  <2>3. QED
    BY <1>1, <2>1, <2>2 DEF Inv, Types, Phases
<1>4. \A p : Pending(p)' <=> Pending(p)
  BY <1>1 DEF Pending, InChunk, Inv, Types
<1>5. Handed' /\ (result' = "ok" => Whole')
  BY <1>1, <1>4 DEF Handed, Whole, Inv
<1>6. ChunkLen(chunk[w]) \in Nat
  BY <1>1, ChunkLenBounds, TransferAssumption DEF Inv, Chunks
<1>7. Chunks'
  BY <1>1, <1>6, TransferAssumption DEF Chunks, Inv, Types, Positions
<1>8. QED
  BY <1>2, <1>3, <1>5, <1>7 DEF Inv

\* A write, short or not, extends what is right of the chunk.
LEMMA WriteInv == ASSUME Inv, NEW w \in Workers, ChunkWrite(w) PROVE Inv'
<1> USE TransferAssumption
<1>1. PICK k \in 1 .. ChunkLen(chunk[w]) - written[w] :
        /\ good' = good \cup (chunk[w] + written[w] .. chunk[w] + written[w] + k - 1)
        /\ size' = IF chunk[w] + written[w] + k > size THEN chunk[w] + written[w] + k ELSE size
        /\ written' = [written EXCEPT ![w] = @ + k]
  BY DEF ChunkWrite
<1>2. /\ wpc[w] = "write" /\ wpc' = [wpc EXCEPT ![w] = "write"] /\ wpc' = wpc
      /\ UNCHANGED <<pc, offset, next, result, progressOpen, wg, jobs, chunk>>
  BY DEF ChunkWrite, Step, Inv, Types
<1>3. chunk[w] \in Positions /\ written[w] \in Nat
  BY <1>2 DEF Inv, Chunks, Types
<1>4. ChunkLen(chunk[w]) \in 1 .. ChunkSize /\ chunk[w] + ChunkLen(chunk[w]) <= FileSize
  BY <1>3, ChunkLenBounds
<1>5. /\ written[w] + k <= ChunkLen(chunk[w])
      /\ chunk[w] + written[w] + k <= FileSize
      /\ k \in Nat /\ chunk[w] \in Nat
  BY <1>3, <1>4 DEF Positions
<1>6. Counting'
  BY <1>2 DEF Inv, Counting, Busy
<1>7. good' \subseteq Positions /\ good \subseteq good'
  <2>1. chunk[w] + written[w] .. chunk[w] + written[w] + k - 1 \subseteq Positions
    BY <1>3, <1>5 DEF Positions
  <2>2. good \subseteq Positions
    BY DEF Inv, Types
  <2>3. QED
    BY <1>1, <2>1, <2>2
<1>8. size' \in 0 .. FileSize /\ size <= size'
  BY <1>1, <1>3, <1>5 DEF Inv, Types
<1>9. written' \in [Workers -> Nat]
  BY <1>1, <1>3, <1>5 DEF Inv, Types
<1>10. Types' /\ Phases'
  BY <1>2, <1>7, <1>8, <1>9 DEF Inv, Types, Phases
<1>11. \A p : Pending(p)' <=> Pending(p)
  BY <1>2 DEF Pending, InChunk
<1>12. Handed' /\ (result' = "ok" => Whole')
  BY <1>2, <1>7, <1>8, <1>11 DEF Handed, Whole, Inv, Types
<1>13. \A p \in good' : p < size'
  BY SMTT(60), <1>1, <1>3, <1>5, <1>8 DEF Inv, Chunks, Types, Positions
<1>14. ASSUME NEW v \in Workers, wpc[v] \in {"write", "progress", "finished"}
       PROVE  /\ written'[v] <= ChunkLen(chunk[v])
              /\ \A p \in Positions : chunk[v] <= p /\ p < chunk[v] + written'[v] => p \in good'
  <2>1. CASE v # w
    BY <1>1, <1>7, <1>14, <2>1 DEF Inv, Chunks, Types
  <2>2. CASE v = w
    <3>1. written'[w] = written[w] + k
      BY SMTT(30), <1>1 DEF Inv, Types
    <3>2. \A p \in Positions : chunk[w] <= p /\ p < chunk[w] + written[w] => p \in good
      BY <1>2 DEF Inv, Chunks
    <3>3. \A p \in Positions :
            chunk[w] + written[w] <= p /\ p < chunk[w] + written[w] + k => p \in good'
      BY <1>1, <1>3, <1>5 DEF Positions
    <3>4. QED
      BY <1>3, <1>5, <1>7, <2>2, <3>1, <3>2, <3>3 DEF Positions
  <2>3. QED
    BY <2>1, <2>2
<1>15. \A v \in Workers : wpc[v] \in {"progress", "finished"} => written'[v] = ChunkLen(chunk[v])
  BY <1>1, <1>2 DEF Inv, Chunks, Types
<1>16. Chunks'
  BY <1>2, <1>13, <1>14, <1>15 DEF Inv, Chunks, ChunkLen
<1>17. QED
  BY SMTT(30), <1>6, <1>10, <1>12, <1>16 DEF Inv

\* A chunk that is written whole is no longer pending, and right.
LEMMA WrittenInv == ASSUME Inv, NEW w \in Workers, ChunkWritten(w) \/ SendProgress(w) PROVE Inv'
<1> USE DEF Step, destVars, progressVars
<1>1. PICK to \in {"progress", "finished"} :
        /\ wpc[w] \in {"write", "progress"} /\ wpc' = [wpc EXCEPT ![w] = to]
        /\ written[w] = ChunkLen(chunk[w])
        /\ UNCHANGED <<pc, offset, next, result, progressOpen, wg, jobs, chunk, written, good, size>>
  BY DEF ChunkWritten, SendProgress, Inv, Chunks
<1>2. Counting'
  BY <1>1, JobStep
<1>3. Types' /\ Phases'
  BY <1>1 DEF Inv, Types, Phases
<1>4. Chunks'
  BY <1>1 DEF Chunks, ChunkLen, Inv, Types
<1>5. \A p \in Positions : InChunk(p, chunk[w]) => p \in good
  BY <1>1 DEF Inv, Chunks, InChunk
<1>6. \A p \in Positions : Pending(p) => Pending(p)' \/ InChunk(p, chunk[w])
  BY <1>1 DEF Pending, InChunk, Inv, Types
<1>7. Handed' /\ (result' = "ok" => Whole')
  BY <1>1, <1>5, <1>6 DEF Handed, Whole, Inv
<1>8. QED
  BY SMTT(30), <1>2, <1>3, <1>4, <1>7 DEF Inv

\* Taking a job moves it from the queue to the worker.
LEMMA TakeInv == ASSUME Inv, NEW w \in Workers, TakeJob(w) PROVE Inv'
<1> USE DEF Step, destVars, progressVars
<1>1. /\ wpc[w] = "idle" /\ wpc' = [wpc EXCEPT ![w] = "ready"]
      /\ jobs # <<>> /\ jobs' = Tail(jobs) /\ chunk' = [chunk EXCEPT ![w] = Head(jobs)]
      /\ UNCHANGED <<pc, offset, next, result, progressOpen, wg, written, good, size>>
  BY DEF TakeJob
<1>2. /\ Head(jobs) \in Positions /\ Head(jobs) = jobs[1]
      /\ jobs' \in Seq(Positions) /\ Len(jobs') = Len(jobs) - 1 /\ Len(jobs) \in Nat
      /\ \A i \in 1 .. Len(jobs') : jobs'[i] = jobs[i + 1]
  BY <1>1, HeadTailProperties, LenProperties DEF Inv, Types
<1>3. Busy' = Busy \cup {w} /\ w \notin Busy
  BY <1>1 DEF Busy, Inv, Types
<1>4. Cardinality(Busy') = Cardinality(Busy) + 1
  BY <1>3, BusyFinite, FS_AddElement
<1>5. Counting'
  BY <1>1, <1>2, <1>4, BusyFinite DEF Inv, Counting
<1>6. Types' /\ Phases'
  <2>1. chunk' \in [Workers -> Nat]
    BY <1>1, <1>2 DEF Inv, Types, Positions
  <2>2. QED
    BY <1>1, <1>2, <2>1 DEF Inv, Types, Phases
<1>7. Chunks'
  BY SMTT(30), <1>1, <1>2 DEF Chunks, ChunkLen, Inv, Types
<1>8. ASSUME NEW p \in Positions, Pending(p) PROVE Pending(p)'
  <2>1. CASE \E v \in Workers : wpc[v] \in {"ready", "read", "write"} /\ InChunk(p, chunk[v])
    BY <1>1, <2>1 DEF Pending, InChunk, ChunkLen, Inv, Types
  <2>2. ASSUME NEW i \in 1 .. Len(jobs), InChunk(p, jobs[i]) PROVE Pending(p)'
    <3>1. CASE i = 1
      BY <1>1, <1>2, <2>2, <3>1 DEF Pending, InChunk, ChunkLen, Inv, Types
    <3>2. CASE i # 1
      <4>1. i - 1 \in 1 .. Len(jobs') /\ jobs'[i - 1] = jobs[i]
        BY <1>2, <3>2
      <4>2. QED
        BY <2>2, <4>1 DEF Pending, InChunk, ChunkLen
    <3>3. QED
      BY <3>1, <3>2
  <2>3. QED
    BY <1>8, <2>1, <2>2 DEF Pending
<1>9. Handed' /\ (result' = "ok" => Whole')
  BY <1>1, <1>8 DEF Handed, Whole, Inv
<1>10. QED
  BY <1>5, <1>6, <1>7, <1>9 DEF Inv

\* A job that is done is counted no more.
LEMMA DoneInv == ASSUME Inv, NEW w \in Workers, JobDone(w) PROVE Inv'
<1> USE DEF Step, destVars, progressVars
<1>1. /\ wpc[w] = "finished" /\ wpc' = [wpc EXCEPT ![w] = "idle"] /\ wg' = wg - 1
      /\ UNCHANGED <<pc, offset, next, result, progressOpen, jobs, chunk, written, good, size>>
  BY DEF JobDone
<1>2. Busy' = Busy \ {w} /\ w \in Busy
  BY <1>1 DEF Busy, Inv, Types
<1>3. Cardinality(Busy') = Cardinality(Busy) - 1
  BY <1>2, BusyFinite, FS_RemoveElement
<1>4. Counting'
  BY SMTT(30), <1>1, <1>3, BusyFinite, LenProperties DEF Inv, Types, Counting
<1>5. wg # 0
  BY <1>1, ZeroIsIdle DEF Inv
<1>6. Types' /\ Phases'
  BY <1>1, <1>5 DEF Inv, Types, Phases
<1>7. Chunks'
  BY <1>1 DEF Chunks, ChunkLen, Inv, Types
<1>8. \A p : Pending(p) => Pending(p)'
  BY <1>1 DEF Pending, InChunk, ChunkLen, Inv, Types
<1>9. Handed' /\ (result' = "ok" => Whole')
  BY <1>1, <1>8 DEF Handed, Whole, Inv
<1>10. QED
  BY <1>4, <1>6, <1>7, <1>9 DEF Inv

------------------------------------------------------------------------------
(* The rest of the system *)

\* The progress bar and the sftp client touch nothing of this; a crash leaves
\* only the destination.
LEMMA OthersInv ==
  ASSUME Inv, DrainProgress \/ SftpStep \/ SftpLost \/ Crash \/ UNCHANGED vars
  PROVE  Inv'
<1>1. CASE Crash
  <2>1. Types'
    BY <1>1, TransferAssumption DEF Crash, destVars, Inv, Types
  <2>2. Busy' = {} /\ Cardinality(Busy') = 0
    BY SMTT(60), <1>1, FS_EmptySet DEF Crash, Busy
  <2>3. Counting'
    BY <1>1, <2>2 DEF Crash, Counting
  <2>4. Phases' /\ Handed'
    BY <1>1 DEF Crash, Phases, Handed, Positions
  <2>5. Chunks'
    BY SMTT(30), <1>1 DEF Crash, destVars, Inv, Chunks
  <2>6. QED
    BY <1>1, <2>1, <2>3, <2>4, <2>5 DEF Crash, Inv
<1>2. ASSUME UNCHANGED <<destVars, callVars, wpc, chunk, written>> PROVE Inv'
  <2>1. Busy' = Busy /\ \A p : Pending(p)' <=> Pending(p)
    BY <1>2, SamePending DEF callVars
  <2>2. QED
    BY <1>2, <2>1
    DEF destVars, callVars, Inv, Types, Counting, Phases, Chunks, ChunkLen, Handed, Whole
<1>3. QED
  BY <1>1, <1>2 DEF DrainProgress, SftpStep, SftpLost, vars, workVars

\* Every reachable state satisfies the inductive invariant.
THEOREM Invariance == Spec => []Inv
<1>1. Inv /\ [Next]_vars => Inv'
  BY CallInv, EnqueueInv, ReadInv, WriteInv, WrittenInv, TakeInv, DoneInv, OthersInv
  DEF Next, CallStep, WorkerStep
<1>2. QED
  BY InitInv, <1>1, PTL DEF Spec

\* A call that succeeds has written everything from its offset to the end.
THEOREM CompleteOnSuccessAlways == Spec => []CompleteOnSuccess
<1>1. Inv => CompleteOnSuccess
  BY TransferAssumption DEF Inv, Types, Whole, CompleteOnSuccess, Positions
<1>2. QED
  BY Invariance, <1>1, PTL

\* No worker can send on progressCh once it is closed.
THEOREM NoSendAfterCloseAlways == Spec => []NoSendAfterClose
<1>1. Inv => NoSendAfterClose
  BY ZeroIsIdle DEF Inv, Phases, NoSendAfterClose
<1>2. QED
  BY Invariance, <1>1, PTL

------------------------------------------------------------------------------
(* What the progress bar is told *)

\* Worker w has a chunk that it has not reported.
Owes(w) == wpc[w] \in {"ready", "read", "write", "progress"}

\* The positions of the chunks that are queued or that a worker owes.
Unreported ==
  {p \in Positions : \/ \E i \in 1 .. Len(jobs) : InChunk(p, jobs[i])
                     \/ \E w \in Workers : Owes(w) /\ InChunk(p, chunk[w])}

\* Chunks that start at a and at b do not overlap.
Far(a, b) == a + ChunkSize <= b \/ b + ChunkSize <= a

\* No position is in two of the chunks that are queued or owed, nor in one that
\* the loop has still to hand over.
Apart ==
  /\ \A i \in 1 .. Len(jobs) : jobs[i] + ChunkSize <= next
  /\ \A w \in Workers : Owes(w) => chunk[w] + ChunkSize <= next
  /\ \A i, j \in 1 .. Len(jobs) : i # j => Far(jobs[i], jobs[j])
  /\ \A i \in 1 .. Len(jobs), w \in Workers : Owes(w) => Far(jobs[i], chunk[w])
  /\ \A v, w \in Workers : v # w /\ Owes(v) /\ Owes(w) => Far(chunk[v], chunk[w])

\* How far the loop has come.
Reach == IF next < FileSize THEN next ELSE FileSize

\* The inductive invariant of the progress: what was reported and what is owed
\* make up what was handed over.  The sum over the chunks is stated as the size
\* of a set of positions, which is why they have to be apart.
Told ==
  /\ reported \in Nat
  /\ pc \in {"new", "prepare", "resume"} => wg = 0 /\ reported = 0
  /\ Apart
  /\ pc \in {"loop", "send", "wait", "close", "chmod"} =>
       offset <= next /\ reported + Cardinality(Unreported) = Reach - offset
  /\ ~progressOpen => reported = FileSize - offset

\* The chunk at off is an interval of ChunkLen(off) positions.
LEMMA ChunkIsInterval ==
  ASSUME NEW off \in Positions
  PROVE  LET span == {p \in Positions : InChunk(p, off)}
         IN  IsFiniteSet(span) /\ Cardinality(span) = ChunkLen(off)
<1>1. ChunkLen(off) \in Nat /\ ChunkLen(off) >= 1 /\ off + ChunkLen(off) <= FileSize
  BY ChunkLenBounds, TransferAssumption
<1>2. off \in Nat /\ off \in Int /\ off + ChunkLen(off) - 1 \in Int
  BY <1>1, TransferAssumption DEF Positions
<1>3. {p \in Positions : InChunk(p, off)} = off .. off + ChunkLen(off) - 1
  BY <1>1, <1>2, TransferAssumption DEF InChunk, Positions
<1>4. /\ IsFiniteSet(off .. off + ChunkLen(off) - 1)
      /\ Cardinality(off .. off + ChunkLen(off) - 1) = ChunkLen(off)
  BY <1>1, <1>2, FS_Interval
<1>5. QED
  BY <1>3, <1>4

\* Chunks that are apart share no position.
LEMMA FarIsDisjoint ==
  ASSUME NEW a \in Positions, NEW b \in Positions, Far(a, b),
         NEW p \in Positions, InChunk(p, a)
  PROVE  ~InChunk(p, b)
<1>1. ChunkLen(a) \in 1 .. ChunkSize /\ ChunkLen(b) \in 1 .. ChunkSize
  BY ChunkLenBounds
<1>2. QED
  BY <1>1, TransferAssumption DEF Far, InChunk, Positions

\* What is owed is finite.
LEMMA UnreportedFinite == IsFiniteSet(Unreported) /\ Cardinality(Unreported) \in Nat
<1>1. IsFiniteSet(Positions)
  BY FS_Interval, TransferAssumption DEF Positions
<1>2. Unreported \in SUBSET Positions
  BY DEF Unreported
<1>3. IsFiniteSet(Unreported)
  BY <1>1, <1>2, FS_Subset
<1>4. QED
  BY <1>3, FS_CardinalityType

\* With no job left nothing is owed.
LEMMA IdleOwesNothing ==
  ASSUME Types, Counting, wg = 0
  PROVE  Unreported = {} /\ Cardinality(Unreported) = 0 /\ jobs = <<>> /\ \A w \in Workers : ~Owes(w)
<1>1. jobs = <<>> /\ \A w \in Workers : wpc[w] = "idle"
  BY ZeroIsIdle
<1>2. \A w \in Workers : ~Owes(w)
  BY <1>1 DEF Owes
<1>3. Unreported = {}
  BY <1>1, <1>2 DEF Unreported
<1>4. QED
  BY <1>1, <1>2, <1>3, FS_EmptySet

\* A step that moves no job and reports nothing owes the same.
LEMMA SameOwed ==
  ASSUME UNCHANGED <<jobs, chunk>>, \A w \in Workers : Owes(w)' <=> Owes(w)
  PROVE  Unreported' = Unreported /\ (Apart /\ next' = next => Apart')
<1>1. Unreported' = Unreported
  BY DEF Unreported, InChunk
<1>2. ASSUME Apart, next' = next PROVE Apart'
  BY <1>2 DEF Apart, Far
<1>3. QED
  BY <1>1, <1>2

\* Without a job the chunks are apart.
LEMMA EmptyApart == ASSUME jobs = <<>>, \A w \in Workers : ~Owes(w) PROVE Apart
  BY DEF Apart

\* The invariant holds at the start.
LEMMA InitTold == Init => Told
  BY EmptyApart DEF Init, Told, Owes

\* The steps of the call but the hand-over.
LEMMA CallTold ==
  ASSUME Inv, Told,
         \/ CallReady \/ Prepare \/ PrepareFails \/ Resume \/ EnqueueAdd \/ PoolWait
         \/ CloseProgress \/ Chmod
  PROVE  Told'
<1> USE DEF Goto, workVars, progressVars
<1>1. UNCHANGED <<jobs, chunk, wpc, reported>>
  BY DEF CallReady, Prepare, PrepareFails, Resume, EnqueueAdd, PoolWait, CloseProgress, Chmod
<1>2. Unreported' = Unreported /\ (next' = next => Apart')
  BY <1>1, SameOwed DEF Owes, Told
<1>3. offset \in Nat /\ size \in Nat /\ next \in Nat /\ FileSize \in Nat /\ size <= FileSize
  BY TransferAssumption DEF Inv, Types
<1>4. CASE CallReady \/ Prepare \/ PrepareFails \/ EnqueueAdd \/ PoolWait \/ Chmod
  <2>1. UNCHANGED <<next, offset, progressOpen>>
    BY SMTT(30), <1>4 DEF CallReady, Prepare, PrepareFails, EnqueueAdd, PoolWait, Chmod
  <2>2. pc' \in {"new", "prepare", "resume"} => pc \in {"new", "prepare", "resume"} /\ wg' = wg
    BY SMTT(30), <1>4 DEF CallReady, Prepare, PrepareFails, EnqueueAdd, PoolWait, Chmod
  <2>3. pc' \in {"loop", "send", "wait", "close", "chmod"} =>
          pc \in {"loop", "send", "wait", "close", "chmod"}
    BY <1>4 DEF CallReady, Prepare, PrepareFails, EnqueueAdd, PoolWait, Chmod
  <2>4. QED
    BY SMTT(30), <1>1, <1>2, <2>1, <2>2, <2>3 DEF Told, Reach
<1>5. CASE CloseProgress
  <2>1. wg = 0 /\ next >= FileSize /\ pc = "close"
    BY <1>5 DEF CloseProgress, Inv, Phases
  <2>2. Cardinality(Unreported) = 0
    BY <2>1, IdleOwesNothing DEF Inv
  <2>3. reported = FileSize - offset
    BY <1>3, <2>1, <2>2 DEF Told, Reach
  <2>4. QED
    BY <1>1, <1>2, <1>5, <2>1, <2>3 DEF CloseProgress, Told, Reach
<1>6. CASE Resume
  <2>1. PICK o \in {size, 0} :
          /\ offset' = o /\ next' = o
          /\ pc' = (IF o >= FileSize THEN "returned" ELSE "loop")
    BY <1>6 DEF Resume, ResumeOffsets
  <2>2. wg = 0 /\ reported = 0 /\ progressOpen /\ UNCHANGED progressOpen
    BY <1>6 DEF Resume, Told, Inv, Phases
  <2>3. jobs = <<>> /\ (\A w \in Workers : ~Owes(w)) /\ Cardinality(Unreported) = 0
    BY <2>2, IdleOwesNothing DEF Inv
  <2>4. Apart'
    BY <1>1, <2>3 DEF Apart, Owes
  <2>5. pc' = "loop" => Reach' = o
    BY <1>3, <2>1 DEF Reach
  <2>6. QED
    BY <1>1, <1>2, <1>3, <2>1, <2>2, <2>3, <2>4, <2>5 DEF Told
<1>7. QED
  BY <1>4, <1>5, <1>6

\* The hand-over of a chunk: it is owed from now on, and none of it was before.
LEMMA SendTold == ASSUME Inv, Told, EnqueueSend PROVE Told'
<1> DEFINE span == {p \in Positions : InChunk(p, next)}
<1> USE DEF Owes
<1>1. /\ next \in Positions /\ jobs' = Append(jobs, next) /\ next' = next + ChunkSize
      /\ pc = "send" /\ pc' = "loop"
      /\ UNCHANGED <<offset, wpc, chunk, reported, progressOpen>>
  BY TransferAssumption
  DEF EnqueueSend, Goto, workVars, progressVars, Inv, Types, Phases, Positions
<1>2. /\ Len(jobs) \in Nat /\ Len(jobs') = Len(jobs) + 1
      /\ \A i \in 1 .. Len(jobs) : jobs'[i] = jobs[i] /\ jobs[i] \in Positions
      /\ jobs'[Len(jobs) + 1] = next
  BY <1>1, AppendProperties, LenProperties DEF Inv, Types
<1>3. \A w \in Workers : Owes(w) => chunk[w] \in Positions
  BY DEF Inv, Chunks
<1>4. ChunkLen(next) \in Nat /\ ChunkLen(next) <= ChunkSize /\ next \in Nat /\ ChunkSize \in Nat
  BY <1>1, ChunkLenBounds, TransferAssumption DEF Positions
<1>5. Apart'
  <2>0. Positions \subseteq Nat
    BY TransferAssumption DEF Positions
  <2>1. Apart
    BY SMTT(30) DEF Told
  <2>2. \A i \in 1 .. Len(jobs) : jobs[i] \in Nat /\ jobs[i] + ChunkSize <= next
    BY <1>2, <2>0, <2>1 DEF Apart
  <2>3. \A w \in Workers : Owes(w) => chunk[w] \in Nat /\ chunk[w] + ChunkSize <= next
    BY Zenon, <1>3, <2>0, <2>1 DEF Apart
  <2>4. ASSUME NEW i \in 1 .. Len(jobs')
        PROVE  \/ i \in 1 .. Len(jobs) /\ jobs'[i] = jobs[i]
               \/ i = Len(jobs) + 1 /\ jobs'[i] = next
    <3>1. i \in 1 .. Len(jobs) \/ i = Len(jobs) + 1
      BY <1>2
    <3>2. QED
      BY Zenon, <1>2, <3>1
  <2>5. \A i \in 1 .. Len(jobs') : jobs'[i] + ChunkSize <= next'
    BY <1>1, <1>4, <2>2, <2>4
  <2>6. \A w \in Workers : Owes(w)' => chunk'[w] + ChunkSize <= next'
    BY <1>1, <1>3, <1>4, <2>3
  <2>7. \A i, j \in 1 .. Len(jobs') : i # j => Far(jobs'[i], jobs'[j])
    BY <2>1, <2>2, <2>4 DEF Apart, Far
  <2>8. \A i \in 1 .. Len(jobs'), w \in Workers : Owes(w)' => Far(jobs'[i], chunk'[w])
    BY SMTT(30), <1>1, <1>3, <2>1, <2>3, <2>4 DEF Apart, Far
  <2>9. \A v, w \in Workers : v # w /\ Owes(v)' /\ Owes(w)' => Far(chunk'[v], chunk'[w])
    BY SMTT(30), <1>1, <1>3, <2>1 DEF Apart
  <2>10. QED
    BY <2>5, <2>6, <2>7, <2>8, <2>9 DEF Apart, Far
<1>6. Unreported' = Unreported \cup span
  <2>1. ASSUME NEW p \in Positions
        PROVE  (\E i \in 1 .. Len(jobs') : InChunk(p, jobs'[i]))
               <=> (\E i \in 1 .. Len(jobs) : InChunk(p, jobs[i])) \/ InChunk(p, next)
    <3>1. \A i \in 1 .. Len(jobs) : i \in 1 .. Len(jobs')
      BY <1>2
    <3>2. Len(jobs) + 1 \in 1 .. Len(jobs')
      BY <1>2
    <3>3. \A i \in 1 .. Len(jobs') : i \in 1 .. Len(jobs) \/ i = Len(jobs) + 1
      BY <1>2
    <3>4. QED
      BY <1>2, <3>1, <3>2, <3>3
  <2>2. QED
    BY <1>1, <1>3, <2>1 DEF Unreported, InChunk, ChunkLen
<1>7. Unreported \cap span = {}
  <2>1. \A i \in 1 .. Len(jobs) : Far(jobs[i], next)
    BY DEF Told, Apart, Far
  <2>2. \A w \in Workers : Owes(w) => Far(chunk[w], next)
    BY DEF Told, Apart, Far
  <2>3. \A p \in Positions : p \in Unreported => ~InChunk(p, next)
    BY <1>1, <1>2, <1>3, <2>1, <2>2, FarIsDisjoint DEF Unreported
  <2>4. QED
    BY <2>3
<1>8. Cardinality(Unreported') = Cardinality(Unreported) + ChunkLen(next)
  <2>1. IsFiniteSet(span) /\ Cardinality(span) = ChunkLen(next)
    BY <1>1, ChunkIsInterval
  <2>2. Cardinality(Unreported \cup span)
          = Cardinality(Unreported) + Cardinality(span) - Cardinality(Unreported \cap span)
    BY <2>1, UnreportedFinite, FS_Union
  <2>3. Cardinality(Unreported \cap span) = 0
    BY <1>7, FS_EmptySet
  <2>4. QED
    BY <1>4, <1>6, <2>1, <2>2, <2>3, UnreportedFinite
<1>9. Reach = next /\ Reach' = next + ChunkLen(next)
  BY <1>1, TransferAssumption DEF Reach, ChunkLen, Positions
<1>10. /\ reported \in Nat /\ offset \in Nat /\ offset <= next
       /\ reported + Cardinality(Unreported) = Reach - offset
       /\ Cardinality(Unreported) \in Nat
  BY <1>1, UnreportedFinite DEF Told, Inv, Types
<1>11. reported' + Cardinality(Unreported') = Reach' - offset'
  <2>1. reported' + Cardinality(Unreported') = reported + (Cardinality(Unreported) + ChunkLen(next))
    BY <1>1, <1>8
  <2>2. Reach' - offset' = (next + ChunkLen(next)) - offset
    BY <1>1, <1>9
  <2>3. reported + Cardinality(Unreported) = next - offset
    BY <1>9, <1>10
  <2>4. QED
    BY <1>4, <1>10, <2>1, <2>2, <2>3
<1>12. QED
  BY <1>1, <1>4, <1>5, <1>10, <1>11 DEF Told

\* Taking a job moves what is owed from the queue to the worker.
LEMMA TakeTold == ASSUME Inv, Told, NEW w \in Workers, TakeJob(w) PROVE Told'
<1> USE DEF Owes
<1>1. /\ wpc[w] = "idle" /\ wpc' = [wpc EXCEPT ![w] = "ready"]
      /\ jobs # <<>> /\ jobs' = Tail(jobs) /\ chunk' = [chunk EXCEPT ![w] = Head(jobs)]
      /\ UNCHANGED <<pc, wg, offset, next, reported, progressOpen>>
  BY DEF TakeJob, Step, progressVars
<1>2. /\ Head(jobs) = jobs[1] /\ 1 \in 1 .. Len(jobs)
      /\ Len(jobs') = Len(jobs) - 1 /\ Len(jobs) \in Nat
      /\ \A i \in 1 .. Len(jobs') : jobs'[i] = jobs[i + 1]
  BY <1>1, HeadTailProperties, LenProperties, EmptySeq DEF Inv, Types
<1>3. /\ wpc \in [Workers -> {"idle", "ready", "read", "write", "progress", "finished"}]
      /\ chunk \in [Workers -> Nat]
  BY DEF Inv, Types
<1>4. /\ chunk'[w] = jobs[1] /\ Owes(w)' /\ ~Owes(w)
      /\ \A v \in Workers : v # w => chunk'[v] = chunk[v] /\ wpc'[v] = wpc[v]
  BY <1>1, <1>2, <1>3
<1>5. \A i \in 1 .. Len(jobs') : i + 1 \in 1 .. Len(jobs) /\ i + 1 # 1 /\ i \in Nat
  BY <1>2
<1>6. Apart'
  <2>1. Apart
    BY DEF Told
  <2>2. \A i \in 1 .. Len(jobs') : jobs'[i] + ChunkSize <= next'
    BY <1>1, <1>2, <1>5, <2>1 DEF Apart
  <2>3. \A v \in Workers : Owes(v)' => chunk'[v] + ChunkSize <= next'
    BY SMTT(30), <1>1, <1>2, <1>4, <2>1 DEF Apart
  <2>4. ASSUME NEW i \in 1 .. Len(jobs'), NEW j \in 1 .. Len(jobs'), i # j
        PROVE  Far(jobs'[i], jobs'[j])
    <3>1. i + 1 \in 1 .. Len(jobs) /\ j + 1 \in 1 .. Len(jobs) /\ i + 1 # j + 1
      BY <1>5, <2>4
    <3>2. QED
      BY SMTT(30), <1>2, <2>1, <3>1 DEF Apart
  <2>5. \A i \in 1 .. Len(jobs'), v \in Workers : Owes(v)' => Far(jobs'[i], chunk'[v])
    BY <1>2, <1>4, <1>5, <2>1 DEF Apart
  <2>6. \A u, v \in Workers : u # v /\ Owes(u)' /\ Owes(v)' => Far(chunk'[u], chunk'[v])
    <3>1. \A a, b : Far(a, b) => Far(b, a)
      BY SMTT(30) DEF Far
    <3>2. QED
      BY <1>2, <1>4, <2>1, <3>1 DEF Apart
  <2>7. QED
    BY <2>2, <2>3, <2>4, <2>5, <2>6 DEF Apart, Far
<1>7. ASSUME NEW p \in Positions PROVE p \in Unreported' <=> p \in Unreported
  <2>1. ASSUME NEW i \in 1 .. Len(jobs'), InChunk(p, jobs'[i]) PROVE p \in Unreported
    BY SMTT(30), <1>2, <1>5, <2>1 DEF Unreported
  <2>2. ASSUME NEW v \in Workers, Owes(v)', InChunk(p, chunk'[v]) PROVE p \in Unreported
    BY <1>2, <1>4, <2>2 DEF Unreported
  <2>3. ASSUME NEW i \in 1 .. Len(jobs), InChunk(p, jobs[i]) PROVE p \in Unreported'
    <3>1. CASE i = 1
      BY SMTT(30), <1>4, <2>3, <3>1 DEF Unreported, InChunk, ChunkLen
    <3>2. CASE i # 1
      <4>1. i - 1 \in 1 .. Len(jobs') /\ jobs'[i - 1] = jobs[i]
        BY <1>2, <3>2
      <4>2. QED
        BY ZenonT(40), <2>3, <4>1 DEF Unreported, InChunk, ChunkLen
    <3>3. QED
      BY SMTT(30), <3>1, <3>2
  <2>4. ASSUME NEW v \in Workers, Owes(v), InChunk(p, chunk[v]) PROVE p \in Unreported'
    <3>1. v # w
      BY <1>4, <2>4
    <3>2. QED
      BY <1>4, <2>4, <3>1 DEF Unreported, InChunk, ChunkLen
  <2>5. QED
    BY SMTT(30), <2>1, <2>2, <2>3, <2>4 DEF Unreported, InChunk, ChunkLen
<1>8. Unreported' = Unreported
  BY <1>7 DEF Unreported
<1>9. QED
  BY <1>1, <1>6, <1>8 DEF Told, Reach

\* A report takes the chunk out of what is owed, and counts all of it.
LEMMA ReportTold == ASSUME Inv, Told, NEW w \in Workers, SendProgress(w) PROVE Told'
<1> DEFINE span == {p \in Positions : InChunk(p, chunk[w])}
<1> USE DEF Owes
<1>1. /\ wpc[w] = "progress" /\ wpc' = [wpc EXCEPT ![w] = "finished"]
      /\ reported' = reported + written[w]
      /\ UNCHANGED <<pc, wg, offset, next, jobs, chunk, progressOpen>>
  BY Zenon DEF SendProgress, Step
<1>2. /\ chunk[w] \in Positions /\ written[w] = ChunkLen(chunk[w]) /\ wg # 0
      /\ ChunkLen(chunk[w]) \in Nat
  BY <1>1, ZeroIsIdle, ChunkLenBounds, TransferAssumption DEF Inv, Chunks
<1>3. /\ Owes(w) /\ ~Owes(w)'
      /\ \A v \in Workers : v # w => wpc'[v] = wpc[v]
  BY SMTT(30), <1>1 DEF Inv, Types
<1>4. Apart'
  BY SMTT(30), <1>1, <1>3 DEF Told, Apart, Far
<1>5. /\ \A i \in 1 .. Len(jobs) : jobs[i] \in Positions /\ Far(jobs[i], chunk[w])
      /\ \A v \in Workers : Owes(v) /\ v # w => chunk[v] \in Positions /\ Far(chunk[v], chunk[w])
  BY SMTT(30), <1>3, ElementOfSeq DEF Told, Apart, Inv, Types, Chunks
<1>6. ASSUME NEW p \in Positions
      PROVE  /\ p \in Unreported' \/ InChunk(p, chunk[w]) <=> p \in Unreported
             /\ ~(p \in Unreported' /\ InChunk(p, chunk[w]))
  <2>1. p \in Unreported <=> \/ \E i \in 1 .. Len(jobs) : InChunk(p, jobs[i])
                             \/ \E v \in Workers : Owes(v) /\ InChunk(p, chunk[v])
    BY SMTT(30) DEF Unreported
  <2>2. p \in Unreported' <=> \/ \E i \in 1 .. Len(jobs) : InChunk(p, jobs[i])
                              \/ \E v \in Workers : v # w /\ Owes(v) /\ InChunk(p, chunk[v])
    BY SMTT(30), <1>1, <1>3 DEF Unreported, InChunk
  <2>3. \A i \in 1 .. Len(jobs) : InChunk(p, jobs[i]) => ~InChunk(p, chunk[w])
    BY SMTT(30), <1>2, <1>5, FarIsDisjoint
  <2>4. \A v \in Workers : v # w /\ Owes(v) /\ InChunk(p, chunk[v]) => ~InChunk(p, chunk[w])
    BY SMTT(30), <1>2, <1>5, FarIsDisjoint
  <2>5. QED
    BY <1>3, <2>1, <2>2, <2>3, <2>4
<1>7. Unreported = Unreported' \cup span /\ Unreported' \cap span = {}
  BY SMTT(30), <1>6 DEF Unreported
<1>8. Cardinality(Unreported) = Cardinality(Unreported') + ChunkLen(chunk[w])
  <2>1. IsFiniteSet(span) /\ Cardinality(span) = ChunkLen(chunk[w])
    BY <1>2, ChunkIsInterval
  <2>2. IsFiniteSet(Unreported') /\ Cardinality(Unreported') \in Nat
    BY <1>7, UnreportedFinite, FS_Subset, FS_CardinalityType
  <2>3. Cardinality(Unreported' \cup span)
          = Cardinality(Unreported') + Cardinality(span) - Cardinality(Unreported' \cap span)
    BY <2>1, <2>2, FS_Union
  <2>4. Cardinality(Unreported' \cap span) = 0
    BY <1>7, FS_EmptySet
  <2>5. QED
    BY SMTT(30), <1>2, <1>7, <2>1, <2>2, <2>3, <2>4
<1>9. Cardinality(Unreported') \in Nat
  BY SMTT(30), <1>7, UnreportedFinite, FS_Subset, FS_CardinalityType
<1>10. reported' + Cardinality(Unreported') = reported + Cardinality(Unreported) /\ reported' \in Nat
  <2>1. reported \in Nat
    BY DEF Told
  <2>2. QED
    BY <1>1, <1>2, <1>8, <1>9, <2>1
<1>11. progressOpen /\ pc \notin {"new", "prepare", "resume"}
  BY <1>2 DEF Inv, Types, Phases, Told
<1>12. QED
  BY <1>1, <1>4, <1>10, <1>11 DEF Told, Reach

\* The other steps of a worker owe and report the same.
LEMMA WorkTold ==
  ASSUME Inv, Told, NEW w \in Workers,
         \/ ChunkReady(w) \/ ChunkRead(w) \/ ChunkWrite(w) \/ ChunkWritten(w) \/ ChunkFails(w)
         \/ JobDone(w)
  PROVE  Told'
<1> USE DEF Step, progressVars
<1>1. /\ UNCHANGED <<pc, offset, next, jobs, chunk, reported, progressOpen>>
      /\ JobDone(w) \/ wg' = wg
  BY ZenonT(40) DEF ChunkReady, ChunkRead, ChunkWrite, ChunkWritten, ChunkFails, JobDone
<1>2. PICK to : /\ wpc' = [wpc EXCEPT ![w] = to]
                /\ to \in {"ready", "read", "write", "progress"} <=> Owes(w)
  BY DEF ChunkReady, ChunkRead, ChunkWrite, ChunkWritten, ChunkFails, JobDone, Owes
<1>3. \A v \in Workers : Owes(v)' <=> Owes(v)
  BY <1>2 DEF Owes, Inv, Types
<1>4. Unreported' = Unreported /\ Apart'
  BY <1>1, <1>3, SameOwed DEF Told
<1>5. JobDone(w) => wg # 0
  BY ZeroIsIdle DEF JobDone, Inv
<1>6. QED
  BY SMTT(30), <1>1, <1>4, <1>5 DEF Told, Reach

\* The progress bar and the sftp client owe nothing; a crash starts afresh.
LEMMA OthersTold ==
  ASSUME Inv, Told, DrainProgress \/ SftpStep \/ SftpLost \/ Crash \/ UNCHANGED vars
  PROVE  Told'
<1>1. CASE Crash
  <2>1. /\ jobs' = <<>> /\ wpc' = [v \in Workers |-> "idle"] /\ pc' = "new"
        /\ wg' = 0 /\ reported' = 0 /\ progressOpen'
    BY <1>1 DEF Crash
  <2>2. Apart'
    BY <2>1 DEF Apart, Owes
  <2>3. QED
    BY <2>1, <2>2 DEF Told
<1>2. ASSUME UNCHANGED <<callVars, wpc, chunk, reported>> PROVE Told'
  <2>1. Unreported' = Unreported /\ Apart'
    BY <1>2, SameOwed DEF callVars, Owes, Told
  <2>2. QED
    BY <1>2, <2>1 DEF callVars, Told, Reach
<1>3. QED
  BY <1>1, <1>2 DEF DrainProgress, SftpStep, SftpLost, vars, workVars, progressVars

\* Every reachable state satisfies the invariant of the progress.
THEOREM ToldAlways == Spec => []Told
<1>1. Inv /\ Told /\ [Next]_vars => Told'
  BY CallTold, SendTold, TakeTold, ReportTold, WorkTold, OthersTold DEF Next, CallStep, WorkerStep
<1>2. QED
  BY InitTold, <1>1, Invariance, PTL DEF Spec

\* When progressCh is closed the progress bar was told of every position from
\* the offset on, once, however often chunks were tried and by whichever worker.
THEOREM ProgressIsExactAlways == Spec => []ProgressIsExact
<1>1. Told => ProgressIsExact
  BY DEF Told, ProgressIsExact
<1>2. QED
  BY ToldAlways, <1>1, PTL
==============================================================================

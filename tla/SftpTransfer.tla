---------------------------- MODULE SftpTransfer -----------------------------
(***************************************************************************)
(* GetFile and PutFile of pkg/sshc/sftp_client.go over the worker pool of  *)
(* pkg/worker/worker.go: one goroutine cuts the file in chunks, the        *)
(* workers copy them and retry for ever, the sftp client comes and goes as *)
(* the Link that SftpClient implements, and the process may be killed and  *)
(* started again on what it left behind.                                   *)
(*                                                                         *)
(* The source file does not change.  Of the destination the model keeps    *)
(* its size and the positions that hold the data of the source: the others *)
(* below its size are holes.                                               *)
(***************************************************************************)
EXTENDS Link, Naturals, Sequences, FiniteSets

CONSTANTS FileSize,     \* the size of the source, in abstract units
          ChunkSize,    \* chunkSize, in the same units
          Workers,      \* the goroutines of the pool, maxWorkers of them
          MaxFailures,  \* bound: how often the sftp client or a file fails
          MaxCrashes    \* bound: how often the process is killed

ASSUME TransferAssumption ==
  /\ FileSize \in Nat
  /\ ChunkSize \in Nat \ {0}
  /\ IsFiniteSet(Workers) /\ Workers # {}
  /\ MaxFailures \in Nat /\ MaxCrashes \in Nat

MaxWorkers == Cardinality(Workers)
Positions == 0 .. FileSize - 1

VARIABLES
  upload,         \* the call is PutFile, otherwise GetFile
  size, good,     \* the destination: its size, the positions that are right
  pc,             \* where GetFile or PutFile is
  offset,         \* where it resumes
  next,           \* chunkOffset of the loop
  wg,             \* the counter of the pool's wait group
  jobs,           \* the pool's channel: the offsets of the chunks to copy
  wpc,            \* where each worker is
  chunk,          \* the offset of the chunk it copies
  written,        \* totalWritten
  live,           \* the remote file it writes to belongs to a client that is open
  progressQ,      \* number of values waiting in progressCh
  reported,       \* the sum of what was sent to progressCh
  progressOpen,   \* progressCh is not closed
  result,         \* what the call returned: "none" yet, "ok" or "err"
  failures, crashes

destVars == <<size, good>>
callVars == <<pc, offset, next, wg, jobs, result, progressOpen>>
workVars == <<wpc, chunk, written, live>>
progressVars == <<progressQ, reported>>
vars == <<linkVars, destVars, callVars, workVars, progressVars, failures, crashes, upload>>

\* What the read of a chunk that starts at off returns: a whole chunk, or what
\* is left of the file.
ChunkLen(off) == IF off + ChunkSize < FileSize THEN ChunkSize ELSE FileSize - off

TypeOK ==
  /\ LinkTypeOK
  /\ upload \in BOOLEAN
  /\ size \in 0 .. FileSize
  /\ good \subseteq Positions
  /\ pc \in {"new", "prepare", "resume", "loop", "send", "wait", "close", "chmod", "returned"}
  /\ offset \in 0 .. FileSize
  /\ next \in 0 .. FileSize + ChunkSize
  /\ wg \in Nat
  /\ jobs \in Seq(Positions) /\ Len(jobs) <= MaxWorkers
  /\ wpc \in [Workers -> {"idle", "ready", "read", "write", "progress", "finished"}]
  /\ chunk \in [Workers -> 0 .. FileSize]
  /\ written \in [Workers -> 0 .. ChunkSize]
  /\ live \in [Workers -> BOOLEAN]
  /\ progressQ \in 0 .. MaxWorkers
  /\ reported \in Nat
  /\ progressOpen \in BOOLEAN
  /\ result \in {"none", "ok", "err"}
  /\ failures \in 0 .. MaxFailures
  /\ crashes \in 0 .. MaxCrashes

\* The destination does not exist, or holds a prefix of the source.
Init ==
  /\ LinkInit
  /\ upload \in BOOLEAN
  /\ size \in 0 .. FileSize
  /\ good = 0 .. size - 1
  /\ pc = "new" /\ result = "none"
  /\ offset = 0 /\ next = 0 /\ wg = 0 /\ jobs = <<>>
  /\ wpc = [w \in Workers |-> "idle"]
  /\ chunk = [w \in Workers |-> 0]
  /\ written = [w \in Workers |-> 0]
  /\ live = [w \in Workers |-> FALSE]
  /\ progressQ = 0 /\ reported = 0 /\ progressOpen = TRUE
  /\ failures = 0 /\ crashes = 0

Goto(from, to) == pc = from /\ pc' = to

------------------------------------------------------------------------------
(* GetFile and PutFile *)

\* s.ReadyWait()
CallReady ==
  /\ Goto("new", "prepare")
  /\ gate = "open"
  /\ UNCHANGED <<linkVars, destVars, offset, next, wg, jobs, result, progressOpen, workVars,
                 progressVars, failures, crashes, upload>>

\* RealPath, and GetFile's Stat and Open, on the client of this moment.
Prepare ==
  /\ Goto("prepare", "resume")
  /\ client = "open"
  /\ UNCHANGED <<linkVars, destVars, offset, next, wg, jobs, result, progressOpen, workVars,
                 progressVars, failures, crashes, upload>>

\* One of them fails, or the local file cannot be opened.
PrepareFails ==
  /\ \E from \in {"prepare", "resume"} : Goto(from, "returned")
  /\ result' = "err"
  /\ UNCHANGED <<linkVars, destVars, offset, next, wg, jobs, progressOpen, workVars,
                 progressVars, failures, crashes, upload>>

\* The transfer resumes at the size of the destination, or at 0 if that cannot
\* be found out: PutFile's Stat fails, or the first of GetFile's two opens.
ResumeOffsets == IF upload /\ client # "open" THEN {0} ELSE {size, 0}

Resume ==
  /\ \E o \in ResumeOffsets :
       /\ IF o >= FileSize
          THEN Goto("resume", "returned") /\ result' = "ok"
          ELSE Goto("resume", "loop") /\ UNCHANGED result
       /\ offset' = o
       /\ next' = o
  /\ UNCHANGED <<linkVars, destVars, wg, jobs, progressOpen, workVars, progressVars,
                 failures, crashes, upload>>

\* Enqueue: p.wg.Add(1), then p.jobs <- job.
EnqueueAdd ==
  /\ IF next < FileSize THEN Goto("loop", "send") /\ wg' = wg + 1
                        ELSE Goto("loop", "wait") /\ UNCHANGED wg
  /\ UNCHANGED <<linkVars, destVars, offset, next, jobs, result, progressOpen, workVars,
                 progressVars, failures, crashes, upload>>

EnqueueSend ==
  /\ Goto("send", "loop")
  /\ Len(jobs) < MaxWorkers
  /\ jobs' = Append(jobs, next)
  /\ next' = next + ChunkSize
  /\ UNCHANGED <<linkVars, destVars, offset, wg, result, progressOpen, workVars,
                 progressVars, failures, crashes, upload>>

\* Mutated: no Wait.
PoolNoWait ==
  /\ Goto("wait", "close")
  /\ UNCHANGED <<linkVars, destVars, offset, next, wg, jobs, result, progressOpen, workVars,
                 progressVars, failures, crashes, upload>>

\* workerPool.Wait()
PoolWait ==
  /\ Goto("wait", "close")
  /\ wg = 0
  /\ UNCHANGED <<linkVars, destVars, offset, next, wg, jobs, result, progressOpen, workVars,
                 progressVars, failures, crashes, upload>>

CloseProgress ==
  /\ Goto("close", "chmod")
  /\ progressOpen' = FALSE
  /\ UNCHANGED <<linkVars, destVars, offset, next, wg, jobs, result, workVars,
                 progressVars, failures, crashes, upload>>

\* The final Chmod, and the deferred workerPool.Stop.  PutFile's needs the
\* sftp client of that moment.
Chmod ==
  /\ Goto("chmod", "returned")
  /\ result' \in (IF upload /\ client # "open" THEN {"err"} ELSE {"ok", "err"})
  /\ UNCHANGED <<linkVars, destVars, offset, next, wg, jobs, progressOpen, workVars,
                 progressVars, failures, crashes, upload>>

------------------------------------------------------------------------------
(* The workers *)

Step(w, from, to) ==
  /\ wpc[w] = from
  /\ wpc' = [wpc EXCEPT ![w] = to]
  /\ UNCHANGED <<linkVars, pc, offset, next, result, progressOpen, crashes, upload>>

TakeJob(w) ==
  /\ Step(w, "idle", "ready")
  /\ jobs # <<>>
  /\ chunk' = [chunk EXCEPT ![w] = Head(jobs)]
  /\ jobs' = Tail(jobs)
  /\ UNCHANGED <<destVars, wg, written, live, progressVars, failures>>

\* s.ReadyWait() of downloadChunk or uploadChunk.
ChunkReady(w) ==
  /\ Step(w, "ready", "read")
  /\ gate = "open"
  /\ UNCHANGED <<destVars, wg, jobs, chunk, written, live, progressVars, failures>>

\* The remote file is opened on the client of this moment, the chunk is read
\* whole and the destination positioned.
ChunkRead(w) ==
  /\ Step(w, "read", "write")
  /\ client = "open"
  /\ written' = [written EXCEPT ![w] = 0]
  /\ live' = [live EXCEPT ![w] = upload]
  /\ UNCHANGED <<destVars, wg, jobs, chunk, progressVars, failures>>

\* One Write of the loop, which may be short.
ChunkWrite(w) ==
  /\ Step(w, "write", "write")
  /\ upload => live[w]
  /\ \E k \in 1 .. ChunkLen(chunk[w]) - written[w] :
       LET from == chunk[w] + written[w]
       IN /\ good' = good \cup (from .. from + k - 1)
          /\ size' = IF from + k > size THEN from + k ELSE size
          /\ written' = [written EXCEPT ![w] = @ + k]
  /\ UNCHANGED <<wg, jobs, chunk, live, progressVars, failures>>

ChunkWritten(w) ==
  /\ Step(w, "write", "progress")
  /\ written[w] = ChunkLen(chunk[w])
  /\ UNCHANGED <<destVars, wg, jobs, chunk, written, live, progressVars, failures>>

\* A call fails, by itself or because it is one on a client that is closed or
\* on a remote file of a client that is.
Failed(w) ==
  \/ wpc[w] = "read" /\ client # "open" /\ UNCHANGED failures
  \/ wpc[w] = "write" /\ upload /\ ~live[w] /\ UNCHANGED failures
  \/ failures < MaxFailures /\ failures' = failures + 1

\* Mutated: an error of the chunk is only logged.
ChunkGivesUp(w) ==
  /\ Step(w, wpc[w], "finished")
  /\ wpc[w] \in {"read", "write"}
  /\ Failed(w)
  /\ UNCHANGED <<destVars, wg, jobs, chunk, written, live, progressVars>>

\* Mutated: what was written before the failure is reported.
ChunkFailsReports(w) ==
  /\ Step(w, wpc[w], "ready")
  /\ wpc[w] \in {"read", "write"}
  /\ Failed(w)
  /\ reported' = reported + written[w]
  /\ UNCHANGED <<destVars, wg, jobs, chunk, written, live, progressQ>>

\* The function given to Enqueue tries the chunk again.
ChunkFails(w) ==
  /\ Step(w, wpc[w], "ready")
  /\ wpc[w] \in {"read", "write"}
  /\ Failed(w)
  /\ UNCHANGED <<destVars, wg, jobs, chunk, written, live, progressVars>>

\* progressCh <- int64(totalWritten)
SendProgress(w) ==
  /\ Step(w, "progress", "finished")
  /\ progressQ < MaxWorkers
  /\ progressQ' = progressQ + 1
  /\ reported' = reported + written[w]
  /\ UNCHANGED <<destVars, wg, jobs, chunk, written, live, failures>>

\* Mutated: no Done.
JobNotDone(w) ==
  /\ Step(w, "finished", "idle")
  /\ UNCHANGED <<destVars, wg, jobs, chunk, written, live, progressVars, failures>>

\* p.wg.Done()
JobDone(w) ==
  /\ Step(w, "finished", "idle")
  /\ wg' = wg - 1
  /\ UNCHANGED <<destVars, jobs, chunk, written, live, progressVars, failures>>

------------------------------------------------------------------------------
(* The progress bar, the sftp client and the process *)

DrainProgress ==
  /\ progressQ > 0
  /\ progressQ' = progressQ - 1
  /\ UNCHANGED <<linkVars, destVars, callVars, workVars, reported, failures, crashes, upload>>

\* SftpClient.Start makes clients, announces and retracts them.
SftpStep ==
  /\ Replace \/ Announce \/ Retract
  /\ UNCHANGED <<destVars, callVars, workVars, progressVars, failures, crashes, upload>>

\* The client fails, and every file opened on it.
SftpLost ==
  /\ Drop
  /\ failures < MaxFailures /\ failures' = failures + 1
  /\ live' = [w \in Workers |-> FALSE]
  /\ UNCHANGED <<destVars, callVars, wpc, chunk, written, progressVars, crashes, upload>>

\* The process is killed and the command is run again.
Crash ==
  /\ pc # "returned"
  /\ crashes < MaxCrashes /\ crashes' = crashes + 1
  /\ gate' = "shut" /\ client' = "nil"
  /\ pc' = "new" /\ result' = "none"
  /\ offset' = 0 /\ next' = 0 /\ wg' = 0 /\ jobs' = <<>>
  /\ wpc' = [w \in Workers |-> "idle"]
  /\ chunk' = [w \in Workers |-> 0]
  /\ written' = [w \in Workers |-> 0]
  /\ live' = [w \in Workers |-> FALSE]
  /\ progressQ' = 0 /\ reported' = 0 /\ progressOpen' = TRUE
  /\ UNCHANGED <<halted, destVars, failures, upload>>

------------------------------------------------------------------------------
CallStep ==
  \/ CallReady \/ Prepare \/ PrepareFails \/ Resume \/ EnqueueAdd \/ EnqueueSend
  \/ PoolWait \/ CloseProgress \/ Chmod

WorkerStep(w) ==
  \/ TakeJob(w) \/ ChunkReady(w) \/ ChunkRead(w) \/ ChunkWrite(w) \/ ChunkWritten(w)
  \/ ChunkFails(w) \/ SendProgress(w) \/ JobDone(w)

Next ==
  \/ CallStep
  \/ \E w \in Workers : WorkerStep(w)
  \/ DrainProgress \/ SftpStep \/ SftpLost \/ Crash

Spec == Init /\ [][Next]_vars

\* Goroutines are scheduled and the sftp client is made anew.
Fairness ==
  /\ WF_vars(CallStep) /\ WF_vars(DrainProgress)
  /\ SF_vars(SftpStep /\ client' = "open")
  /\ WF_vars(SftpStep /\ gate = "shut" /\ gate' = "open")
  /\ WF_vars(SftpStep /\ gate = "open" /\ gate' = "shut")
  /\ \A w \in Workers : WF_vars(WorkerStep(w))

FairSpec == Spec /\ Fairness

------------------------------------------------------------------------------
(* Safety *)

\* A call that returns without an error has written everything from the
\* offset it resumed at to the end of the file, however the workers interleave
\* and however often the sftp client is lost under them.
CompleteOnSuccess == result = "ok" => size = FileSize /\ offset .. FileSize - 1 \subseteq good

\* No worker is left that could send on progressCh after it is closed, which
\* would panic: PoolWait returns only after every job is done.
NoSendAfterClose ==
  ~progressOpen => \A w \in Workers : wpc[w] = "idle"

\* Every chunk is reported once, however often it is retried: when progressCh
\* is closed the progress bar has been told of exactly what was missing.
ProgressIsExact == ~progressOpen => reported = FileSize - offset

(* Liveness *)

\* The call returns: the loop, the workers, the progress bar and their three
\* bounded channels never wait for each other in a circle.
Returns == <>(pc = "returned")

(* What comments of the code say, and the code does not do *)

\* "Determine offset for resuming" and "If the file is already fully
\* downloaded, return early": an interrupted transfer that is run again and
\* succeeds leaves the whole file behind.
ResumedIsWhole == result = "ok" => good = Positions
==============================================================================

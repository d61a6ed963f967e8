-------------------------- MODULE RecursiveTransfer --------------------------
(***************************************************************************)
(* The commands get -r and put -r (cmd/get.go, cmd/put.go) over SftpClient *)
(* and the worker pool of pkg/worker/worker.go: the main goroutine walks   *)
(* the source tree, makes the directories and hands the files to the pool, *)
(* whose workers run GetFile or PutFile; in the end it waits for the       *)
(* progress bars, and the process exits.  What one GetFile or PutFile does *)
(* is in SftpTransfer.                                                     *)
(*                                                                         *)
(* The entries of the tree are numbered in the order of the walk, a        *)
(* directory before its contents, and 1 is the root.                       *)
(***************************************************************************)
EXTENDS SftpClient, Integers, Sequences, FiniteSets

CONSTANTS Depth,        \* the depth of each entry of the source tree
          Dirs,         \* the entries that are directories
          Workers,      \* the goroutines of the pool, concurrent of them
          MaxFailures   \* bound: how many directories and files fail by themselves

Entries == 1 .. Len(Depth)
Files == Entries \ Dirs
Concurrent == Cardinality(Workers)

ASSUME TreeAssumption ==
  /\ Depth \in Seq(Nat) /\ Depth # <<>> /\ Depth[1] = 0
  /\ Dirs \subseteq Entries /\ 1 \in Dirs
  /\ \A e \in Entries \ {1} :
       Depth[e] \in 1 .. Depth[e - 1] + (IF e - 1 \in Dirs THEN 1 ELSE 0)
  /\ IsFiniteSet(Workers) /\ Workers # {}
  /\ MaxFailures \in Nat

\* e is somewhere below directory d.
Below(d, e) == d < e /\ \A f \in d + 1 .. e : Depth[f] > Depth[d]

VARIABLES
  upload,    \* the command is put, otherwise get
  pc,        \* where the main goroutine is
  next,      \* the entry the walk comes to next
  walker,    \* the sftp client of get's walker: "none" yet, "live" or "dead"
  present,   \* the destination: directories made, files complete
  reached,   \* the files given to Enqueue
  tried,     \* the files whose GetFile or PutFile has returned
  wg,        \* the counter of the pool's wait group
  jobs,      \* the pool's channel
  wpc,       \* each worker: "idle", "blocked" in ReadyWait, "starting", "copying"
             \* (its bar is up) or "finished"
  job,       \* the file it has taken
  result,    \* what the recursive function returned: "none" yet, "ok" or "err"
  failures

walkVars == <<pc, next, walker, result>>
poolVars == <<reached, tried, wg, jobs, wpc, job>>
clientVars == <<linkVars, sftpVars>>
vars == <<clientVars, upload, walkVars, present, poolVars, failures>>

TypeOK ==
  /\ SftpTypeOK
  /\ upload \in BOOLEAN
  /\ pc \in {"new", "prepare", "root", "walk", "readdir", "send", "wait", "returned",
             "exited", "panic"}
  /\ walker \in {"none", "live", "dead"}
  /\ next \in 1 .. Len(Depth) + 1
  /\ present \subseteq Entries
  /\ reached \subseteq Files /\ tried \subseteq Files
  /\ wg \in 0 .. Cardinality(Files)
  /\ jobs \in Seq(Files) /\ Len(jobs) <= Concurrent
  /\ wpc \in [Workers -> {"idle", "blocked", "starting", "copying", "finished"}]
  /\ job \in [Workers -> Files \cup {1}]
  /\ result \in {"none", "ok", "err"}
  /\ failures \in 0 .. MaxFailures

\* go conn.Start(); go sftpConn.Start()
Init ==
  /\ SftpInit
  /\ upload \in BOOLEAN
  /\ pc = "new" /\ next = 1 /\ walker = "none" /\ result = "none"
  /\ present = {} /\ reached = {} /\ tried = {}
  /\ wg = 0 /\ jobs = <<>>
  /\ wpc = [w \in Workers |-> "idle"]
  /\ job = [w \in Workers |-> 1]
  /\ failures = 0

Goto(from, to) ==
  /\ halted = "no"
  /\ pc = from /\ pc' = to

\* A call on the sftp client of the moment fails if the client is closed; it
\* and the calls on local files may also fail by themselves.
Fails == failures < MaxFailures /\ failures' = failures + 1
ClientFails == \/ sftp # "open" /\ UNCHANGED failures
               \/ Fails

------------------------------------------------------------------------------
(* getFileRecursive and putFileRecursive *)

\* sftpConn.ReadyWait()
Ready ==
  /\ Goto("new", "prepare")
  /\ SftpReady
  /\ UNCHANGED <<clientVars, next, walker, result, present, poolVars, failures>>

\* RealPath and Stat: both ends are directories.
Prepare ==
  /\ Goto("prepare", "root")
  /\ sftp = "open"
  /\ UNCHANGED <<clientVars, next, walker, result, present, poolVars, failures>>

PrepareFails ==
  /\ Goto("prepare", "returned") /\ result' = "err"
  /\ ClientFails
  /\ UNCHANGED <<clientVars, next, walker, present, poolVars>>

\* The walk looks at the root; get's goes on with the client of this moment.
WalkRoot ==
  /\ Goto("root", "walk")
  /\ upload \/ sftp = "open"
  /\ walker' = IF upload THEN "none" ELSE "live"
  /\ UNCHANGED <<clientVars, next, result, present, poolVars, failures>>

\* The root cannot be looked at any more: get logs it; put's function is
\* called without an entry and dereferences nil.
RootGone ==
  /\ IF upload
     THEN Goto("root", "panic") /\ halted' = "gone" /\ Fails /\ UNCHANGED <<gate, client>>
     ELSE Goto("root", "wait") /\ ClientFails /\ UNCHANGED linkVars
  /\ UNCHANGED <<sftpVars, next, walker, result, present, poolVars>>

\* os.Mkdir of get, sftpConn.Client.Mkdir of put.
MakeDir ==
  /\ Goto("walk", "readdir")
  /\ next \in Dirs
  /\ upload => sftp = "open"
  /\ present' = present \cup {next}
  /\ next' = next + 1
  /\ UNCHANGED <<clientVars, walker, result, poolVars, failures>>

\* Mutated: the error is logged and the walk goes on.
MakeDirGoesOn ==
  /\ Goto("walk", "readdir")
  /\ next \in Dirs
  /\ next' = next + 1
  /\ Fails
  /\ UNCHANGED <<clientVars, walker, result, present, poolVars>>

\* Mutated: putFileRecursive returns the error of the walk, as get does.
MakeDirReturns ==
  /\ next \in Dirs
  /\ Goto("walk", "returned") /\ result' = "err"
  /\ IF upload THEN ClientFails ELSE Fails
  /\ UNCHANGED <<clientVars, next, walker, present, poolVars>>

\* The directory exists, or cannot be made.  get returns the error at once;
\* put ends its walk, logs the error and waits for the pool.
MakeDirFails ==
  /\ next \in Dirs
  /\ IF upload THEN Goto("walk", "wait") /\ ClientFails /\ UNCHANGED result
               ELSE Goto("walk", "returned") /\ Fails /\ result' = "err"
  /\ UNCHANGED <<clientVars, next, walker, present, poolVars>>

\* The walk reads the directory it has just visited.
ReadDir ==
  /\ Goto("readdir", "walk")
  /\ upload \/ walker = "live"
  /\ UNCHANGED <<clientVars, next, walker, result, present, poolVars, failures>>

\* It cannot be read and is visited once more, with the error: get logs it and
\* goes on behind its contents; put, which does not look at the error, fails
\* to make the directory again.
ReadDirFails ==
  /\ IF upload
     THEN Goto("readdir", "wait") /\ Fails /\ UNCHANGED next
     ELSE /\ Goto("readdir", "walk")
          /\ \/ walker = "dead" /\ UNCHANGED failures
             \/ Fails
          /\ next' = CHOOSE e \in next .. Len(Depth) + 1 :
                       /\ \A f \in next .. e - 1 : Below(next - 1, f)
                       /\ e \in Entries => ~Below(next - 1, e)
  /\ UNCHANGED <<clientVars, walker, result, present, poolVars>>

\* pool.Enqueue: p.wg.Add(1), then p.jobs <- job.
EnqueueAdd ==
  /\ Goto("walk", "send")
  /\ next \in Files
  /\ wg' = wg + 1
  /\ reached' = reached \cup {next}
  /\ UNCHANGED <<clientVars, next, walker, result, present, tried, jobs, wpc, job, failures>>

EnqueueSend ==
  /\ Goto("send", "walk")
  /\ Len(jobs) < Concurrent
  /\ jobs' = Append(jobs, next)
  /\ next' = next + 1
  /\ UNCHANGED <<clientVars, walker, result, present, reached, tried, wg, wpc, job, failures>>

WalkEnds ==
  /\ Goto("walk", "wait")
  /\ next \notin Entries
  /\ UNCHANGED <<clientVars, next, walker, result, present, poolVars, failures>>

\* Mutated: no Wait.
PoolNoWait ==
  /\ Goto("wait", "returned") /\ result' = "ok"
  /\ UNCHANGED <<clientVars, next, walker, present, poolVars, failures>>

\* pool.Wait(); return nil
PoolWait ==
  /\ Goto("wait", "returned") /\ result' = "ok"
  /\ wg = 0
  /\ UNCHANGED <<clientVars, next, walker, present, poolVars, failures>>

\* getProgress.Wait() waits for the bars that are up; main returns, and the
\* process ends.
Exit ==
  /\ Goto("returned", "exited")
  /\ \A w \in Workers : wpc[w] # "copying"
  /\ Halt
  /\ UNCHANGED <<sftpVars, next, walker, result, present, poolVars, failures>>

------------------------------------------------------------------------------
(* The workers *)

Step(w, from, to) ==
  /\ halted = "no"
  /\ wpc[w] = from
  /\ wpc' = [wpc EXCEPT ![w] = to]
  /\ UNCHANGED <<clientVars, upload, walkVars, reached>>

TakeJob(w) ==
  /\ Step(w, "idle", "blocked")
  /\ jobs # <<>>
  /\ job' = [job EXCEPT ![w] = Head(jobs)]
  /\ jobs' = Tail(jobs)
  /\ UNCHANGED <<present, tried, wg, failures>>

\* s.ReadyWait() of GetFile or PutFile.
CopyReady(w) ==
  /\ Step(w, "blocked", "starting")
  /\ SftpReady
  /\ UNCHANGED <<present, tried, wg, jobs, job, failures>>

\* It has found out what to copy; its progress bar is up.
StartCopy(w) ==
  /\ Step(w, "starting", "copying")
  /\ sftp = "open"
  /\ UNCHANGED <<present, tried, wg, jobs, job, failures>>

\* It returns with the file complete; from "starting", the file was complete.
\* It may still report that the final Chmod failed.
CopyEnds(w) ==
  /\ \E from \in {"starting", "copying"} : Step(w, from, "finished")
  /\ sftp = "open"
  /\ present' = present \cup {job[w]}
  /\ tried' = tried \cup {job[w]}
  /\ UNCHANGED <<wg, jobs, job, failures>>

\* It returns an error before there is anything to copy; nobody looks at it.
CopyFails(w) ==
  /\ Step(w, "starting", "finished")
  /\ ClientFails
  /\ tried' = tried \cup {job[w]}
  /\ UNCHANGED <<present, wg, jobs, job>>

\* Mutated: no Done.
JobNotDone(w) ==
  /\ Step(w, "finished", "idle")
  /\ UNCHANGED <<present, tried, wg, jobs, job, failures>>

\* p.wg.Done()
JobDone(w) ==
  /\ Step(w, "finished", "idle")
  /\ wg' = wg - 1
  /\ UNCHANGED <<present, tried, jobs, job, failures>>

------------------------------------------------------------------------------
(* SftpClient, and the network: a walker's client dies and is not replaced. *)
(* A connection that ends the process ends the command, at any moment and   *)
(* with nothing left to say of it: that step is left out.                   *)

ClientLost ==
  /\ SftpDrops
  /\ walker' = IF walker = "live" /\ sftp = "open" THEN "dead" ELSE walker
  /\ UNCHANGED <<upload, pc, next, result, present, poolVars, failures>>

ClientStep ==
  /\ SftpLoop \/ SftpWaiterCloses \/ SshStep
  /\ UNCHANGED <<upload, walkVars, present, poolVars, failures>>

------------------------------------------------------------------------------
MainStep ==
  /\ \/ Ready \/ Prepare \/ PrepareFails \/ WalkRoot \/ RootGone \/ MakeDir \/ MakeDirFails
     \/ ReadDir \/ ReadDirFails \/ EnqueueAdd \/ EnqueueSend \/ WalkEnds \/ PoolWait \/ Exit
  /\ UNCHANGED upload

WorkerStep(w) ==
  \/ TakeJob(w) \/ CopyReady(w) \/ StartCopy(w) \/ CopyEnds(w) \/ CopyFails(w) \/ JobDone(w)

Next ==
  \/ MainStep
  \/ \E w \in Workers : WorkerStep(w)
  \/ ClientLost \/ ClientStep

Spec == Init /\ [][Next]_vars

\* Goroutines are scheduled, the ssh connection recovers (SshConnection), an
\* sftp client that is asked for again and again is made in the end, and a
\* GetFile or PutFile that copies returns (SftpTransfer).
Fairness ==
  /\ WF_vars(MainStep)
  /\ \A w \in Workers : WF_vars(WorkerStep(w))
  /\ WF_vars(ClientStep /\ SftpLoop) /\ WF_vars(ClientStep /\ SftpWaiterCloses)
  /\ SF_vars(ClientStep /\ CreateOk)
  /\ SF_vars(ClientStep /\ client # "open" /\ client' = "open")
  /\ WF_vars(ClientStep /\ gate = "shut" /\ gate' = "open")
  /\ WF_vars(ClientStep /\ gate = "open" /\ gate' = "shut")

FairSpec == Spec /\ Fairness

------------------------------------------------------------------------------
(* Safety *)

\* A file is given to the pool only when every directory above it has been
\* made, whatever was unreadable or failed before it in the walk.
ParentsFirst ==
  \A f \in reached : \A d \in Dirs : Below(d, f) => d \in present

\* The recursive function returns nil only after every file it gave to the
\* pool has been tried and no worker is left at work.
OkIsTried ==
  result = "ok" => reached = tried /\ \A w \in Workers : wpc[w] = "idle"

\* A put does not exit while a file is queued or being copied: it waits for
\* the pool on every path that has used it.
NothingCutOff ==
  upload /\ pc = "exited" => jobs = <<>> /\ \A w \in Workers : wpc[w] = "idle"

(* Liveness *)

\* The command ends: the walk, blocked on the pool's bounded channel, the
\* workers and the sftp client they wait for never wait for each other, however
\* often the clients under them fail.
CommandExits == <>(halted # "no")
==============================================================================

----------------------- MODULE RecursiveTransferProofs -----------------------
(***************************************************************************)
(* An SftpClient implements Link, Stop included, however often the clients *)
(* fail; and the safety of RecursiveTransfer, which is built on it, for    *)
(* every tree, number of workers and number of failures.                   *)
(***************************************************************************)
EXTENDS RecursiveTransfer, FiniteSetTheorems, SequenceTheorems, TLAPS

------------------------------------------------------------------------------
(* SftpClient *)

\* The inductive invariant.  ReadyWait lets callers through exactly while
\* Start is between Done and Add; then there is a client.  Outside, the client
\* is not open: Start comes back to the wait only once it is closed.
SftpInv ==
  /\ SftpTypeOK
  /\ SftpReady <=> spc \in {"serving", "lost"}
  /\ spc \in {"ready", "serving", "lost"} => sftp # "nil"
  /\ spc \in {"wait", "select", "create", "lost", "terminated"} => sftp # "open"

\* It holds of a new SftpClient.
LEMMA SftpInitInv == SftpInit => SftpInv
<1> SUFFICES ASSUME SftpInit PROVE SftpInv
  OBVIOUS
<1>1. LinkTypeOK /\ drops \in 0 .. MaxDrops
  BY SftpClientAssumption DEF SftpInit, LinkInit, LinkTypeOK
<1>2. terminate \in BOOLEAN
  BY Zenon DEF SftpInit
<1>3. QED
  BY <1>1, <1>2 DEF SftpInit, SftpInv, SftpTypeOK, SftpReady

\* Every step preserves it.
LEMMA SftpStepInv == ASSUME SftpInv, [SftpNext]_<<linkVars, sftpVars>> PROVE SftpInv'
<1> USE SftpClientAssumption
    DEF SftpInv, SftpTypeOK, LinkTypeOK, SftpReady, SftpGoto, linkVars, sftpVars
<1>1. CASE SftpWaitBegin
  BY <1>1 DEF SftpWaitBegin
<1>2. CASE SftpWaitReady
  BY <1>2 DEF SftpWaitReady
<1>3. CASE SftpWaitTerminated
  BY <1>3 DEF SftpWaitTerminated
<1>4. CASE CreateOk
  BY <1>4 DEF CreateOk
<1>5. CASE CreateFails
  BY <1>5 DEF CreateFails
<1>6. CASE SftpAnnounce
  BY <1>6 DEF SftpAnnounce
<1>7. CASE WaitReturns
  BY <1>7 DEF WaitReturns
<1>8. CASE SftpRetract
  BY <1>8 DEF SftpRetract
<1>9. CASE SftpWaiterCloses
  BY <1>9 DEF SftpWaiterCloses
<1>10. CASE SftpStop
  BY <1>10 DEF SftpStop
<1>11. CASE SftpDrops
  BY <1>11 DEF SftpDrops, Drop
<1>12. CASE SshStep \/ SshHalts
  BY <1>12 DEF SshStep, SshHalts, Replace, Announce, Retract, Halt
<1>13. CASE UNCHANGED <<linkVars, sftpVars>>
  BY <1>13
<1>14. QED
  BY <1>1, <1>2, <1>3, <1>4, <1>5, <1>6, <1>7, <1>8, <1>9, <1>10, <1>11, <1>12, <1>13
  DEF SftpNext, SftpLoop

\* Every reachable state satisfies the inductive invariant.
THEOREM SftpInvariance == SftpSpec => []SftpInv
  BY SftpInitInv, SftpStepInv, PTL DEF SftpSpec

\* Every step is a step of the abstract link, or leaves it alone.
LEMMA SftpStepRefines ==
  ASSUME SftpInv, [SftpNext]_<<linkVars, sftpVars>>
  PROVE  [AsLink!LinkNext]_(AsLink!linkVars)
<1> USE DEF SftpInv, SftpTypeOK, LinkTypeOK, SftpReady, SftpGoto, linkVars, sftpVars,
            AsLink!LinkNext, AsLink!linkVars
<1>1. CASE CreateOk
  <2>1. AsLink!Replace
    BY <1>1 DEF CreateOk, AsLink!Replace
  <2>2. QED
    BY <2>1
<1>2. CASE SftpAnnounce
  <2>1. AsLink!Announce
    BY <1>2 DEF SftpAnnounce, AsLink!Announce
  <2>2. QED
    BY <2>1
<1>3. CASE SftpRetract
  <2>1. AsLink!Retract
    BY <1>3 DEF SftpRetract, AsLink!Retract
  <2>2. QED
    BY <2>1
<1>4. CASE SftpDrops
  <2>1. AsLink!Drop \/ UNCHANGED AsLink!linkVars
    BY <1>4 DEF SftpDrops, Drop, AsLink!Drop
  <2>2. QED
    BY <2>1
<1>5. CASE SshStep \/ SshHalts
  <2>1. AsLink!Halt \/ UNCHANGED AsLink!linkVars
    BY <1>5 DEF SshStep, SshHalts, Replace, Announce, Retract, Halt, AsLink!Halt
  <2>2. QED
    BY <2>1
<1>6. CASE SftpWaitBegin \/ SftpWaitReady \/ SftpWaitTerminated \/ CreateFails \/ WaitReturns
  BY <1>6 DEF SftpWaitBegin, SftpWaitReady, SftpWaitTerminated, CreateFails, WaitReturns
<1>7. CASE SftpWaiterCloses \/ SftpStop \/ UNCHANGED <<linkVars, sftpVars>>
  BY <1>7 DEF SftpWaiterCloses, SftpStop
<1>8. QED
  BY <1>1, <1>2, <1>3, <1>4, <1>5, <1>6, <1>7 DEF SftpNext, SftpLoop

\* An SftpClient implements the link its users are written against.
THEOREM SftpRefinement == SftpSpec => SftpImplementsLink
<1>1. SftpInit => AsLink!LinkInit
  BY DEF SftpInit, LinkInit, SftpReady, AsLink!LinkInit
<1>2. SftpInv /\ [SftpNext]_<<linkVars, sftpVars>> => [AsLink!LinkNext]_(AsLink!linkVars)
  BY SftpStepRefines
<1>3. QED
  BY SftpInvariance, <1>1, <1>2, PTL DEF SftpSpec, SftpImplementsLink, AsLink!LinkSpec

------------------------------------------------------------------------------
(* The composition *)

\* Every step of the commands is a step of the SftpClient they use or leaves it
\* alone: the end of the process is to the client what SshHalts is.
LEMMA StepIsSftpStep ==
  ASSUME [Next]_vars
  PROVE  [SftpNext]_<<linkVars, sftpVars>>
<1> USE DEF clientVars
<1>1. CASE ClientLost \/ ClientStep
  BY <1>1 DEF ClientLost, ClientStep, SftpNext
<1>2. CASE Exit
  BY <1>2 DEF Exit, SftpNext, SshHalts
<1>3. CASE RootGone
  BY <1>3 DEF RootGone, Goto, SftpNext, SshHalts, Halt, linkVars, sftpVars
<1>4. CASE \/ Ready \/ Prepare \/ PrepareFails \/ WalkRoot \/ MakeDir \/ MakeDirFails
           \/ ReadDir \/ ReadDirFails \/ EnqueueAdd \/ EnqueueSend \/ WalkEnds \/ PoolWait
  BY <1>4
  DEF Ready, Prepare, PrepareFails, WalkRoot, MakeDir, MakeDirFails, ReadDir, ReadDirFails,
      EnqueueAdd, EnqueueSend, WalkEnds, PoolWait
<1>5. CASE \E w \in Workers : WorkerStep(w)
  BY <1>5 DEF WorkerStep, TakeJob, CopyReady, StartCopy, CopyEnds, CopyFails, JobDone, Step
<1>6. CASE UNCHANGED vars
  BY <1>6 DEF vars
<1>7. QED
  BY <1>1, <1>2, <1>3, <1>4, <1>5, <1>6 DEF Next, MainStep

\* The SftpClient under get -r and put -r implements the link that GetFile and
\* PutFile are written against.
THEOREM ComposedImplementsLink == Spec => SftpImplementsLink
<1>1. Init => SftpInit
  BY DEF Init
<1>2. [Next]_vars => [SftpNext]_<<linkVars, sftpVars>>
  BY StepIsSftpStep
<1>3. Spec => SftpSpec
  BY <1>1, <1>2, PTL DEF Spec, SftpSpec
<1>4. QED
  BY <1>3, SftpRefinement

------------------------------------------------------------------------------
(* getFileRecursive and putFileRecursive *)

Types ==
  /\ upload \in BOOLEAN
  /\ pc \in {"new", "prepare", "root", "walk", "readdir", "send", "wait", "returned",
             "exited", "panic"}
  /\ next \in 1 .. Len(Depth) + 1
  /\ present \subseteq Entries
  /\ reached \subseteq Files
  /\ wg \in Int
  /\ jobs \in Seq(Files)
  /\ wpc \in [Workers -> {"idle", "blocked", "starting", "copying", "finished"}]
  /\ job \in [Workers -> Files \cup {1}]
  /\ result \in {"none", "ok", "err"}

\* Where the walk is, every directory above was made: after a directory that
\* could be read, after a file, and behind a directory that could not.
Walk ==
  /\ pc \in {"new", "prepare", "root"} => next = 1
  /\ pc = "readdir" => next - 1 \in Dirs /\ next - 1 \in present
  /\ pc = "send" => next \in Files /\ next \in reached
  /\ pc \in {"walk", "readdir", "send"} /\ next \in Entries =>
       \A d \in Dirs : Below(d, next) => d \in present
  /\ ParentsFirst

\* The workers that have a job.
Busy == {w \in Workers : wpc[w] # "idle"}

\* The wait group counts the jobs that are queued, those that workers have and
\* the one that is being handed over.
Counting == wg = Len(jobs) + Cardinality(Busy) + (IF pc = "send" THEN 1 ELSE 0)

\* Worker w has a file that its GetFile or PutFile has not returned for.
Untried(w) == wpc[w] \in {"blocked", "starting", "copying"}

\* File f is in the hands of the walk, of the queue or of a worker.
InPool(f) ==
  \/ pc = "send" /\ f = next
  \/ \E i \in 1 .. Len(jobs) : jobs[i] = f
  \/ \E w \in Workers : Untried(w) /\ job[w] = f

\* No file is forgotten, and none is tried that the walk did not reach.
Accounted ==
  /\ tried \subseteq reached
  /\ \A f \in reached : f \in tried \/ InPool(f)
  /\ \A i \in 1 .. Len(jobs) : jobs[i] \in reached
  /\ \A w \in Workers : Untried(w) => job[w] \in reached

\* The functions return nil only from Wait, and put returns only from there or
\* before it has used the pool.
Phases ==
  /\ pc \in {"new", "prepare", "root"} => wg = 0
  /\ result = "ok" => pc \in {"returned", "exited"} /\ wg = 0
  /\ upload /\ pc \in {"returned", "exited"} => wg = 0

\* The inductive invariant.
Inv == Types /\ Walk /\ Counting /\ Accounted /\ Phases

\* A set of natural numbers that is not empty has a least element.
LEMMA LeastElement ==
  ASSUME NEW T, T \subseteq Nat, T # {}
  PROVE  \E x \in T : \A y \in T : x <= y
<1>1. PICK x \in T : \A y \in T : <<y, x>> \notin OpToRel(<, Nat)
  BY NatLessThanWellFounded, WFMin
<1>2. \A y \in T : ~(y < x)
  BY <1>1 DEF OpToRel
<1>3. QED
  BY <1>2

\* The workers with a job are finitely many.
LEMMA BusyFinite == IsFiniteSet(Busy) /\ Cardinality(Busy) \in Nat
  BY TreeAssumption, FS_Subset, FS_CardinalityType DEF Busy

\* If the count is zero no job is queued, handed over or with a worker.
LEMMA ZeroIsIdle ==
  ASSUME Types, Counting, wg = 0
  PROVE  jobs = <<>> /\ pc # "send" /\ \A w \in Workers : wpc[w] = "idle"
<1>1. Len(jobs) \in Nat /\ Cardinality(Busy) \in Nat
  BY BusyFinite, LenProperties DEF Types
<1>2. Len(jobs) = 0 /\ Cardinality(Busy) = 0 /\ pc # "send"
  BY <1>1 DEF Counting
<1>3. Busy = {}
  BY <1>2, BusyFinite, FS_EmptySet
<1>4. jobs = <<>>
  BY <1>2, EmptySeq DEF Types
<1>5. QED
  BY <1>2, <1>3, <1>4 DEF Busy

\* The entries and their depths.
LEMMA TreeTypes ==
  /\ Len(Depth) \in Nat /\ Len(Depth) >= 1
  /\ Entries = 1 .. Len(Depth) /\ Entries \subseteq Nat
  /\ \A e \in Entries : Depth[e] \in Nat
  /\ Dirs \subseteq Entries /\ Files = Entries \ Dirs
<1>1. Depth \in Seq(Nat) /\ Depth # <<>> /\ Dirs \subseteq Entries
  BY TreeAssumption
<1>2. Len(Depth) \in Nat /\ Len(Depth) # 0 /\ \A e \in 1 .. Len(Depth) : Depth[e] \in Nat
  BY <1>1, LenProperties, ElementOfSeq, EmptySeq
<1>3. QED
  BY <1>1, <1>2 DEF Entries, Files

\* What is below d at e was below d at every entry in between.
LEMMA BelowShorter ==
  ASSUME NEW d \in Nat, NEW e \in Nat, NEW f \in Nat, d < f, f <= e, Below(d, e)
  PROVE  Below(d, f)
  BY DEF Below

\* The entry that get goes on with behind a directory it could not read: the
\* first one that is not below it.
LEMMA SkipIs ==
  ASSUME NEW n \in 1 .. Len(Depth) + 1, n - 1 \in Entries
  PROVE  LET skip == CHOOSE e \in n .. Len(Depth) + 1 :
                       /\ \A f \in n .. e - 1 : Below(n - 1, f)
                       /\ e \in Entries => ~Below(n - 1, e)
         IN  /\ skip \in n .. Len(Depth) + 1
             /\ \A f \in n .. skip - 1 : Below(n - 1, f)
             /\ skip \in Entries => ~Below(n - 1, skip)
<1> DEFINE T == {e \in n .. Len(Depth) + 1 : e \in Entries => ~Below(n - 1, e)}
<1>1. T \subseteq Nat /\ Len(Depth) + 1 \in T
  BY TreeTypes
<1>2. PICK x \in T : \A y \in T : x <= y
  BY <1>1, LeastElement
<1>3. x \in n .. Len(Depth) + 1 /\ (x \in Entries => ~Below(n - 1, x))
  OBVIOUS
<1>4. ASSUME NEW f \in n .. x - 1 PROVE Below(n - 1, f)
  <2>1. f \in n .. Len(Depth) + 1 /\ ~(x <= f)
    BY <1>3, TreeTypes
  <2>2. f \notin T
    BY <1>2, <2>1
  <2>3. QED
    BY <2>1, <2>2
<1>5. \E e \in n .. Len(Depth) + 1 : /\ \A f \in n .. e - 1 : Below(n - 1, f)
                                     /\ e \in Entries => ~Below(n - 1, e)
  BY <1>3, <1>4
<1>6. QED
  BY <1>5

\* Every directory above that entry was made: it is above the unreadable one
\* too, for a directory below the unreadable one has only entries below it.
LEMMA SkipParents ==
  ASSUME NEW n \in 1 .. Len(Depth) + 1, n - 1 \in Entries, NEW e \in n .. Len(Depth) + 1,
         e \in Entries,
         \A f \in n .. e - 1 : Below(n - 1, f),
         ~Below(n - 1, e),
         NEW d \in Dirs, Below(d, e)
  PROVE  d < n - 1 /\ Below(d, n) /\ n \in Entries
<1>1. /\ d \in Nat /\ e \in Nat /\ n \in Nat /\ n - 1 \in Nat /\ d \in Entries /\ d < e
      /\ n <= e /\ n \in Entries
  BY TreeTypes DEF Below
<1>2. d # n - 1
  OBVIOUS
<1>3. ASSUME n <= d PROVE FALSE
  <2>1. Below(n - 1, d) /\ Depth[d] > Depth[n - 1]
    <3>1. d \in n .. e - 1
      BY <1>1, <1>3
    <3>2. Below(n - 1, d)
      BY <3>1
    <3>3. d \in (n - 1) + 1 .. d
      BY <1>1, <1>3
    <3>4. QED
      BY <3>2, <3>3 DEF Below
  <2>2. PICK f \in (n - 1) + 1 .. e : ~(Depth[f] > Depth[n - 1])
    BY <1>1 DEF Below
  <2>3. f = e
    <3>1. SUFFICES ASSUME f # e PROVE FALSE
      OBVIOUS
    <3>2. f \in n .. e - 1 /\ f \in (n - 1) + 1 .. f
      BY <1>1, <3>1
    <3>3. Below(n - 1, f)
      BY <3>2
    <3>4. QED
      BY <2>2, <3>2, <3>3 DEF Below
  <2>4. Depth[e] > Depth[d]
    <3>1. e \in d + 1 .. e
      BY <1>1
    <3>2. QED
      BY <3>1 DEF Below
  <2>5. Depth[e] \in Nat /\ Depth[d] \in Nat /\ Depth[n - 1] \in Nat
    BY <1>1, TreeTypes
  <2>6. QED
    BY <2>1, <2>2, <2>3, <2>4, <2>5
<1>4. d < n - 1
  BY <1>1, <1>2, <1>3
<1>5. Below(d, n)
  BY <1>1, <1>4, BelowShorter
<1>6. QED
  BY <1>1, <1>4, <1>5

\* The invariant holds at the start.
LEMMA InitInv == Init => Inv
<1> SUFFICES ASSUME Init PROVE Inv
  OBVIOUS
<1>1. Types
  BY TreeTypes DEF Init, Types
<1>2. Walk
  BY DEF Init, Walk, ParentsFirst
<1>3. Busy = {} /\ Cardinality(Busy) = 0
  BY FS_EmptySet DEF Init, Busy
<1>4. Counting
  BY <1>3 DEF Init, Counting
<1>5. Accounted /\ Phases
  BY DEF Init, Accounted, Phases, Untried
<1>6. QED
  BY <1>1, <1>2, <1>4, <1>5 DEF Inv

\* A step of the main goroutine that is not part of Enqueue leaves the pool.
LEMMA SamePool ==
  ASSUME Inv, UNCHANGED poolVars, pc # "send", pc' # "send"
  PROVE  Counting' /\ Accounted'
<1> USE DEF poolVars
<1>1. Counting'
  BY DEF Inv, Counting, Busy
<1>2. \A f : InPool(f)' <=> InPool(f)
  BY DEF InPool, Untried
<1>3. Accounted'
  BY <1>2 DEF Inv, Accounted, Untried
<1>4. QED
  BY <1>1, <1>3

\* The steps before the walk, and those that end it.
LEMMA EndsInv ==
  ASSUME Inv,
         \/ Ready \/ Prepare \/ PrepareFails \/ WalkRoot \/ RootGone \/ MakeDirFails \/ ReadDir
         \/ WalkEnds \/ PoolWait \/ Exit,
         UNCHANGED upload
  PROVE  Inv'
<1> USE DEF Goto
<1>1. /\ UNCHANGED poolVars /\ UNCHANGED <<next, present>>
      /\ pc # "send" /\ pc' # "send" /\ pc' # "readdir"
  BY DEF Ready, Prepare, PrepareFails, WalkRoot, RootGone, MakeDirFails, ReadDir, WalkEnds,
         PoolWait, Exit
<1>2. Counting' /\ Accounted'
  BY <1>1, SamePool
<1>3. Types'
  BY <1>1
  DEF Inv, Types, poolVars, Ready, Prepare, PrepareFails, WalkRoot, RootGone, MakeDirFails,
      ReadDir, WalkEnds, PoolWait, Exit
<1>4. Walk'
  <2>1. pc' \in {"new", "prepare", "root"} => pc \in {"new", "prepare", "root"}
    BY DEF Ready, Prepare, PrepareFails, WalkRoot, RootGone, MakeDirFails, ReadDir, WalkEnds,
           PoolWait, Exit
  <2>2. pc' = "walk" => pc \in {"root", "readdir"}
    BY DEF Ready, Prepare, PrepareFails, WalkRoot, RootGone, MakeDirFails, ReadDir, WalkEnds,
           PoolWait, Exit
  <2>3. pc = "root" => next = 1 /\ \A d \in Dirs : ~Below(d, next)
    BY TreeTypes DEF Inv, Walk, Below
  <2>4. ParentsFirst'
    BY <1>1 DEF Inv, Walk, ParentsFirst, Below, poolVars
  <2>5. pc' = "walk" /\ next \in Entries => \A d \in Dirs : Below(d, next) => d \in present
    BY <2>2, <2>3 DEF Inv, Walk
  <2>6. QED
    BY <1>1, <2>1, <2>4, <2>5 DEF Inv, Walk, Below, poolVars
<1>5. Phases'
  BY <1>1
  DEF Inv, Phases, poolVars, Ready, Prepare, PrepareFails, WalkRoot, RootGone, MakeDirFails,
      ReadDir, WalkEnds, PoolWait, Exit
<1>6. QED
  BY <1>2, <1>3, <1>4, <1>5 DEF Inv

\* A directory is made: it is above what comes next, or nothing new is.
LEMMA MakeDirInv == ASSUME Inv, MakeDir, UNCHANGED upload PROVE Inv'
<1>1. /\ pc = "walk" /\ pc' = "readdir" /\ next \in Dirs
      /\ present' = present \cup {next} /\ next' = next + 1
      /\ UNCHANGED poolVars /\ UNCHANGED result
  BY DEF MakeDir, Goto
<1>2. Counting' /\ Accounted'
  BY <1>1, SamePool
<1>3. next \in Entries /\ next \in Nat /\ next' \in 1 .. Len(Depth) + 1
  BY <1>1, TreeTypes
<1>4. Types'
  BY <1>1, <1>3 DEF Inv, Types, poolVars
<1>5. ASSUME NEW d \in Dirs, Below(d, next') PROVE d \in present'
  <2>1. d \in Nat /\ d < next + 1
    BY <1>1, <1>5, TreeTypes DEF Below
  <2>2. CASE d = next
    BY <1>1, <2>2
  <2>3. CASE d < next
    <3>1. Below(d, next)
      BY <1>1, <1>3, <1>5, <2>1, <2>3, BelowShorter
    <3>2. QED
      BY <1>1, <1>3, <3>1 DEF Inv, Walk
  <2>4. QED
    BY <1>3, <2>1, <2>2, <2>3
<1>6. ParentsFirst'
  BY <1>1 DEF Inv, Walk, ParentsFirst, Below, poolVars
<1>7. next' - 1 \in Dirs /\ next' - 1 \in present'
  <2>1. next' - 1 = next
    BY <1>1, <1>3
  <2>2. QED
    BY <1>1, <2>1
<1>8. Walk'
  BY <1>1, <1>5, <1>6, <1>7 DEF Walk, Below
<1>9. Phases'
  BY <1>1 DEF Inv, Phases, poolVars
<1>10. QED
  BY <1>2, <1>4, <1>8, <1>9 DEF Inv

\* A directory that cannot be read is skipped, or ends put's walk.
LEMMA ReadDirFailsInv == ASSUME Inv, ReadDirFails, UNCHANGED upload PROVE Inv'
<1>1. /\ pc = "readdir" /\ pc' = (IF upload THEN "wait" ELSE "walk")
      /\ UNCHANGED poolVars /\ UNCHANGED <<present, result>>
  BY DEF ReadDirFails, Goto
<1>2. Counting' /\ Accounted'
  BY <1>1, SamePool
<1>3. next \in 1 .. Len(Depth) + 1 /\ next - 1 \in Entries /\ next - 1 \in present
  BY <1>1, TreeTypes DEF Inv, Types, Walk
<1>4. ParentsFirst'
  BY <1>1 DEF Inv, Walk, ParentsFirst, Below, poolVars
<1>5. Phases'
  BY <1>1 DEF Inv, Phases, poolVars
<1>6. CASE upload
  <2>1. next' = next
    BY <1>6 DEF ReadDirFails
  <2>2. Types'
    BY <1>1, <1>6, <2>1 DEF Inv, Types, poolVars
  <2>3. Walk'
    BY <1>1, <1>4, <1>6 DEF Walk
  <2>4. QED
    BY <1>2, <1>5, <2>2, <2>3 DEF Inv
<1>7. CASE ~upload
  <2>1. /\ next' \in next .. Len(Depth) + 1
        /\ \A f \in next .. next' - 1 : Below(next - 1, f)
        /\ next' \in Entries => ~Below(next - 1, next')
    BY <1>3, <1>7, SkipIs DEF ReadDirFails
  <2>2. next' \in 1 .. Len(Depth) + 1
    BY <1>3, <2>1, TreeTypes
  <2>3. Types'
    BY <1>1, <1>7, <2>2 DEF Inv, Types, poolVars
  <2>4. ASSUME next' \in Entries, NEW d \in Dirs, Below(d, next') PROVE d \in present'
    <3>1. Below(d, next) /\ next \in Entries
      BY <1>3, <2>1, <2>4, SkipParents
    <3>2. QED
      BY <1>1, <3>1 DEF Inv, Walk
  <2>5. Walk'
    BY <1>1, <1>4, <1>7, <2>4 DEF Walk, Below
  <2>6. QED
    BY <1>2, <1>5, <2>3, <2>5 DEF Inv
<1>8. QED
  BY <1>6, <1>7 DEF Inv, Types

\* Enqueue: the file is counted and reached, then queued.
LEMMA EnqueueInv == ASSUME Inv, EnqueueAdd \/ EnqueueSend, UNCHANGED upload PROVE Inv'
<1>1. /\ UNCHANGED <<present, tried, wpc, job, result>>
      /\ pc \in {"walk", "send"} /\ pc' \in {"walk", "send"} /\ pc # pc'
      /\ next \in Files /\ next \in Entries /\ next \in Nat
  BY TreeTypes DEF EnqueueAdd, EnqueueSend, Goto, Inv, Walk
<1>2. Busy' = Busy /\ Cardinality(Busy) \in Nat /\ Len(jobs) \in Nat /\ wg \in Int
  BY <1>1, BusyFinite, LenProperties DEF Busy, Inv, Types
<1>3. CASE EnqueueAdd
  <2>1. /\ pc = "walk" /\ pc' = "send" /\ wg' = wg + 1 /\ reached' = reached \cup {next}
        /\ UNCHANGED <<next, jobs>>
    BY <1>3 DEF EnqueueAdd, Goto
  <2>2. Types'
    BY <1>1, <1>2, <2>1 DEF Inv, Types
  <2>3. Counting'
    BY <1>2, <2>1 DEF Inv, Counting
  <2>4. \A f \in reached : f \in tried \/ InPool(f)'
    BY <1>1, <2>1 DEF Inv, Accounted, InPool, Untried
  <2>5. InPool(next)'
    BY <2>1 DEF InPool
  <2>6. Accounted'
    BY <1>1, <2>1, <2>4, <2>5 DEF Inv, Accounted, Untried
  <2>7. \A d \in Dirs : Below(d, next) => d \in present
    BY <1>1, <2>1 DEF Inv, Walk
  <2>8. Walk'
    BY <1>1, <2>1, <2>7 DEF Inv, Walk, ParentsFirst, Below
  <2>9. Phases'
    BY <1>1, <2>1 DEF Inv, Phases
  <2>10. QED
    BY <2>2, <2>3, <2>6, <2>8, <2>9 DEF Inv
<1>4. CASE EnqueueSend
  <2>1. /\ pc = "send" /\ pc' = "walk" /\ jobs' = Append(jobs, next) /\ next' = next + 1
        /\ UNCHANGED <<wg, reached>> /\ next \in reached
    BY <1>4 DEF EnqueueSend, Goto, Inv, Walk
  <2>2. /\ jobs' \in Seq(Files) /\ Len(jobs') = Len(jobs) + 1
        /\ \A i \in 1 .. Len(jobs) : jobs'[i] = jobs[i] /\ i \in 1 .. Len(jobs')
        /\ jobs'[Len(jobs) + 1] = next /\ Len(jobs) + 1 \in 1 .. Len(jobs')
        /\ \A i \in 1 .. Len(jobs') : i \in 1 .. Len(jobs) \/ i = Len(jobs) + 1
    BY <1>1, <1>2, <2>1, AppendProperties DEF Inv, Types
  <2>3. Types'
    BY <1>1, <2>1, <2>2, TreeTypes DEF Inv, Types
  <2>4. Counting'
    BY <1>2, <2>1, <2>2 DEF Inv, Counting
  <2>5. \A f \in reached : f \in tried \/ InPool(f)'
    <3>1. \A f : InPool(f) => InPool(f)'
      BY <1>1, <2>1, <2>2 DEF InPool, Untried
    <3>2. QED
      BY <3>1 DEF Inv, Accounted
  <2>6. Accounted'
    BY <1>1, <2>1, <2>2, <2>5 DEF Inv, Accounted, Untried
  <2>7. ASSUME next' \in Entries, NEW d \in Dirs, Below(d, next') PROVE d \in present'
    <3>1. d \in Nat /\ d < next + 1 /\ d # next
      BY <1>1, <2>1, <2>7, TreeTypes DEF Below
    <3>2. Below(d, next)
      BY <1>1, <2>1, <2>7, <3>1, BelowShorter
    <3>3. QED
      BY <1>1, <2>1, <3>2 DEF Inv, Walk
  <2>8. Walk'
    BY <1>1, <2>1, <2>7 DEF Inv, Walk, ParentsFirst, Below
  <2>9. Phases'
    BY <1>1, <2>1 DEF Inv, Phases
  <2>10. QED
    BY <2>3, <2>4, <2>6, <2>8, <2>9 DEF Inv
<1>5. QED
  BY <1>3, <1>4

------------------------------------------------------------------------------
(* The workers *)

\* A worker leaves the walk alone: it only adds to the destination.
LEMMA WorkerWalk ==
  ASSUME Inv, UNCHANGED <<pc, next, reached>>, present \subseteq present'
  PROVE  Walk'
  BY DEF Inv, Walk, ParentsFirst, Below

\* Taking a job moves the file from the queue to the worker.
LEMMA TakeInv == ASSUME Inv, NEW w \in Workers, TakeJob(w) PROVE Inv'
<1>1. /\ wpc[w] = "idle" /\ wpc' = [wpc EXCEPT ![w] = "blocked"]
      /\ jobs # <<>> /\ jobs' = Tail(jobs) /\ job' = [job EXCEPT ![w] = Head(jobs)]
      /\ UNCHANGED <<upload, pc, next, result, reached, present, tried, wg>>
  BY DEF TakeJob, Step, walkVars
<1>2. /\ Head(jobs) \in Files /\ Head(jobs) = jobs[1] /\ 1 \in 1 .. Len(jobs)
      /\ jobs' \in Seq(Files) /\ Len(jobs') = Len(jobs) - 1 /\ Len(jobs) \in Nat
      /\ \A i \in 1 .. Len(jobs') : jobs'[i] = jobs[i + 1] /\ i + 1 \in 1 .. Len(jobs)
  BY <1>1, HeadTailProperties, LenProperties, EmptySeq DEF Inv, Types
<1>3. Busy' = Busy \cup {w} /\ w \notin Busy
  BY <1>1 DEF Busy, Inv, Types
<1>4. Cardinality(Busy') = Cardinality(Busy) + 1
  BY <1>3, BusyFinite, FS_AddElement
<1>5. Counting'
  BY <1>1, <1>2, <1>4, BusyFinite DEF Inv, Counting
<1>6. Types'
  BY <1>1, <1>2 DEF Inv, Types
<1>7. /\ job'[w] = jobs[1] /\ wpc'[w] = "blocked"
      /\ \A v \in Workers : v # w => job'[v] = job[v] /\ wpc'[v] = wpc[v]
  BY SMTT(30), <1>1, <1>2 DEF Inv, Types
<1>8. ASSUME NEW f, InPool(f) PROVE InPool(f)'
  <2>1. CASE pc = "send" /\ f = next
    BY <1>1, <2>1 DEF InPool
  <2>2. ASSUME NEW i \in 1 .. Len(jobs), jobs[i] = f PROVE InPool(f)'
    <3>1. CASE i = 1
      BY <1>7, <2>2, <3>1 DEF InPool, Untried
    <3>2. CASE i # 1
      <4>1. i - 1 \in 1 .. Len(jobs') /\ jobs'[i - 1] = jobs[i]
        BY <1>2, <3>2
      <4>2. QED
        BY <2>2, <4>1 DEF InPool
    <3>3. QED
      BY <3>1, <3>2
  <2>3. ASSUME NEW v \in Workers, Untried(v), job[v] = f PROVE InPool(f)'
    <3>1. v # w
      BY <1>1, <2>3 DEF Untried
    <3>2. QED
      BY <1>7, <2>3, <3>1 DEF InPool, Untried
  <2>4. QED
    BY <1>8, <2>1, <2>2, <2>3 DEF InPool
<1>9. Accounted'
  <2>1. \A i \in 1 .. Len(jobs') : jobs'[i] \in reached
    BY <1>2 DEF Inv, Accounted
  <2>2. \A v \in Workers : Untried(v)' => job'[v] \in reached
    BY <1>2, <1>7 DEF Inv, Accounted, Untried
  <2>3. QED
    BY <1>1, <1>8, <2>1, <2>2 DEF Inv, Accounted, Untried
<1>10. Walk' /\ Phases'
  BY <1>1, WorkerWalk DEF Inv, Phases
<1>11. QED
  BY <1>5, <1>6, <1>9, <1>10 DEF Inv

\* Within a job the count stays; the file is tried when the call returns.
LEMMA CopyInv ==
  ASSUME Inv, NEW w \in Workers, CopyReady(w) \/ StartCopy(w) \/ CopyEnds(w) \/ CopyFails(w)
  PROVE  Inv'
<1>1. PICK to \in {"starting", "copying", "finished"} :
        /\ Untried(w) /\ wpc' = [wpc EXCEPT ![w] = to]
        /\ tried' = (IF to = "finished" THEN tried \cup {job[w]} ELSE tried)
        /\ present' \in {present, present \cup {job[w]}}
        /\ UNCHANGED <<upload, pc, next, result, reached, wg, jobs, job>>
  BY DEF CopyReady, StartCopy, CopyEnds, CopyFails, Step, walkVars, Untried
<1>2. job[w] \in Entries /\ job[w] \in reached /\ reached \subseteq Files
  BY <1>1, TreeTypes DEF Inv, Types, Accounted
<1>3. /\ wpc[w] # "idle" /\ wpc'[w] = to
      /\ \A v \in Workers : v # w => wpc'[v] = wpc[v]
  BY <1>1 DEF Inv, Types, Untried
<1>4. Busy' = Busy
  BY <1>1, <1>3 DEF Busy, Inv, Types
<1>5. Counting'
  BY <1>1, <1>4 DEF Inv, Counting
<1>6. Types'
  BY SMTT(30), <1>1, <1>2 DEF Inv, Types
<1>7. \A f : InPool(f) => InPool(f)' \/ (to = "finished" /\ f = job[w])
  BY SMTT(30), <1>1, <1>3 DEF InPool, Untried
<1>8. Accounted'
  <2>1. \A v \in Workers : Untried(v)' => job[v] \in reached
    BY <1>1, <1>3 DEF Inv, Accounted, Untried
  <2>2. QED
    BY SMTT(30), <1>1, <1>2, <1>7, <2>1 DEF Inv, Accounted, Untried
<1>9. Walk' /\ Phases'
  BY <1>1, WorkerWalk DEF Inv, Phases
<1>10. QED
  BY SMTT(30), <1>5, <1>6, <1>8, <1>9 DEF Inv

\* A job that is done is counted no more.
LEMMA DoneInv == ASSUME Inv, NEW w \in Workers, JobDone(w) PROVE Inv'
<1>1. /\ wpc[w] = "finished" /\ wpc' = [wpc EXCEPT ![w] = "idle"] /\ wg' = wg - 1
      /\ UNCHANGED <<upload, pc, next, result, reached, present, tried, jobs, job>>
  BY DEF JobDone, Step, walkVars
<1>2. Busy' = Busy \ {w} /\ w \in Busy
  BY <1>1 DEF Busy, Inv, Types
<1>3. Cardinality(Busy') = Cardinality(Busy) - 1
  BY <1>2, BusyFinite, FS_RemoveElement
<1>4. Len(jobs) \in Nat /\ Cardinality(Busy) \in Nat /\ wg \in Int
  BY BusyFinite, LenProperties DEF Inv, Types
<1>5. Counting'
  BY <1>1, <1>3, <1>4 DEF Inv, Counting
<1>6. wg # 0
  BY <1>1, ZeroIsIdle DEF Inv
<1>7. Types'
  BY <1>1, <1>4 DEF Inv, Types
<1>8. \A v \in Workers : Untried(v)' <=> Untried(v)
  BY <1>1 DEF Untried, Inv, Types
<1>9. \A f : InPool(f) => InPool(f)'
  BY <1>1, <1>8 DEF InPool, Untried
<1>10. Accounted'
  BY <1>1, <1>8, <1>9 DEF Inv, Accounted, Untried
<1>11. Walk' /\ Phases'
  BY <1>1, <1>6, WorkerWalk DEF Inv, Phases
<1>12. QED
  BY <1>5, <1>7, <1>10, <1>11 DEF Inv

------------------------------------------------------------------------------
(* The whole *)

\* The SftpClient and the network touch nothing of this.
LEMMA OthersInv == ASSUME Inv, ClientLost \/ ClientStep \/ UNCHANGED vars PROVE Inv'
<1>1. UNCHANGED <<upload, pc, next, result, present, reached, tried, wg, jobs, wpc, job>>
  BY DEF ClientLost, ClientStep, vars, walkVars, poolVars
<1>2. Busy' = Busy /\ \A f : InPool(f)' <=> InPool(f)
  BY <1>1 DEF Busy, InPool, Untried
<1>3. Accounted'
  BY <1>1, <1>2 DEF Inv, Accounted, Untried
<1>4. Types' /\ Counting' /\ Phases'
  BY <1>1, <1>2 DEF Inv, Types, Counting, Phases
<1>5. Walk'
  BY <1>1, WorkerWalk
<1>6. QED
  BY <1>3, <1>4, <1>5 DEF Inv

\* Every reachable state satisfies the inductive invariant.
THEOREM Invariance == Spec => []Inv
<1>1. Inv /\ [Next]_vars => Inv'
  BY EndsInv, MakeDirInv, ReadDirFailsInv, EnqueueInv, TakeInv, CopyInv, DoneInv, OthersInv
  DEF Next, MainStep, WorkerStep
<1>2. QED
  BY InitInv, <1>1, PTL DEF Spec

\* The directories above a file are made before it is given to the pool, in
\* every tree and whatever could not be read or made.
THEOREM ParentsFirstAlways == Spec => []ParentsFirst
<1>1. Inv => ParentsFirst
  BY DEF Inv, Walk
<1>2. QED
  BY Invariance, <1>1, PTL

\* getFileRecursive and putFileRecursive return nil only when each file they
\* reached was tried and the workers are idle.
THEOREM OkIsTriedAlways == Spec => []OkIsTried
<1>1. ASSUME Inv, result = "ok" PROVE reached = tried /\ \A w \in Workers : wpc[w] = "idle"
  <2>1. jobs = <<>> /\ pc # "send" /\ \A w \in Workers : wpc[w] = "idle"
    BY <1>1, ZeroIsIdle DEF Inv, Phases
  <2>2. \A f : ~InPool(f)
    BY <2>1 DEF InPool, Untried
  <2>3. QED
    BY <1>1, <2>1, <2>2 DEF Inv, Accounted
<1>2. Inv => OkIsTried
  BY <1>1 DEF OkIsTried
<1>3. QED
  BY Invariance, <1>2, PTL

\* put -r exits with no file queued or being copied.
THEOREM NothingCutOffAlways == Spec => []NothingCutOff
<1>1. Inv => NothingCutOff
  BY ZeroIsIdle DEF Inv, Phases, NothingCutOff
<1>2. QED
  BY Invariance, <1>1, PTL
==============================================================================

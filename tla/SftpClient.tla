----------------------------- MODULE SftpClient ------------------------------
(***************************************************************************)
(* SftpClient of pkg/sshc/sftp_client.go over the link of Link.tla: the    *)
(* goroutine that runs Start, the waiter it spawns, Stop, and the sftp     *)
(* client, which ends with the ssh client it was made on.  To GetFile,     *)
(* PutFile and the commands an SftpClient is a link of its own.            *)
(***************************************************************************)
EXTENDS Link, Naturals

CONSTANT MaxDrops   \* bound: how often the ssh or the sftp client fails

ASSUME SftpClientAssumption == MaxDrops \in Nat

VARIABLES
  spc,        \* where the goroutine of Start is
  waiter,     \* the channel c of waitForSshClient: "open", or "closed" by the waiter
  connected,  \* the counter of s.connected
  sftp,       \* s.Client: "nil", or an sftp client that is "open" or "closed"
  terminate,  \* s.terminate is closed
  drops

sftpVars == <<spc, waiter, connected, sftp, terminate, drops>>

SftpTypeOK ==
  /\ LinkTypeOK
  /\ spc \in {"wait", "select", "create", "ready", "serving", "lost", "terminated"}
  /\ waiter \in {"open", "closed"}
  /\ connected \in {0, 1}
  /\ sftp \in {"nil", "open", "closed"}
  /\ terminate \in BOOLEAN
  /\ drops \in 0 .. MaxDrops

\* NewSftpClient.
SftpInit ==
  /\ LinkInit
  /\ spc = "wait" /\ waiter = "open"
  /\ connected = 1 /\ sftp = "nil"
  /\ terminate = FALSE /\ drops = 0

\* SftpClient.ReadyWait returns.
SftpReady == connected = 0

SftpGoto(from, to) ==
  /\ halted = "no"
  /\ spc = from /\ spc' = to

------------------------------------------------------------------------------
(* waitForSshClient and Start *)

\* A new waiter, and the outer select: terminate wins if it is closed.
SftpWaitBegin ==
  /\ IF terminate THEN SftpGoto("wait", "terminated") ELSE SftpGoto("wait", "select")
  /\ waiter' = "open"
  /\ UNCHANGED <<linkVars, connected, sftp, terminate, drops>>

\* The waiter: sshConn.ReadyWait returns, close(c).
SftpWaiterCloses ==
  /\ halted = "no" /\ spc = "select"
  /\ gate = "open" /\ waiter = "open"
  /\ waiter' = "closed"
  /\ UNCHANGED <<linkVars, spc, connected, sftp, terminate, drops>>

SftpWaitReady ==
  /\ SftpGoto("select", "create")
  /\ waiter = "closed"
  /\ UNCHANGED <<linkVars, waiter, connected, sftp, terminate, drops>>

SftpWaitTerminated ==
  /\ SftpGoto("select", "terminated")
  /\ terminate
  /\ UNCHANGED <<linkVars, waiter, connected, sftp, terminate, drops>>

\* sftp.NewClient on the ssh client of this moment; s.Client = client
CreateOk ==
  /\ SftpGoto("create", "ready")
  /\ client = "open"
  /\ sftp' = "open"
  /\ UNCHANGED <<linkVars, waiter, connected, terminate, drops>>

\* The ssh client is closed, or the server has no sftp subsystem.
CreateFails ==
  /\ SftpGoto("create", "wait")
  /\ UNCHANGED <<linkVars, waiter, connected, sftp, terminate, drops>>

\* s.connected.Done()
SftpAnnounce ==
  /\ SftpGoto("ready", "serving")
  /\ connected' = connected - 1
  /\ UNCHANGED <<linkVars, waiter, sftp, terminate, drops>>

\* client.Wait() returns.
WaitReturns ==
  /\ SftpGoto("serving", "lost")
  /\ sftp = "closed"
  /\ UNCHANGED <<linkVars, waiter, connected, sftp, terminate, drops>>

\* Mutated: the client is not retracted.
SftpKeeps ==
  /\ SftpGoto("lost", "wait")
  /\ UNCHANGED <<linkVars, waiter, connected, sftp, terminate, drops>>

\* s.connected.Add(1)
SftpRetract ==
  /\ SftpGoto("lost", "wait")
  /\ connected' = connected + 1
  /\ UNCHANGED <<linkVars, waiter, sftp, terminate, drops>>

\* Stop, which no command calls.
SftpStop ==
  /\ halted = "no" /\ ~terminate
  /\ terminate' = TRUE
  /\ UNCHANGED <<linkVars, spc, waiter, connected, sftp, drops>>

------------------------------------------------------------------------------
(* The network *)

\* The ssh client fails, and the sftp client that was made on it; or the sftp
\* client alone.
SftpDrops ==
  /\ \/ Drop
     \/ halted = "no" /\ sftp = "open" /\ UNCHANGED linkVars
  /\ sftp' = IF sftp = "open" THEN "closed" ELSE sftp
  /\ drops < MaxDrops /\ drops' = drops + 1
  /\ UNCHANGED <<spc, waiter, connected, terminate>>

\* The other steps of the ssh connection.
SshStep ==
  /\ Replace \/ Announce \/ Retract
  /\ UNCHANGED sftpVars

\* The ssh connection ends the process.
SshHalts == Halt /\ UNCHANGED sftpVars

------------------------------------------------------------------------------
\* Start, as long as Stop is not called.
SftpLoop ==
  \/ SftpWaitBegin \/ SftpWaitReady \/ CreateOk \/ CreateFails
  \/ SftpAnnounce \/ WaitReturns \/ SftpRetract

SftpNext ==
  \/ SftpLoop \/ SftpWaitTerminated \/ SftpWaiterCloses \/ SftpStop
  \/ SftpDrops \/ SshStep \/ SshHalts

SftpSpec == SftpInit /\ [][SftpNext]_<<linkVars, sftpVars>>

\* To its users an SftpClient behaves as the SshConnection below does: s.Client
\* is replaced only while ReadyWait blocks and once the old client is closed,
\* ReadyWait lets nobody through before there is a client, and blocks again
\* only after the client is closed.
AsLink == INSTANCE Link WITH gate <- IF SftpReady THEN "open" ELSE "shut", client <- sftp

SftpImplementsLink == AsLink!LinkSpec
==============================================================================

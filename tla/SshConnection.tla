---------------------------- MODULE SshConnection ----------------------------
(***************************************************************************)
(* pkg/sshc/ssh_connection.go: the goroutine that runs Start and keeps one *)
(* ssh client connected, directly or through jump hosts; the goroutines    *)
(* that call Stop; and the users of the connection (tunnels, proxies),     *)
(* which call ReadyWait and then a method of s.Client.  Every section held *)
(* under a mutex, and every operation of the wait group, is one step.      *)
(***************************************************************************)
EXTENDS WaitGroup

CONSTANTS NumJumpHosts,   \* len(s.jumpHosts)
          Insecure,       \* s.insecure
          Stoppers,       \* goroutines that call Stop, once each
          Users           \* goroutines that call ReadyWait, again and again

ASSUME ConnectionAssumption ==
  /\ NumJumpHosts \in Nat
  /\ Insecure \in BOOLEAN

JumpHosts == 1 .. NumJumpHosts
Server == NumJumpHosts + 1
Hosts == 1 .. Server

VARIABLES
  pc,         \* where the goroutine of Start is
  reached,    \* the hosts the connect in progress has logged into: 1 .. reached
  jumpOpen,   \* the jump hosts to which this process holds an open ssh client
  client,     \* s.Client: "nil", or a client that is "open" or "closed"
  connected,  \* s.connected
  status,     \* s.connectionStatus
  isStopped,  \* s.isStopped
  khFile,     \* the known_hosts file: "missing", "ok", or "bad" (unusable)
  known,      \* its verdict on each host's key: "absent", "match", "differs"
  spc,        \* where each caller of Stop is
  upc,        \* where each user is
  halted      \* "no", or why the process is gone: "fatal" or "panic"

connVars == <<reached, jumpOpen, client, connected, status, isStopped>>
hostVars == <<khFile, known>>
vars == <<pc, connVars, hostVars, spc, upc, halted>>

PCs == {"new", "check", "connecting", "dial", "sleep", "assign", "release",
        "setstatus", "keepalive", "reset", "closed", "rearm", "returned"}

TypeOK ==
  /\ pc \in PCs
  /\ reached \in 0 .. Server
  /\ jumpOpen \in SUBSET JumpHosts
  /\ client \in {"nil", "open", "closed"}
  /\ connected \in WaitGroups(Users)
  /\ status \in {"CONNECTING", "CONNECTED", "CLOSED"}
  /\ isStopped \in BOOLEAN
  /\ khFile \in {"missing", "ok", "bad"}
  /\ known \in [Hosts -> {"absent", "match", "differs"}]
  /\ spc \in [Stoppers -> {"idle", "flagged", "closed", "done"}]
  /\ upc \in [Users -> {"idle", "waiting", "ready"}]
  /\ halted \in {"no", "fatal", "panic"}

\* NewSshConnection.
Init ==
  /\ pc = "new"
  /\ reached = 0
  /\ jumpOpen = {}
  /\ client = "nil"
  /\ connected = NewWaitGroup(1)
  /\ status = "CONNECTING"
  /\ isStopped = TRUE
  /\ khFile \in {"missing", "ok", "bad"}
  /\ known \in [Hosts -> {"absent", "match", "differs"}]
  /\ khFile # "ok" => known = [h \in Hosts |-> "absent"]
  /\ spc = [s \in Stoppers |-> "idle"]
  /\ upc = [u \in Users |-> "idle"]
  /\ halted = "no"

------------------------------------------------------------------------------
(* Host keys *)

\* Mutated: a changed key is only logged.
VerdictLax(h, fail) ==
  IF known[h] = "absent" /\ ~Insecure THEN "fatal" ELSE "accept"

\* verifyHostCallback(fail) on the key of host h.  A file that is missing is
\* created, so it knows no host; one that is bad stays bad.
Verdict(h, fail) ==
  CASE Insecure                     -> "accept"
    [] ~Insecure /\ khFile = "bad"  -> "fatal"
    [] ~Insecure /\ khFile # "bad" /\ known[h] = "match"   -> "accept"
    [] ~Insecure /\ khFile # "bad" /\ known[h] = "differs" -> "reject"
    [] ~Insecure /\ khFile # "bad" /\ known[h] = "absent"  ->
         IF fail THEN "fatal" ELSE "add"

\* The callback creates a known_hosts file that is missing.
CreateKnownHosts ==
  khFile' = IF ~Insecure /\ khFile = "missing" THEN "ok" ELSE khFile

\* GrabPubKey, used before Start: one dial of the server, for its callback.
\* AddHostKeyToKnownHosts may fail, and its error is dropped.
GrabPubKey ==
  /\ halted = "no" /\ pc = "new"
  /\ CreateKnownHosts
  /\ halted' = IF Verdict(Server, FALSE) = "fatal" THEN "fatal" ELSE "no"
  /\ known' \in IF Verdict(Server, FALSE) = "add"
                THEN {known, [known EXCEPT ![Server] = "match"]}
                ELSE {known}
  /\ UNCHANGED <<pc, connVars, spc, upc>>

------------------------------------------------------------------------------
(* The loop of Start *)

Goto(from, to) ==
  /\ halted = "no"
  /\ pc = from /\ pc' = to

StartCall ==
  /\ Goto("new", "check")
  /\ isStopped' = FALSE
  /\ UNCHANGED <<reached, jumpOpen, client, connected, status, hostVars, spc, upc, halted>>

CheckStopped ==
  /\ IF isStopped THEN Goto("check", "returned") ELSE Goto("check", "connecting")
  /\ UNCHANGED <<connVars, hostVars, spc, upc, halted>>

SetConnecting ==
  /\ Goto("connecting", "dial")
  /\ status' = "CONNECTING"
  /\ reached' = 0
  /\ UNCHANGED <<jumpOpen, client, connected, isStopped, hostVars, spc, upc, halted>>

\* directConnect, or one turn of jumpHostConnect: the next host is dialled
\* through the previous one, its key is accepted and the login succeeds.
ReachHost(h) ==
  /\ reached = h - 1
  /\ reached > 0 => reached \in jumpOpen
  /\ Verdict(h, TRUE) = "accept"
  /\ IF h = Server THEN Goto("dial", "assign") ELSE Goto("dial", "dial")
  /\ reached' = h
  /\ jumpOpen' = jumpOpen \cup ({h} \cap JumpHosts)
  /\ CreateKnownHosts
  /\ UNCHANGED <<client, connected, status, isStopped, known, spc, upc, halted>>

\* The next host is unreachable, refuses the login, or its key has changed.
\* The clients of the jump hosts already reached are not closed.
DialFails ==
  /\ Goto("dial", "sleep")
  /\ UNCHANGED <<connVars, hostVars, spc, upc, halted>>

\* log.Fatalf in the host key callback of the next host.
DialFatal ==
  /\ halted = "no" /\ pc = "dial"
  /\ reached > 0 => reached \in jumpOpen
  /\ Verdict(reached + 1, TRUE) = "fatal"
  /\ CreateKnownHosts
  /\ halted' = "fatal"
  /\ UNCHANGED <<pc, connVars, known, spc, upc>>

\* Mutated: a failed connect re-arms the wait group as a lost one does.
SleepEndsAdd ==
  /\ Goto("sleep", "check")
  /\ connected' = WGAdd(connected, 1)
  /\ UNCHANGED <<reached, jumpOpen, client, status, isStopped, hostVars, spc, upc, halted>>

\* Mutated: return in place of continue.
SleepEndsReturn ==
  /\ Goto("sleep", "returned")
  /\ UNCHANGED <<connVars, hostVars, spc, upc, halted>>

\* time.Sleep(s.reconnectionInterval)
SleepEnds ==
  /\ Goto("sleep", "check")
  /\ UNCHANGED <<connVars, hostVars, spc, upc, halted>>

\* s.Client = client.  A jump host may have failed since it was reached.
AssignClient ==
  /\ Goto("assign", "release")
  /\ client' = IF JumpHosts \subseteq jumpOpen THEN "open" ELSE "closed"
  /\ UNCHANGED <<reached, jumpOpen, connected, status, isStopped, hostVars, spc, upc, halted>>

ConnectedDone ==
  /\ Goto("release", "setstatus")
  /\ connected' = WGAdd(connected, -1)
  /\ UNCHANGED <<reached, jumpOpen, client, status, isStopped, hostVars, spc, upc, halted>>

SetConnected ==
  /\ Goto("setstatus", "keepalive")
  /\ status' = "CONNECTED"
  /\ UNCHANGED <<reached, jumpOpen, client, connected, isStopped, hostVars, spc, upc, halted>>

\* Mutated: a late answer ends keepAlive, and resetConn is not called.
KeepAliveNoReset ==
  /\ Goto("keepalive", "rearm")
  /\ UNCHANGED <<connVars, hostVars, spc, upc, halted>>

\* keepAlive returns when a request fails; an answered one changes nothing.
KeepAliveFails ==
  /\ Goto("keepalive", "reset")
  /\ client = "closed"
  /\ UNCHANGED <<connVars, hostVars, spc, upc, halted>>

\* The first section of resetConn.
CloseClient == client' = IF client = "nil" THEN "nil" ELSE "closed"

ResetClose ==
  /\ Goto("reset", "closed")
  /\ CloseClient
  /\ UNCHANGED <<reached, jumpOpen, connected, status, isStopped, hostVars, spc, upc, halted>>

ResetStatus ==
  /\ Goto("closed", "rearm")
  /\ status' = "CLOSED"
  /\ UNCHANGED <<reached, jumpOpen, client, connected, isStopped, hostVars, spc, upc, halted>>

\* Mutated: no Add(1).
ConnectedNoAdd ==
  /\ Goto("rearm", "check")
  /\ UNCHANGED <<connVars, hostVars, spc, upc, halted>>

ConnectedAdd ==
  /\ Goto("rearm", "check")
  /\ connected' = WGAdd(connected, 1)
  /\ UNCHANGED <<reached, jumpOpen, client, status, isStopped, hostVars, spc, upc, halted>>

------------------------------------------------------------------------------
(* Stop, called by another goroutine *)

StopFlag(s) ==
  /\ halted = "no" /\ spc[s] = "idle"
  /\ spc' = [spc EXCEPT ![s] = "flagged"]
  /\ isStopped' = TRUE
  /\ UNCHANGED <<pc, reached, jumpOpen, client, connected, status, hostVars, upc, halted>>

\* Mutated: Stop only sets the flag and the status.
StopNoClose(s) ==
  /\ halted = "no" /\ spc[s] = "flagged"
  /\ spc' = [spc EXCEPT ![s] = "closed"]
  /\ UNCHANGED <<pc, connVars, hostVars, upc, halted>>

StopClose(s) ==
  /\ halted = "no" /\ spc[s] = "flagged"
  /\ spc' = [spc EXCEPT ![s] = "closed"]
  /\ CloseClient
  /\ UNCHANGED <<pc, reached, jumpOpen, connected, status, isStopped, hostVars, upc, halted>>

StopStatus(s) ==
  /\ halted = "no" /\ spc[s] = "closed"
  /\ spc' = [spc EXCEPT ![s] = "done"]
  /\ status' = "CLOSED"
  /\ UNCHANGED <<pc, reached, jumpOpen, client, connected, isStopped, hostVars, upc, halted>>

------------------------------------------------------------------------------
(* The users: ReadyWait, then a call on s.Client *)

ReadyWait(u) ==
  /\ halted = "no" /\ upc[u] = "idle"
  /\ upc' = [upc EXCEPT ![u] = IF connected.n = 0 THEN "ready" ELSE "waiting"]
  /\ connected' = IF connected.n = 0 THEN connected ELSE WGBlock(connected, u)
  /\ UNCHANGED <<pc, reached, jumpOpen, client, status, isStopped, hostVars, spc, halted>>

\* A released user runs again and returns from Wait, or the runtime panics.
WaitReturns(u) ==
  /\ halted = "no" /\ u \in connected.woken
  /\ IF WGReused(connected)
     THEN halted' = "panic" /\ UNCHANGED <<upc, connected>>
     ELSE /\ upc' = [upc EXCEPT ![u] = "ready"]
          /\ connected' = WGReturn(connected, u)
          /\ UNCHANGED halted
  /\ UNCHANGED <<pc, reached, jumpOpen, client, status, isStopped, hostVars, spc>>

\* s.Client.Dial, Listen or NewSession: an error if the client is closed, a
\* nil dereference if there is none.
UseClient(u) ==
  /\ halted = "no" /\ upc[u] = "ready"
  /\ upc' = [upc EXCEPT ![u] = "idle"]
  /\ halted' = IF client = "nil" THEN "panic" ELSE "no"
  /\ UNCHANGED <<pc, connVars, hostVars, spc>>

------------------------------------------------------------------------------
(* The network *)

\* The server or the path to it fails.
ServerFails ==
  /\ halted = "no" /\ client = "open"
  /\ client' = "closed"
  /\ UNCHANGED <<pc, reached, jumpOpen, connected, status, isStopped, hostVars, spc, upc, halted>>

\* A jump host fails, and with it every connection that goes through it.
JumpHostFails(h) ==
  /\ halted = "no" /\ h \in jumpOpen
  /\ jumpOpen' = {j \in jumpOpen : j < h}
  /\ client' = IF client = "open" THEN "closed" ELSE client
  /\ UNCHANGED <<pc, reached, connected, status, isStopped, hostVars, spc, upc, halted>>

------------------------------------------------------------------------------
\* What the goroutine of Start does next, whatever the outcome.
StartStep ==
  \/ StartCall \/ CheckStopped \/ SetConnecting
  \/ (\E h \in Hosts : ReachHost(h)) \/ DialFails \/ DialFatal \/ SleepEnds
  \/ AssignClient \/ ConnectedDone \/ SetConnected
  \/ KeepAliveFails \/ ResetClose \/ ResetStatus \/ ConnectedAdd

StopStep(s) == StopFlag(s) \/ StopClose(s) \/ StopStatus(s)

UserStep(u) == ReadyWait(u) \/ WaitReturns(u) \/ UseClient(u)

Next ==
  \/ StartStep
  \/ GrabPubKey
  \/ \E s \in Stoppers : StopStep(s)
  \/ \E u \in Users : UserStep(u)
  \/ ServerFails
  \/ \E h \in JumpHosts : JumpHostFails(h)

Spec == Init /\ [][Next]_vars

\* Goroutines are scheduled; a Stop that has begun goes on; a host that is
\* dialled again and again answers in the end, with a key that is accepted or
\* unknown.  Nothing makes the network fail, nobody has to call Stop or
\* ReadyWait.
Fairness ==
  /\ WF_vars(StartStep)
  /\ \A h \in Hosts : SF_vars(ReachHost(h))
  /\ SF_vars(DialFatal)
  /\ \A s \in Stoppers : WF_vars(StopClose(s) \/ StopStatus(s))
  /\ \A u \in Users : WF_vars(WaitReturns(u) \/ UseClient(u))

FairSpec == Spec /\ Fairness

------------------------------------------------------------------------------
(* Safety *)

\* A user that ReadyWait lets through, now or earlier, finds a client in
\* s.Client: resetConn closes the client and never clears the pointer, and
\* connect assigns it before Done.
ReadyHasClient ==
  (connected.n = 0 \/ \E u \in Users : upc[u] = "ready") => client # "nil"

\* The signals by which others judge the connection agree, although Start and
\* Stop update them in separate steps: Done and Add(1) alternate, so that the
\* counter neither goes negative (a panic) nor accumulates; GetConnectionStatus
\* answers CONNECTED only while ReadyWait lets users through; and once Start
\* has returned no client is open and users block in ReadyWait.
SignalsAgree ==
  /\ connected.n \in {0, 1}
  /\ status = "CONNECTED" => connected.n = 0
  /\ pc = "returned" => client # "open" /\ connected.n = 1

\* Unless host checking is off, s.Client is only ever set over a chain of
\* hosts whose keys known_hosts confirms.
TrustedChain ==
  ~Insecure /\ client # "nil" => \A h \in Hosts : known[h] = "match"

\* The connection is a link as its users understand it: a client is replaced
\* only while ReadyWait blocks and after the previous one is closed, and the
\* gate shuts only after the client is closed.
AbstractLink ==
  INSTANCE Link WITH gate <- IF connected.n = 0 THEN "open" ELSE "shut",
                     halted <- IF halted = "no" THEN "no" ELSE "gone"
ImplementsLink == AbstractLink!LinkSpec

(* Liveness *)

\* keepAlive notices a closed client: the wait group is armed again.
LossIsNoticed ==
  (client = "closed" /\ connected.n = 0) ~> (connected.n = 1 \/ halted # "no")

\* A user blocked in ReadyWait is released, however often the connection
\* fails, as long as the hosts answer in the end, none of them has changed its
\* key and nobody calls Stop.
WaiterReleased ==
  \A u \in Users :
    upc[u] = "waiting" ~> \/ upc[u] = "ready" \/ isStopped \/ halted # "no"
                         \/ \E h \in Hosts : Verdict(h, TRUE) = "reject"

\* Stop, when it closes the client of an established connection, makes Start
\* return.
StopWhileUp ==
  \A s \in Stoppers :
    (spc[s] = "flagged" /\ isStopped /\ pc \in {"release", "setstatus", "keepalive"})
      ~> (pc = "returned" \/ halted # "no")
==============================================================================

------------------------------- MODULE Tunnel --------------------------------
(***************************************************************************)
(* pkg/tun/tunnel.go over the link of Link.tla: the goroutine that runs    *)
(* Start, the waiter it spawns, the copiers of each connection, one caller *)
(* of Stop with the goroutine Stop leaves behind, and the network.         *)
(*                                                                         *)
(* A connection has a near end, the one Accept returned, and a far end,    *)
(* the one dialled beforehand.  In a forward tunnel the listener and the   *)
(* near ends are local sockets and the far ends are channels of the ssh    *)
(* client; in a reverse tunnel it is the other way round.                  *)
(***************************************************************************)
EXTENDS Link, Naturals, FiniteSets

CONSTANTS Stoppable,       \* t.stoppable
          Conns,           \* the connections clients make, each accepted once
          Addrs,           \* client.RemoteAddr().String()
          AddrOf,          \* the address each connection comes from
          NoConn,          \* no entry in clientsMap
          MaxDrops,        \* bound: how often the link drops
          MaxFarFailures   \* bound: how often a far end fails by itself

ASSUME TunnelAssumption ==
  /\ Stoppable \in BOOLEAN
  /\ IsFiniteSet(Conns)
  /\ AddrOf \in [Conns -> Addrs]
  /\ NoConn \notin Conns
  /\ MaxDrops \in Nat /\ MaxFarFailures \in Nat

VARIABLES
  forward,     \* t.forward
  tpc,         \* where the goroutine of Start is
  waiter,      \* the channel c of waitForSshClient: "open", or "closed" by the waiter
  listener,    \* the listener of the listenLocal or listenRemote in progress
  published,   \* t.listener: "nil", "current" (that listener) or "stale" (a past one)
  dialled,     \* the far end dialled for the next client: "none", "live" or "dead"
  accepted,    \* the connection Accept returned last
  st,          \* each connection: "new", "accepted", "mapped", "open", "closing", "done"
  near, far,   \* its two ends: "none", "live" or "dead"
  clientsMap,  \* t.clientsMap
  registryID,  \* t.registryID
  inRegistry,  \* the tunnel is in TunRegistry()
  sampler,     \* metricsSampler: "off", "running" or "done"
  stop,        \* what Stop does next
  drops, farFailures

listenVars == <<listener, published, dialled, accepted>>
copyVars == <<st, near, far, clientsMap>>
regVars == <<registryID, inRegistry, sampler>>
boundVars == <<forward, drops, farFailures>>
vars == <<linkVars, tpc, waiter, listenVars, copyVars, regVars, stop, boundVars>>

\* From net.Listen or Client.Listen to the deferred listener.Close.
Serving == {"publish", "dial", "accept", "register", "copy"}

Ends == {"none", "live", "dead"}

TypeOK ==
  /\ LinkTypeOK
  /\ forward \in BOOLEAN
  /\ tpc \in {"new", "added", "wait", "select", "listen", "sleep", "terminated"} \cup Serving
  /\ waiter \in {"open", "closed"}
  /\ listener \in {"none", "open", "closed"}
  /\ published \in {"nil", "current", "stale"}
  /\ dialled \in Ends
  /\ accepted \in Conns \cup {NoConn}
  /\ st \in [Conns -> {"new", "accepted", "mapped", "open", "closing", "done"}]
  /\ near \in [Conns -> Ends]
  /\ far \in [Conns -> Ends]
  /\ clientsMap \in [Addrs -> Conns \cup {NoConn}]
  /\ registryID \in {0, 1}
  /\ inRegistry \in BOOLEAN
  /\ sampler \in {"off", "running", "done"}
  /\ stop \in {"idle", "delete", "terminate", "listener", "clients", "done"}
  /\ drops \in 0 .. MaxDrops
  /\ farFailures \in 0 .. MaxFarFailures

\* NewTunnel.
Init ==
  /\ LinkInit
  /\ forward \in BOOLEAN
  /\ tpc = "new"
  /\ waiter = "open"
  /\ listener = "none" /\ published = "nil" /\ dialled = "none" /\ accepted = NoConn
  /\ st = [c \in Conns |-> "new"]
  /\ near = [c \in Conns |-> "none"]
  /\ far = [c \in Conns |-> "none"]
  /\ clientsMap = [a \in Addrs |-> NoConn]
  /\ registryID = 0 /\ inRegistry = FALSE /\ sampler = "off"
  /\ stop = "idle"
  /\ drops = 0 /\ farFailures = 0

\* close(t.metricsSamplerCloser) and close(t.terminate) have happened.
SamplerClosed == stop # "idle"
Terminate == stop \in {"listener", "clients", "done"}

Goto(from, to) ==
  /\ halted = "no"
  /\ tpc = from /\ tpc' = to

------------------------------------------------------------------------------
(* Start and waitForSshClient *)

\* TunRegistry().Add(t); the ID it returns is stored by the next step.
RegistryAdd ==
  /\ Goto("new", "added")
  /\ inRegistry' = TRUE
  /\ UNCHANGED <<linkVars, waiter, listenVars, copyVars, registryID, sampler, stop, boundVars>>

StoreID ==
  /\ Goto("added", "wait")
  /\ registryID' = 1
  /\ sampler' = "running"
  /\ UNCHANGED <<linkVars, waiter, listenVars, copyVars, inRegistry, stop, boundVars>>

\* A new waiter, and the outer select: terminate wins if it is closed.
WaitBegin ==
  /\ IF Terminate THEN Goto("wait", "terminated") ELSE Goto("wait", "select")
  /\ waiter' = "open"
  /\ UNCHANGED <<linkVars, listenVars, copyVars, regVars, stop, boundVars>>

\* The waiter: ReadyWait returns, close(c).
WaiterCloses ==
  /\ halted = "no" /\ tpc = "select"
  /\ gate = "open" /\ waiter = "open"
  /\ waiter' = "closed"
  /\ UNCHANGED <<linkVars, tpc, listenVars, copyVars, regVars, stop, boundVars>>

\* The inner select.  If both channels are closed, either case may run.
WaitReady ==
  /\ Goto("select", "listen")
  /\ waiter = "closed"
  /\ UNCHANGED <<linkVars, waiter, listenVars, copyVars, regVars, stop, boundVars>>

WaitTerminated ==
  /\ Goto("select", "terminated")
  /\ Terminate
  /\ UNCHANGED <<linkVars, waiter, listenVars, copyVars, regVars, stop, boundVars>>

SleepEnds ==
  /\ Goto("sleep", "wait")
  /\ UNCHANGED <<linkVars, waiter, listenVars, copyVars, regVars, stop, boundVars>>

------------------------------------------------------------------------------
(* listenLocal and listenRemote *)

\* net.Listen, or Client.Listen on the client of this moment.
ListenOk ==
  /\ Goto("listen", "publish")
  /\ forward \/ client = "open"
  /\ listener' = "open"
  /\ published' = IF published = "nil" THEN "nil" ELSE "stale"
  /\ UNCHANGED <<linkVars, waiter, dialled, accepted, copyVars, regVars, stop, boundVars>>

\* The port is taken, or the ssh client is closed.
ListenFails ==
  /\ Goto("listen", "sleep")
  /\ UNCHANGED <<linkVars, waiter, listenVars, copyVars, regVars, stop, boundVars>>

PublishListener ==
  /\ Goto("publish", "dial")
  /\ published' = "current"
  /\ UNCHANGED <<linkVars, waiter, listener, dialled, accepted, copyVars, regVars, stop, boundVars>>

\* The far end is dialled before there is a client for it.
DialOk ==
  /\ Goto("dial", "accept")
  /\ forward => client = "open"
  /\ dialled' = "live"
  /\ UNCHANGED <<linkVars, waiter, listener, published, accepted, copyVars, regVars, stop, boundVars>>

\* Mutated: no deferred listener.Close.
DialFailsNoClose ==
  /\ Goto("dial", "sleep")
  /\ UNCHANGED <<linkVars, waiter, listenVars, copyVars, regVars, stop, boundVars>>

\* Mutated: return from Start in place of break.
DialFailsReturn ==
  /\ Goto("dial", "terminated")
  /\ listener' = "closed"
  /\ UNCHANGED <<linkVars, waiter, published, dialled, accepted, copyVars, regVars, stop, boundVars>>

\* break, and the deferred listener.Close.
DialFails ==
  /\ Goto("dial", "sleep")
  /\ listener' = "closed"
  /\ UNCHANGED <<linkVars, waiter, published, dialled, accepted, copyVars, regVars, stop, boundVars>>

\* A client connects.  Its address is free if no connection that is still up
\* comes from it.
Accept(c) ==
  /\ Goto("accept", "register")
  /\ listener = "open"
  /\ st[c] = "new"
  /\ \A d \in Conns \ {c} : AddrOf[d] = AddrOf[c] => near[d] # "live"
  /\ accepted' = c
  /\ st' = [st EXCEPT ![c] = "accepted"]
  /\ near' = [near EXCEPT ![c] = "live"]
  /\ far' = [far EXCEPT ![c] = dialled]
  /\ dialled' = "none"
  /\ UNCHANGED <<linkVars, waiter, listener, published, clientsMap, regVars, stop, boundVars>>

\* The listener was closed.  The far end dialled for the next client is
\* dropped without being closed.
AcceptFails ==
  /\ Goto("accept", "sleep")
  /\ listener = "closed"
  /\ dialled' = "none"
  /\ UNCHANGED <<linkVars, waiter, listener, published, accepted, copyVars, regVars, stop, boundVars>>

\* t.clientsMap[client.RemoteAddr().String()] = client
RegisterClient ==
  /\ Goto("register", "copy")
  /\ clientsMap' = [clientsMap EXCEPT ![AddrOf[accepted]] = accepted]
  /\ st' = [st EXCEPT ![accepted] = "mapped"]
  /\ UNCHANGED <<linkVars, waiter, listenVars, near, far, regVars, stop, boundVars>>

\* copyConn starts the copiers and the loop goes on.
StartCopy ==
  /\ Goto("copy", "dial")
  /\ st' = [st EXCEPT ![accepted] = "open"]
  /\ UNCHANGED <<linkVars, waiter, listenVars, near, far, clientsMap, regVars, stop, boundVars>>

------------------------------------------------------------------------------
(* The copiers of a connection *)

\* A copier ends when an end fails; it closes both (rio.CopyConnWithOnClose).
CloseConn(c) ==
  /\ halted = "no" /\ st[c] = "open"
  /\ near[c] = "dead" \/ far[c] = "dead"
  /\ st' = [st EXCEPT ![c] = "closing"]
  /\ near' = [near EXCEPT ![c] = "dead"]
  /\ far' = [far EXCEPT ![c] = "dead"]
  /\ UNCHANGED <<linkVars, tpc, waiter, listenVars, clientsMap, regVars, stop, boundVars>>

\* Mutated: the entry is left in the map.
OnCloseKeeps(c) ==
  /\ halted = "no" /\ st[c] = "closing"
  /\ st' = [st EXCEPT ![c] = "done"]
  /\ UNCHANGED <<linkVars, tpc, waiter, listenVars, near, far, clientsMap, regVars, stop, boundVars>>

\* onClose: delete(t.clientsMap, c1.RemoteAddr().String())
OnClose(c) ==
  /\ halted = "no" /\ st[c] = "closing"
  /\ st' = [st EXCEPT ![c] = "done"]
  /\ clientsMap' = [clientsMap EXCEPT ![AddrOf[c]] = NoConn]
  /\ UNCHANGED <<linkVars, tpc, waiter, listenVars, near, far, regVars, stop, boundVars>>

\* GetActiveClientsCount
GetActiveClientsCount == Cardinality({a \in Addrs : clientsMap[a] # NoConn})

------------------------------------------------------------------------------
(* metricsSampler and Stop *)

SamplerEnds ==
  /\ halted = "no" /\ sampler = "running" /\ SamplerClosed
  /\ sampler' = "done"
  /\ UNCHANGED <<linkVars, tpc, waiter, listenVars, copyVars, registryID, inRegistry, stop, boundVars>>

StopStep(from, to) ==
  /\ halted = "no"
  /\ stop = from /\ stop' = to
  /\ UNCHANGED <<linkVars, tpc, waiter, boundVars>>

\* Stop returns at once unless the tunnel is stoppable.
StopSampler ==
  /\ Stoppable
  /\ StopStep("idle", "delete")
  /\ UNCHANGED <<listenVars, copyVars, regVars>>

\* TunRegistry().Delete(t.registryID): an ID that is not stored yet is 0, and
\* the registry does not know it.
StopDelete ==
  /\ StopStep("delete", "terminate")
  /\ inRegistry' = (inRegistry /\ registryID = 0)
  /\ UNCHANGED <<listenVars, copyVars, registryID, sampler>>

StopTerminate ==
  /\ StopStep("terminate", "listener")
  /\ UNCHANGED <<listenVars, copyVars, regVars>>

\* Mutated: the listener is not closed.
StopNoListener ==
  /\ StopStep("listener", "clients")
  /\ UNCHANGED <<listenVars, copyVars, regVars>>

\* The goroutine Stop leaves behind closes t.listener, whichever it is.
StopListener ==
  /\ StopStep("listener", "clients")
  /\ listener' = IF published = "current" THEN "closed" ELSE listener
  /\ UNCHANGED <<published, dialled, accepted, copyVars, regVars>>

\* It then closes every client in the map.
StopClients ==
  /\ StopStep("clients", "done")
  /\ near' = [c \in Conns |-> IF clientsMap[AddrOf[c]] = c THEN "dead" ELSE near[c]]
  /\ clientsMap' = [a \in Addrs |-> NoConn]
  /\ UNCHANGED <<listenVars, st, far, regVars>>

------------------------------------------------------------------------------
(* The network *)

Dead(ends) == [c \in Conns |-> IF ends[c] = "live" THEN "dead" ELSE ends[c]]

\* The ssh client fails, and every channel and listener of it.
LinkDrops ==
  /\ Drop
  /\ drops < MaxDrops /\ drops' = drops + 1
  /\ IF forward
     THEN /\ dialled' = IF dialled = "live" THEN "dead" ELSE dialled
          /\ far' = Dead(far)
          /\ UNCHANGED <<listener, near>>
     ELSE /\ listener' = IF listener = "open" THEN "closed" ELSE listener
          /\ near' = Dead(near)
          /\ UNCHANGED <<dialled, far>>
  /\ UNCHANGED <<tpc, waiter, published, accepted, st, clientsMap, regVars, stop, forward, farFailures>>

\* The other steps of the link, which a tunnel sees only through the gate and
\* s.Client.
LinkStep ==
  /\ Replace \/ Announce \/ Retract \/ Halt
  /\ UNCHANGED <<tpc, waiter, listenVars, copyVars, regVars, stop, boundVars>>

ClientLeaves(c) ==
  /\ halted = "no" /\ near[c] = "live"
  /\ near' = [near EXCEPT ![c] = "dead"]
  /\ UNCHANGED <<linkVars, tpc, waiter, listenVars, st, far, clientsMap, regVars, stop, boundVars>>

\* The service behind a far end closes it, in use or not.
FarFails ==
  /\ halted = "no"
  /\ farFailures < MaxFarFailures /\ farFailures' = farFailures + 1
  /\ \/ /\ dialled = "live" /\ dialled' = "dead"
        /\ UNCHANGED far
     \/ /\ \E c \in Conns : far[c] = "live" /\ far' = [far EXCEPT ![c] = "dead"]
        /\ UNCHANGED dialled
  /\ UNCHANGED <<linkVars, tpc, waiter, listener, published, accepted, st, near, clientsMap,
                 regVars, stop, forward, drops>>

------------------------------------------------------------------------------
StartStep ==
  \/ RegistryAdd \/ StoreID \/ WaitBegin \/ WaitReady \/ WaitTerminated \/ SleepEnds
  \/ ListenOk \/ ListenFails \/ PublishListener \/ DialOk \/ DialFails
  \/ AcceptFails \/ RegisterClient \/ StartCopy

StopGoesOn == StopDelete \/ StopTerminate \/ StopListener \/ StopClients

CopyStep(c) == CloseConn(c) \/ OnClose(c)

Next ==
  \/ StartStep
  \/ \E c \in Conns : Accept(c) \/ CopyStep(c) \/ ClientLeaves(c)
  \/ WaiterCloses \/ SamplerEnds
  \/ StopSampler \/ StopGoesOn
  \/ LinkDrops \/ LinkStep \/ FarFails

Spec == Init /\ [][Next]_vars

\* Goroutines are scheduled; listening and dialling, tried again and again,
\* succeed in the end; the link recovers, as SshConnection does.  Nobody has
\* to connect, to leave or to call Stop.
Fairness ==
  /\ WF_vars(StartStep) /\ WF_vars(WaiterCloses)
  /\ SF_vars(ListenOk) /\ SF_vars(DialOk)
  /\ WF_vars(StopGoesOn)
  /\ \A c \in Conns : WF_vars(CopyStep(c))
  /\ SF_vars(LinkStep /\ client # "open" /\ client' = "open")
  /\ WF_vars(LinkStep /\ gate = "shut" /\ gate' = "open")
  /\ WF_vars(LinkStep /\ gate = "open" /\ gate' = "shut")

FairSpec == Spec /\ Fairness

------------------------------------------------------------------------------
(* Safety *)

\* No listener outlives the call that opened it: while Start sleeps, waits or
\* has returned, every listener it opened is closed.
ListenerScoped == listener = "open" => tpc \in Serving

\* GetActiveClientsCount is the number of connections that were registered
\* and whose onClose has not run, until Stop clears the map.
CountIsExact ==
  stop # "done" =>
    GetActiveClientsCount = Cardinality({c \in Conns : st[c] \in {"mapped", "open", "closing"}})

(* Liveness *)

\* README: "tunnel are monitored and kept up in the event of network issues".
\* However the link, the listener and the dials fail, a tunnel that is not
\* stopped comes back to accepting clients.
KeptUp == []<>(tpc \in {"accept", "register", "copy"} \/ stop # "idle" \/ halted # "no")

\* Stop, when it finds the tunnel serving, makes Start return.
StopWhileServing ==
  (stop = "listener" /\ tpc \in {"dial", "accept", "register", "copy"})
    ~> (tpc = "terminated" \/ halted # "no")

(* What a comment of the code says, and the code does not do *)

\* "Stop ends the tunnel": once Stop is through, Start returns.
StopEndsTunnel == (stop = "done" /\ tpc # "new") ~> (tpc = "terminated" \/ halted # "no")
==============================================================================

------------------------------ MODULE SshServer ------------------------------
(***************************************************************************)
(* pkg/sshd: what the server does for an ssh connection that is logged in  *)
(* (how it logs in is in ServerLogin): its global requests and the         *)
(* listeners these open (request_handler.go), the tcp clients of the       *)
(* listeners (session_handler.go) and the direct-tcpip channels            *)
(* (channel_handler.go).  The other side of a connection is the ssh client *)
(* of a rospo process, with its forward and reverse tunnels: it has one    *)
(* request that waits for an answer at a time, and a reverse tunnel that   *)
(* was refused asks again.                                                 *)
(***************************************************************************)
EXTENDS Naturals, FiniteSets

CONSTANTS Sessions,    \* the ssh connections, each made once
          Ports,       \* the tcp ports of the server
          Conns,       \* the tcp connections that are forwarded, each once
          AnyPort,     \* port 0 of a request
          None,        \* no request, no listener, no session
          MaxCancels   \* bound: how many forwards are cancelled

ASSUME ServerAssumption ==
  /\ IsFiniteSet(Sessions)
  /\ AnyPort \notin Ports
  /\ MaxCancels \in Nat

\* A listener: the session and port it was opened for, and how many of these
\* were opened before.  A port is listened on again only after a cancel.
Listeners == Sessions \X Ports \X (0 .. MaxCancels)
Owner(l) == l[1]
Port(l) == l[2]

Requests ==
  [op : {"forward"}, port : Ports \cup {AnyPort}]
    \cup [op : {"cancel"}, port : Ports]
    \cup [op : {"other"}, port : {AnyPort}]

ASSUME NoneAssumption == None \notin Listeners \cup Requests

VARIABLES
  disableTunnelling,  \* s.disableTunnelling
  conn,            \* each ssh connection: "none", "up", "lost" (the server does not
                   \* know yet) or "down"
  hpc,             \* where its handleRequests is
  opening,         \* the listener tcpipForwardHandler is setting up
  req,             \* the request in r.reqs
  granted,         \* the ports the client holds a forward for, as it knows
  forwards,        \* r.forwards, by port
  lst,             \* each listener: "none" yet, "open" or "closed"
  chk,             \* its checkAlive: "none", "ticking", "closed" or "done"
  cst,             \* each tcp connection
  via,             \* the session it goes through
  fwdPort,         \* the port it was accepted on; AnyPort for a direct channel
  cancels

reqVars == <<hpc, opening, req, granted, forwards, cancels>>
lstVars == <<lst, chk>>
tcpVars == <<cst, via, fwdPort>>
vars == <<disableTunnelling, conn, reqVars, lstVars, tcpVars>>

TypeOK ==
  /\ disableTunnelling \in BOOLEAN
  /\ conn \in [Sessions -> {"none", "up", "lost", "down"}]
  /\ hpc \in [Sessions -> {"none", "range", "reply", "spawn", "map", "done"}]
  /\ opening \in [Sessions -> Listeners \cup {None}]
  /\ req \in [Sessions -> Requests \cup {None}]
  /\ granted \in [Sessions -> SUBSET Ports]
  /\ forwards \in [Sessions -> [Ports -> Listeners \cup {None}]]
  /\ lst \in [Listeners -> {"none", "open", "closed"}]
  /\ chk \in [Listeners -> {"none", "ticking", "closed", "done"}]
  /\ cst \in [Conns -> {"new", "opening", "dialling", "accepted", "copying", "closed"}]
  /\ via \in [Conns -> Sessions \cup {None}]
  /\ fwdPort \in [Conns -> Ports \cup {AnyPort}]
  /\ cancels \in 0 .. MaxCancels

Init ==
  /\ disableTunnelling \in BOOLEAN
  /\ conn = [k \in Sessions |-> "none"]
  /\ hpc = [k \in Sessions |-> "none"]
  /\ opening = [k \in Sessions |-> None]
  /\ req = [k \in Sessions |-> None]
  /\ granted = [k \in Sessions |-> {}]
  /\ forwards = [k \in Sessions |-> [p \in Ports |-> None]]
  /\ lst = [l \in Listeners |-> "none"]
  /\ chk = [l \in Listeners |-> "none"]
  /\ cst = [c \in Conns |-> "new"]
  /\ via = [c \in Conns |-> None]
  /\ fwdPort = [c \in Conns |-> AnyPort]
  /\ cancels = 0

------------------------------------------------------------------------------
(* serveConnection, from the login on *)

\* handleRequests runs beside handleChannels.
Serve(k) ==
  /\ conn[k] = "none"
  /\ conn' = [conn EXCEPT ![k] = "up"]
  /\ hpc' = [hpc EXCEPT ![k] = "range"]
  /\ UNCHANGED <<disableTunnelling, opening, req, granted, forwards, cancels, lstVars, tcpVars>>

------------------------------------------------------------------------------
(* handleRequests *)

\* The answer reaches a client that is still there, which has no other
\* request waiting.
Answered(k) == req' = [req EXCEPT ![k] = None]

\* Requests that change nothing: all of them when tunnelling is disabled, a
\* keepalive, and those the server only logs.
HandleSimple(k) ==
  /\ hpc[k] = "range" /\ req[k] # None
  /\ disableTunnelling \/ req[k].op = "other"
  /\ Answered(k)
  /\ UNCHANGED <<disableTunnelling, conn, hpc, opening, granted, forwards, cancels,
                 lstVars, tcpVars>>

InUse(p) == \E l \in Listeners : Port(l) = p /\ lst[l] = "open"

\* tcpipForwardHandler: net.Listen on the port asked for, or on any.
ListenOk(k) ==
  /\ hpc[k] = "range" /\ req[k] # None /\ req[k].op = "forward"
  /\ ~disableTunnelling
  /\ \E l \in Listeners :
       /\ Owner(l) = k /\ lst[l] = "none"
       /\ \A n \in 0 .. l[3] - 1 : lst[<<k, Port(l), n>>] # "none"
       /\ req[k].port \in {Port(l), AnyPort}
       /\ ~InUse(Port(l))
       /\ lst' = [lst EXCEPT ![l] = "open"]
       /\ opening' = [opening EXCEPT ![k] = l]
  /\ hpc' = [hpc EXCEPT ![k] = "reply"]
  /\ UNCHANGED <<disableTunnelling, conn, req, granted, forwards, cancels, chk, tcpVars>>

\* The port is taken, here or by another program: Reply(false).
ListenFails(k) ==
  /\ hpc[k] = "range" /\ req[k] # None /\ req[k].op = "forward"
  /\ ~disableTunnelling
  /\ Answered(k)
  /\ UNCHANGED <<disableTunnelling, conn, hpc, opening, granted, forwards, cancels,
                 lstVars, tcpVars>>

\* Reply(true) with the port.
ReplyForward(k) ==
  /\ hpc[k] = "reply"
  /\ hpc' = [hpc EXCEPT ![k] = "spawn"]
  /\ Answered(k)
  /\ granted' = IF conn[k] = "up" THEN [granted EXCEPT ![k] = @ \cup {Port(opening[k])}]
                                  ELSE granted
  /\ UNCHANGED <<disableTunnelling, conn, opening, forwards, cancels, lstVars, tcpVars>>

\* go handleSession(); go checkAlive()
SpawnForward(k) ==
  /\ hpc[k] = "spawn"
  /\ hpc' = [hpc EXCEPT ![k] = "map"]
  /\ chk' = [chk EXCEPT ![opening[k]] = "ticking"]
  /\ UNCHANGED <<disableTunnelling, conn, opening, req, granted, forwards, cancels, lst,
                 tcpVars>>

\* r.forwards[addr] = listener
MapForward(k) ==
  /\ hpc[k] = "map"
  /\ hpc' = [hpc EXCEPT ![k] = "range"]
  /\ forwards' = [forwards EXCEPT ![k][Port(opening[k])] = opening[k]]
  /\ opening' = [opening EXCEPT ![k] = None]
  /\ UNCHANGED <<disableTunnelling, conn, req, granted, cancels, lstVars, tcpVars>>

\* Mutated: the entry is deleted and the listener is not closed.
CancelDeletes(k) ==
  /\ hpc[k] = "range" /\ req[k] # None /\ req[k].op = "cancel"
  /\ ~disableTunnelling
  /\ forwards' = [forwards EXCEPT ![k][req[k].port] = None]
  /\ Answered(k)
  /\ UNCHANGED <<disableTunnelling, conn, hpc, opening, granted, cancels, lstVars, tcpVars>>

\* cancelTcpIpForwardHandler closes the listener and leaves its entry.
HandleCancel(k) ==
  /\ hpc[k] = "range" /\ req[k] # None /\ req[k].op = "cancel"
  /\ ~disableTunnelling
  /\ LET l == forwards[k][req[k].port]
     IN lst' = IF l = None THEN lst ELSE [lst EXCEPT ![l] = "closed"]
  /\ Answered(k)
  /\ UNCHANGED <<disableTunnelling, conn, hpc, opening, granted, forwards, cancels, chk,
                 tcpVars>>

\* range r.reqs ends with the connection.
RequestsEnd(k) ==
  /\ hpc[k] = "range" /\ req[k] = None /\ conn[k] = "down"
  /\ hpc' = [hpc EXCEPT ![k] = "done"]
  /\ UNCHANGED <<disableTunnelling, conn, opening, req, granted, forwards, cancels, lstVars,
                 tcpVars>>

------------------------------------------------------------------------------
(* checkAlive *)

\* Mutated: the deferred function only deletes the entry.
CheckFailsOpen(l) ==
  /\ chk[l] = "ticking" /\ conn[Owner(l)] = "down"
  /\ chk' = [chk EXCEPT ![l] = "closed"]
  /\ UNCHANGED <<disableTunnelling, conn, reqVars, lst, tcpVars>>

\* SendRequest fails once the server knows that the connection is gone; the
\* deferred function closes the listener, closed before or not.
CheckFails(l) ==
  /\ chk[l] = "ticking" /\ conn[Owner(l)] = "down"
  /\ chk' = [chk EXCEPT ![l] = "closed"]
  /\ lst' = [lst EXCEPT ![l] = "closed"]
  /\ UNCHANGED <<disableTunnelling, conn, reqVars, tcpVars>>

\* delete(r.forwards, addr): whatever listener the entry is for.
CheckDeletes(l) ==
  /\ chk[l] = "closed"
  /\ chk' = [chk EXCEPT ![l] = "done"]
  /\ forwards' = [forwards EXCEPT ![Owner(l)][Port(l)] = None]
  /\ UNCHANGED <<disableTunnelling, conn, hpc, opening, req, granted, cancels, lst,
                 tcpVars>>

------------------------------------------------------------------------------
(* handleSession and handleClient *)

\* The loop of handleSession runs until the listener is closed.
AcceptClient(l, c) ==
  /\ chk[l] # "none" /\ lst[l] = "open"
  /\ cst[c] = "new"
  /\ cst' = [cst EXCEPT ![c] = "accepted"]
  /\ via' = [via EXCEPT ![c] = Owner(l)]
  /\ fwdPort' = [fwdPort EXCEPT ![c] = Port(l)]
  /\ UNCHANGED <<disableTunnelling, conn, reqVars, lstVars>>

\* OpenChannel: the client takes it if it holds the forward.
OpenChannel(c) ==
  /\ cst[c] = "accepted"
  /\ conn[via[c]] = "up" /\ fwdPort[c] \in granted[via[c]]
  /\ cst' = [cst EXCEPT ![c] = "copying"]
  /\ UNCHANGED <<disableTunnelling, conn, reqVars, lstVars, via, fwdPort>>

\* Mutated: the requesting party is not hung up.
OpenChannelHangs(c) ==
  /\ cst[c] = "accepted"
  /\ conn[via[c]] = "down"
  /\ UNCHANGED vars

\* Otherwise it is refused, or the connection is gone: client.Close()
OpenChannelFails(c) ==
  /\ cst[c] = "accepted"
  /\ \/ conn[via[c]] = "down"
     \/ conn[via[c]] = "up" /\ fwdPort[c] \notin granted[via[c]]
  /\ cst' = [cst EXCEPT ![c] = "closed"]
  /\ UNCHANGED <<disableTunnelling, conn, reqVars, lstVars, via, fwdPort>>

------------------------------------------------------------------------------
(* handleChannels and handleChannelDirect, asked for by the client *)

OpenDirect(k, c) ==
  /\ conn[k] = "up" /\ ~disableTunnelling
  /\ cst[c] = "new"
  /\ cst' = [cst EXCEPT ![c] = "opening"]
  /\ via' = [via EXCEPT ![c] = k]
  /\ UNCHANGED <<disableTunnelling, conn, reqVars, lstVars, fwdPort>>

\* c.Accept(), which fails on a connection that is gone.
DirectAccept(c) ==
  /\ cst[c] = "opening"
  /\ cst' = [cst EXCEPT ![c] = IF conn[via[c]] = "down" THEN "closed" ELSE "dialling"]
  /\ UNCHANGED <<disableTunnelling, conn, reqVars, lstVars, via, fwdPort>>

\* net.Dial, then CopyConn; or connection.Close().
DirectDial(c) ==
  /\ cst[c] = "dialling"
  /\ \E s \in {"copying", "closed"} : cst' = [cst EXCEPT ![c] = s]
  /\ UNCHANGED <<disableTunnelling, conn, reqVars, lstVars, via, fwdPort>>

\* CopyConn ends both sides when the ssh connection is gone.
CopyEnds(c) ==
  /\ cst[c] = "copying" /\ conn[via[c]] = "down"
  /\ cst' = [cst EXCEPT ![c] = "closed"]
  /\ UNCHANGED <<disableTunnelling, conn, reqVars, lstVars, via, fwdPort>>

\* Or when either party leaves.
PartyLeaves(c) ==
  /\ cst[c] = "copying"
  /\ cst' = [cst EXCEPT ![c] = "closed"]
  /\ UNCHANGED <<disableTunnelling, conn, reqVars, lstVars, via, fwdPort>>

------------------------------------------------------------------------------
(* The clients and the network *)

Ask(k, r) ==
  /\ conn[k] = "up" /\ req[k] = None
  /\ req' = [req EXCEPT ![k] = r]

\* Client.Listen of a reverse tunnel, the first time or after a refusal.
AskForward(k, p) ==
  /\ Ask(k, [op |-> "forward", port |-> p])
  /\ p \notin granted[k]
  /\ UNCHANGED <<disableTunnelling, conn, hpc, opening, granted, forwards, cancels, lstVars,
                 tcpVars>>

\* Close of its listener: the client forgets the forward and tells the server.
AskCancel(k, p) ==
  /\ Ask(k, [op |-> "cancel", port |-> p])
  /\ p \in granted[k]
  /\ granted' = [granted EXCEPT ![k] = @ \ {p}]
  /\ cancels < MaxCancels /\ cancels' = cancels + 1
  /\ UNCHANGED <<disableTunnelling, conn, hpc, opening, forwards, lstVars, tcpVars>>

\* The keepalive of SshConnection, which waits for its answer too.
AskOther(k) ==
  /\ Ask(k, [op |-> "other", port |-> AnyPort])
  /\ UNCHANGED <<disableTunnelling, conn, hpc, opening, granted, forwards, cancels, lstVars,
                 tcpVars>>

\* The client stops or the network fails: it knows, the server does not yet.
ConnLost(k) ==
  /\ conn[k] = "up"
  /\ conn' = [conn EXCEPT ![k] = "lost"]
  /\ granted' = [granted EXCEPT ![k] = {}]
  /\ UNCHANGED <<disableTunnelling, hpc, opening, req, forwards, cancels,
                 lstVars, tcpVars>>

\* A read, a write or tcp's own probes fail.
ServerNotices(k) ==
  /\ conn[k] = "lost"
  /\ conn' = [conn EXCEPT ![k] = "down"]
  /\ UNCHANGED <<disableTunnelling, reqVars, lstVars, tcpVars>>

------------------------------------------------------------------------------
RequestStep(k) ==
  \/ HandleSimple(k) \/ ListenOk(k) \/ ListenFails(k) \/ ReplyForward(k) \/ SpawnForward(k)
  \/ MapForward(k) \/ HandleCancel(k) \/ RequestsEnd(k)

CheckStep(l) == CheckFails(l) \/ CheckDeletes(l)

TcpStep(c) ==
  \/ OpenChannel(c) \/ OpenChannelFails(c) \/ DirectAccept(c) \/ DirectDial(c) \/ CopyEnds(c)

Next ==
  \/ \E k \in Sessions :
       \/ Serve(k) \/ RequestStep(k)
       \/ AskOther(k) \/ ConnLost(k) \/ ServerNotices(k)
       \/ \E p \in Ports \cup {AnyPort} : AskForward(k, p)
       \/ \E p \in Ports : AskCancel(k, p)
       \/ \E c \in Conns : OpenDirect(k, c)
  \/ \E l \in Listeners : CheckStep(l) \/ \E c \in Conns : AcceptClient(l, c)
  \/ \E c \in Conns : TcpStep(c) \/ PartyLeaves(c)

Spec == Init /\ [][Next]_vars

\* Goroutines are scheduled, a lost connection is noticed, a reverse
\* tunnel asks again, and a listen that is tried again and again while the port
\* is free succeeds.  Nobody has to connect, to cancel or to leave.
Fairness ==
  /\ \A k \in Sessions : WF_vars(RequestStep(k))
  /\ SF_vars(\E k \in Sessions : ListenOk(k))
  /\ SF_vars(\E k \in Sessions, p \in Ports : AskForward(k, p))
  /\ WF_vars(\E k \in Sessions : ServerNotices(k))
  /\ WF_vars(\E l \in Listeners : CheckStep(l))
  /\ WF_vars(\E c \in Conns : TcpStep(c))

FairSpec == Spec /\ Fairness

------------------------------------------------------------------------------
(* Safety *)

\* Client and server agree on the forwards: whenever no request is under way
\* on a connection that is up, the ports its client holds are those on which
\* the server listens for it, and r.forwards leads a cancel to the listener
\* that is open, however often the port was cancelled and asked for before.
ViewsAgree ==
  \A k \in Sessions : conn[k] = "up" /\ hpc[k] = "range" /\ req[k] = None =>
    /\ granted[k] = {Port(l) : l \in {m \in Listeners : Owner(m) = k /\ lst[m] = "open"}}
    /\ \A p \in granted[k] : forwards[k][p] # None /\ lst[forwards[k][p]] = "open"

\* No listener is left to itself: one that is open is in the hands of
\* tcpipForwardHandler or has a checkAlive that will close it.
Watched ==
  \A l \in Listeners :
    lst[l] = "open" =>
      \/ chk[l] = "ticking"
      \/ opening[Owner(l)] = l /\ hpc[Owner(l)] \in {"reply", "spawn"}

(* Liveness *)

Gone(k) == conn[k] \in {"lost", "down"}

\* When a connection is lost its ports are free again in the end, also the
\* ones it was asking for at that moment.  (A connection that is lost stays
\* lost, and there are finitely many: again and again none of them holds one.)
PortsReleased == []<>(\A l \in Listeners : Gone(Owner(l)) => lst[l] # "open")

\* No tcp connection outlives the ssh connection it goes through.
NoOrphans == []<>(\A c \in Conns : via[c] # None /\ Gone(via[c]) => cst[c] = "closed")

\* A reverse tunnel that reconnects gets its port back, although the listener
\* of its lost connection still holds it for a while: as long as a client is
\* connected, one that is connected holds the port in the end.
ForwardRecovers ==
  []<>(\A p \in Ports :
         \/ disableTunnelling
         \/ \A k \in Sessions : conn[k] # "up"
         \/ \E k \in Sessions : conn[k] = "up" /\ p \in granted[k])
==============================================================================

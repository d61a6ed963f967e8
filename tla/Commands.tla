------------------------------- MODULE Commands ------------------------------
(***************************************************************************)
(* The commands that keep running: cmd/run.go, which starts what a config  *)
(* file names (an ssh client, sshd, tunnels, a socks and a dns proxy, the  *)
(* last three over the shared ssh client or one of their own), and         *)
(* dns-proxy, socks-proxy, tun and revshell, which start one thing over    *)
(* the client that GetSshClientConf describes; with the proxies themselves *)
(* (pkg/sshc/dns_proxy.go, socks_proxy.go) and one user of each, who tries *)
(* again until it is served.  Every ssh client is a Link; what the tunnels *)
(* and sshd do once they run is in Tunnel, SshServer and ServerLogin.      *)
(***************************************************************************)
EXTENDS ClientConf, FiniteSets

CONSTANTS NTunnels,   \* bound: tunnels in the config file
          MaxDrops    \* bound: how often ssh clients are lost

ASSUME CommandsAssumption == NTunnels \in Nat /\ MaxDrops \in Nat

Tunnels == {<<"tunnel", i>> : i \in 1 .. NTunnels}
Sshd == <<"sshd", 0>>
Socks == <<"socks", 0>>
Dns == <<"dns", 0>>
Shared == <<"shared", 0>>
Proxies == {Socks, Dns}
Users == Tunnels \cup Proxies      \* what runs over an ssh client
Parts == Users \cup {Sshd}
Conns == Users \cup {Shared}       \* Shared, and the ones of their own
NoConn == <<"none", 0>>

VARIABLES
  conf,           \* conf of run: for each part "none", "own" or "shared"; client, sshd
  pc,             \* where Run is
  tunnelAt,       \* the tunnel the loop is at
  somethingRun,
  target,         \* whose SshClientConf each ssh client was made with
  part,           \* each part: "off", "waiting" in ReadyWait, or "serving"
  over,           \* the ssh client it was given
  gate, client,   \* of each ssh client, as in Link; gate is "off" before Start
  req,            \* the request of the user of each proxy
  halted,         \* "no", or why the process ended
  drops

runVars == <<conf, pc, tunnelAt, somethingRun, target>>
linkVars == <<gate, client, drops>>
vars == <<clientConfVars, runVars, part, over, linkVars, req, halted>>

Kinds == {"none", "own", "shared"}

\* A list of tunnels is a prefix of Tunnels.
ListOfTunnels(u) ==
  \A i \in 2 .. NTunnels : u[<<"tunnel", i>>] # "none" => u[<<"tunnel", i - 1>>] # "none"

TypeOK ==
  /\ ClientConfTypeOK
  /\ conf \in [client : BOOLEAN, sshd : BOOLEAN, use : [Users -> Kinds]]
  /\ pc \in {"resolve", "client", "sshd", "tunnels", "socks", "dns", "end", "wait"}
  /\ tunnelAt \in 1 .. NTunnels + 1 /\ somethingRun \in BOOLEAN
  /\ target \in [Conns -> Conns \cup {NoConn}]
  /\ part \in [Parts -> {"off", "waiting", "serving"}]
  /\ over \in [Users -> Conns \cup {NoConn}]
  /\ gate \in [Conns -> {"off", "shut", "open"}]
  /\ client \in [Conns -> {"nil", "open", "closed"}]
  /\ req \in [Proxies -> {"idle", "asked", "dialled", "lost", "mangled", "served"}]
  /\ halted \in {"no", "no client", "listen", "panic", "nothing", "interrupt"}
  /\ drops \in 0 .. MaxDrops

\* What the commands other than run start: one thing over the shared client,
\* for revshell beside an sshd, which it starts first.
DirectConfs ==
  {[client |-> TRUE, sshd |-> s, use |-> [v \in Users |-> IF v = u THEN "shared" ELSE "none"]] :
     s \in BOOLEAN, u \in {Socks, Dns} \cup {t \in Tunnels : t[2] = 1}}

Init ==
  /\ \/ /\ ClientConfUnused
        /\ pc = "client"
        /\ conf \in [client : BOOLEAN, sshd : BOOLEAN, use : [Users -> Kinds]]
        /\ ListOfTunnels(conf.use)
     \/ /\ ClientConfInit
        /\ pc = "resolve"
        /\ conf \in {d \in DirectConfs : d.sshd => d.use[Socks] = "none" /\ d.use[Dns] = "none"}
  /\ tunnelAt = 1 /\ somethingRun = FALSE
  /\ target = [c \in Conns |-> NoConn]
  /\ part = [p \in Parts |-> IF p = Sshd /\ pc = "resolve" /\ conf.sshd THEN "waiting" ELSE "off"]
  /\ over = [u \in Users |-> NoConn]
  /\ gate = [c \in Conns |-> "off"]
  /\ client = [c \in Conns |-> "nil"]
  /\ req = [p \in Proxies |-> "idle"]
  /\ halted = "no"
  /\ drops = 0

------------------------------------------------------------------------------
(* The main goroutine *)

Exit(why) ==
  /\ halted' = why
  /\ UNCHANGED <<runVars, part, over, linkVars, req>>

\* NewSshConnection with the SshClientConf of t, and go Start().
Connect(c, t) ==
  /\ target' = [target EXCEPT ![c] = t]
  /\ gate' = [gate EXCEPT ![c] = "shut"]

\* A part begins in ReadyWait of its ssh client.
Begin(u, c) ==
  /\ part' = [part EXCEPT ![u] = "waiting"]
  /\ over' = [over EXCEPT ![u] = c]

\* The command resolves its server, connects and starts its part.
Resolve ==
  /\ pc = "resolve"
  /\ ClientConfNext
  /\ UNCHANGED <<runVars, part, over, linkVars, req, halted>>

Direct ==
  /\ pc = "resolve" /\ rpc = "done"
  /\ Connect(Shared, Shared)
  /\ LET u == CHOOSE u \in Users : conf.use[u] = "shared" IN Begin(u, Shared)
  /\ pc' = "wait"
  /\ UNCHANGED <<conf, tunnelAt, somethingRun, clientConfVars, client, drops, req, halted>>

\* if conf.SshClient != nil
RunClient ==
  /\ pc = "client"
  /\ pc' = "sshd"
  /\ IF conf.client
     THEN Connect(Shared, Shared) /\ somethingRun' = TRUE
     ELSE UNCHANGED <<target, gate, somethingRun>>
  /\ UNCHANGED <<clientConfVars, conf, tunnelAt, part, over, client, drops, req, halted>>

\* if conf.SshD != nil
RunSshd ==
  /\ pc = "sshd"
  /\ pc' = "tunnels"
  /\ part' = [part EXCEPT ![Sshd] = IF conf.sshd THEN "waiting" ELSE "off"]
  /\ somethingRun' = (somethingRun \/ conf.sshd)
  /\ UNCHANGED <<clientConfVars, conf, tunnelAt, target, over, linkVars, req, halted>>

\* failIfNoClient calls log.Fatalf.
NoClient(u) == conf.use[u] = "shared" /\ ~conf.client

\* The part is run over its own ssh client, which is made for it, or Shared.
StartUser(u, t) ==
  \/ /\ conf.use[u] = "own"
     /\ Connect(u, t) /\ Begin(u, u)
     /\ UNCHANGED <<client, drops, req, halted>>
  \/ /\ conf.use[u] = "shared"
     /\ Begin(u, Shared)
     /\ UNCHANGED <<target, linkVars, req, halted>>

\* One round of the loop over conf.Tunnel, which leaves somethingRun alone.
RunTunnel ==
  /\ pc = "tunnels" /\ tunnelAt <= NTunnels
  /\ LET u == <<"tunnel", tunnelAt>>
     IN \/ /\ NoClient(u) /\ Exit("no client")
        \/ /\ conf.use[u] # "none" /\ ~NoClient(u)
           /\ StartUser(u, u)
           /\ tunnelAt' = tunnelAt + 1
           /\ UNCHANGED <<pc, conf, somethingRun>>
        \/ /\ conf.use[u] = "none"
           /\ tunnelAt' = NTunnels + 1
           /\ UNCHANGED <<pc, conf, somethingRun, target, part, over, linkVars, req, halted>>
  /\ UNCHANGED clientConfVars

TunnelsEnd ==
  /\ pc = "tunnels" /\ tunnelAt > NTunnels
  /\ pc' = "socks"
  /\ UNCHANGED <<clientConfVars, conf, tunnelAt, somethingRun, target, part, over, linkVars, req,
                 halted>>

NotConfigured(u, at, next) ==
  /\ pc = at /\ conf.use[u] = "none"
  /\ pc' = next
  /\ UNCHANGED <<clientConfVars, conf, tunnelAt, somethingRun, target, part, over, linkVars, req,
                 halted>>

\* Mutated: the proxy's own ssh client is made and not started.
RunSocksUnstarted ==
  /\ pc = "socks" /\ conf.use[Socks] # "none"
  /\ \/ /\ NoClient(Socks) /\ Exit("no client")
     \/ /\ ~NoClient(Socks)
        /\ over' = [over EXCEPT ![Socks] = IF conf.use[Socks] = "own" THEN Socks ELSE Shared]
        /\ part' = [part EXCEPT ![Socks] = "waiting"]
        /\ pc' = "dns" /\ somethingRun' = TRUE
        /\ UNCHANGED <<conf, tunnelAt, target, linkVars, req, halted>>
  /\ UNCHANGED clientConfVars

\* if conf.SocksProxy != nil
RunSocks ==
  /\ pc = "socks" /\ conf.use[Socks] # "none"
  /\ \/ /\ NoClient(Socks) /\ Exit("no client")
     \/ /\ ~NoClient(Socks)
        /\ StartUser(Socks, Socks)
        /\ pc' = "dns" /\ somethingRun' = TRUE
        /\ UNCHANGED <<conf, tunnelAt>>
  /\ UNCHANGED clientConfVars

\* if conf.DnsProxy != nil: with a client of its own it is given the
\* SshClientConf of the socks proxy, and there is a panic if that has none.
RunDns ==
  /\ pc = "dns" /\ conf.use[Dns] # "none"
  /\ \/ /\ NoClient(Dns) /\ Exit("no client")
     \/ /\ conf.use[Dns] = "own" /\ conf.use[Socks] # "own" /\ Exit("panic")
     \/ /\ ~NoClient(Dns) /\ (conf.use[Dns] = "own" => conf.use[Socks] = "own")
        /\ StartUser(Dns, Socks)
        /\ pc' = "end" /\ somethingRun' = TRUE
        /\ UNCHANGED <<conf, tunnelAt>>
  /\ UNCHANGED clientConfVars

\* if somethingRun
RunEnds ==
  /\ pc = "end"
  /\ IF somethingRun THEN pc' = "wait" /\ UNCHANGED halted
                     ELSE halted' = "nothing" /\ UNCHANGED pc
  /\ UNCHANGED <<clientConfVars, conf, tunnelAt, somethingRun, target, part, over, linkVars, req>>

Interrupt ==
  /\ pc = "wait"
  /\ Exit("interrupt")
  /\ UNCHANGED clientConfVars

------------------------------------------------------------------------------
(* The parts *)

\* ReadyWait returns; sshd has nothing to wait for.
Ready(p) == p # Sshd => gate[over[p]] = "open"

\* The part listens.
Serve(p) ==
  /\ part[p] = "waiting"
  /\ Ready(p)
  /\ part' = [part EXCEPT ![p] = "serving"]
  /\ UNCHANGED <<clientConfVars, runVars, over, linkVars, req, halted>>

\* The listener of sshd or of a proxy cannot be opened: log.Fatal.  A tunnel
\* tries again.
ServeFails(p) ==
  /\ part[p] = "waiting"
  /\ Ready(p) /\ p \notin Tunnels
  /\ Exit("listen")
  /\ UNCHANGED clientConfVars

------------------------------------------------------------------------------
(* The requests: handleDNSQuery and resolveDomain, and Dial of the socks proxy *)

Request(p, from, to) ==
  /\ req[p] \in from
  /\ req' = [req EXCEPT ![p] = to]
  /\ UNCHANGED <<clientConfVars, runVars, part, over, linkVars, halted>>

\* The user asks, again if the answer did not come or made no sense.
Ask(p) == part[p] = "serving" /\ Request(p, {"idle", "mangled"}, "asked")

\* Mutated: the proxy keeps the client that it found at its start.
DialKept(p) ==
  /\ Request(p, {"asked"}, IF p = Socks THEN "served" ELSE "dialled")
  /\ client[over[p]] = "open" /\ drops = 0

\* p.sshConn.Client.Dial: a socks user is connected then.
Dial(p) ==
  /\ Request(p, {"asked"}, IF p = Socks THEN "served" ELSE "dialled")
  /\ client[over[p]] = "open"

\* It fails, or the far end refuses: a socks user is told, a dns user is not.
DialFails(p) == Request(p, {"asked"}, "idle")

\* resolveDomain reads the length and the response; w.WriteMsg(reply)
ReadAll(p) ==
  /\ Request(p, {"dialled"}, "served")
  /\ client[over[p]] = "open"

\* A Read that returns a part of it leaves the rest zero, which Unpack may
\* take for a message.
ReadPart(p) ==
  /\ Request(p, {"dialled"}, "mangled")
  /\ client[over[p]] = "open"

\* The write or a read fails, always once the ssh client is gone, or Unpack:
\* no reply.
NoReply(p) == Request(p, {"dialled", "lost"}, "idle")

------------------------------------------------------------------------------
(* The ssh clients, as Link has them *)

LinkReplaces(c) ==
  /\ gate[c] = "shut" /\ client[c] # "open"
  /\ client' = [client EXCEPT ![c] = "open"]
  /\ UNCHANGED <<clientConfVars, runVars, part, over, gate, drops, req, halted>>

LinkAnnounces(c) ==
  /\ gate[c] = "shut" /\ client[c] # "nil"
  /\ gate' = [gate EXCEPT ![c] = "open"]
  /\ UNCHANGED <<clientConfVars, runVars, part, over, client, drops, req, halted>>

LinkRetracts(c) ==
  /\ gate[c] = "open" /\ client[c] = "closed"
  /\ gate' = [gate EXCEPT ![c] = "shut"]
  /\ UNCHANGED <<clientConfVars, runVars, part, over, client, drops, req, halted>>

LinkDrops(c) ==
  /\ client[c] = "open"
  /\ drops < MaxDrops /\ drops' = drops + 1
  /\ client' = [client EXCEPT ![c] = "closed"]
  /\ req' = [p \in Proxies |-> IF over[p] = c /\ req[p] = "dialled" THEN "lost" ELSE req[p]]
  /\ UNCHANGED <<clientConfVars, runVars, part, over, gate, halted>>

------------------------------------------------------------------------------
Main ==
  \/ Resolve \/ Direct \/ RunClient \/ RunSshd \/ RunTunnel \/ TunnelsEnd
  \/ NotConfigured(Socks, "socks", "dns") \/ RunSocks
  \/ NotConfigured(Dns, "dns", "end") \/ RunDns \/ RunEnds

Next ==
  /\ halted = "no"
  /\ \/ Main \/ Interrupt
     \/ \E p \in Parts : Serve(p) \/ ServeFails(p)
     \/ \E p \in Proxies :
          Ask(p) \/ Dial(p) \/ DialFails(p) \/ ReadAll(p) \/ ReadPart(p) \/ NoReply(p)
     \/ \E c \in Conns : LinkReplaces(c) \/ LinkAnnounces(c) \/ LinkRetracts(c) \/ LinkDrops(c)

Spec == Init /\ [][Next]_vars

Alive(A) == halted = "no" /\ A

\* Goroutines are scheduled, a lost ssh client is replaced, a user tries
\* again, and its far end is not for ever refusing or answering in pieces.
Fairness ==
  /\ WF_vars(Alive(Main))
  /\ WF_vars(Alive(\E p \in Parts : Serve(p)))
  /\ SF_vars(Alive(\E c \in Conns : LinkReplaces(c)))
  /\ WF_vars(Alive(\E c \in Conns : LinkAnnounces(c) \/ LinkRetracts(c)))
  /\ WF_vars(Alive(\E p \in Proxies : Ask(p) \/ NoReply(p)))
  /\ SF_vars(Alive(\E p \in Proxies : Dial(p)))
  /\ SF_vars(Alive(\E p \in Proxies : ReadAll(p)))

FairSpec == Spec /\ Fairness

------------------------------------------------------------------------------
\* GetSshClientConf returns whenever no ProxyJump leads back to a host of the
\* chain, unless the sshd that revshell started before it ends the process.
ResolutionEnds == []<>(Acyclic => rpc \in {"off", "done"} \/ halted # "no")

Wanted == {u \in Users : conf.use[u] # "none"} \cup (IF conf.sshd THEN {Sshd} ELSE {})

\* The configurations with which run gives up by itself: a part that needs the
\* missing sshclient section, nothing but tunnels with clients of their own,
\* and a dns proxy with a client of its own beside no socks proxy that has one.
GivesUp ==
  \/ halted = "no client" /\ \E u \in Users : NoClient(u)
  \/ halted = "nothing" /\ ~conf.client /\ Wanted \subseteq Tunnels
  \/ halted = "panic" /\ conf.use[Dns] = "own" /\ conf.use[Socks] # "own"

\* Everything that the config file or the command names is serving in the end,
\* over a shared ssh client or its own, unless a listener cannot be opened,
\* the user interrupts or run gives up for a reason above: no part waits for an
\* ssh client that nobody started.
PartsServe ==
  []<>(Acyclic => \/ \A p \in Wanted : part[p] = "serving"
                  \/ halted \in {"listen", "interrupt"}
                  \/ GivesUp)

\* A user of a proxy that tries again is served in the end, although the ssh
\* client is lost and replaced under the proxy.
RequestsServed ==
  []<>(\A p \in Proxies : part[p] = "serving" => req[p] = "served" \/ halted # "no")

\* A part that has an sshclient section of its own runs over an ssh client made
\* from that section.
DedicatedClient ==
  \A u \in Users : part[u] # "off" /\ conf.use[u] = "own" => target[over[u]] = u
==============================================================================

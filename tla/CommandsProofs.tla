--------------------------- MODULE CommandsProofs ----------------------------
(***************************************************************************)
(* The safety of ClientConf and Commands: for every ~/.ssh/config and      *)
(* every configuration, whenever ssh clients are lost.                     *)
(***************************************************************************)
EXTENDS Commands, SequenceTheorems, NaturalsInduction, WellFoundedInduction, TLAPS

------------------------------------------------------------------------------
(* The chain that ~/.ssh/config describes *)

\* A set of natural numbers that is not empty has a least element.
LEMMA LeastNumber ==
  ASSUME NEW T, T \subseteq Nat, T # {}
  PROVE  \E x \in T : \A y \in T : x <= y
<1>1. PICK x \in T : \A y \in T : <<y, x>> \notin OpToRel(<, Nat)
  BY NatLessThanWellFounded, WFMin
<1>2. \A y \in T : ~(y < x)
  BY <1>1 DEF OpToRel
<1>3. QED
  BY <1>2

\* f is a chain of m hops.
IsChain(f, m) == f = [n \in 1 .. m |-> IF n = 1 THEN FirstJump ELSE After(f[n - 1])]

\* A chain can be followed for one more hop, so there is one of every length.
LEMMA ChainGrows ==
  ASSUME NEW m \in Nat, NEW f, IsChain(f, m)
  PROVE  \E g : IsChain(g, m + 1)
<1> DEFINE g == [n \in 1 .. m + 1 |-> IF n = 1 THEN FirstJump ELSE After(f[n - 1])]
<1>1. ASSUME NEW n \in 1 .. m PROVE g[n] = f[n]
  BY <1>1 DEF IsChain
<1>2. ASSUME NEW n \in 1 .. m + 1, n # 1 PROVE g[n] = After(g[n - 1])
  <2>1. n - 1 \in 1 .. m
    BY <1>2
  <2>2. g[n - 1] = f[n - 1]
    BY <1>1, <2>1
  <2>3. QED
    BY <1>2, <2>2
<1>3. \A n \in 1 .. m + 1 : g[n] = IF n = 1 THEN FirstJump ELSE After(g[n - 1])
  BY <1>2
<1>4. IsChain(g, m + 1)
  BY <1>3 DEF IsChain
<1>5. QED
  BY <1>4

LEMMA ChainExists == \A m \in Nat : \E f : IsChain(f, m)
<1> DEFINE T == {m \in Nat : ~\E f : IsChain(f, m)}
<1>1. SUFFICES ASSUME T # {} PROVE FALSE
  OBVIOUS
<1>2. PICK x \in T : \A y \in T : x <= y
  BY <1>1, LeastNumber
<1>3. x # 0
  <2>1. IsChain([n \in 1 .. 0 |-> 0], 0)
    BY DEF IsChain
  <2>2. QED
    BY <2>1, <1>2
<1>4. x - 1 \in Nat /\ x - 1 \notin T /\ (x - 1) + 1 = x
  BY <1>2, <1>3
<1>5. PICK f : IsChain(f, x - 1)
  BY <1>4
<1>6. \E g : IsChain(g, x)
  BY <1>4, <1>5, ChainGrows
<1>7. QED
  BY <1>2, <1>6

\* What the recursive definition of Chain says of it.
LEMMA ChainIs ==
  /\ Chain[1] = FirstJump
  /\ \A n \in 1 .. MaxHops + 1 : Chain[n + 1] = After(Chain[n])
<1>1. MaxHops + 2 \in Nat
  BY ClientConfAssumption
<1>2. \E f : IsChain(f, MaxHops + 2)
  BY <1>1, ChainExists
<1>3. IsChain(Chain, MaxHops + 2)
  BY <1>2 DEF Chain, IsChain
<1>4. \A n \in 1 .. MaxHops + 2 : Chain[n] = IF n = 1 THEN FirstJump ELSE After(Chain[n - 1])
  BY <1>3 DEF IsChain
<1>5. \A n \in 1 .. MaxHops + 1 : n + 1 \in 1 .. MaxHops + 2 /\ n + 1 # 1 /\ (n + 1) - 1 = n
  BY ClientConfAssumption
<1>6. 1 \in 1 .. MaxHops + 2
  BY ClientConfAssumption
<1>7. QED
  BY <1>4, <1>5, <1>6

\* It is the same as long as the flags and the file are.
LEMMA ChainStays == UNCHANGED givenVars => Chain' = Chain
<1> SUFFICES ASSUME UNCHANGED givenVars PROVE Chain' = Chain
  OBVIOUS
<1>1. proxyJump' = proxyJump /\ serverURI' = serverURI /\ jumpFlag' = jumpFlag
  BY DEF givenVars
<1>2. QED
  BY <1>1 DEF Chain, FirstJump, After, Configured

------------------------------------------------------------------------------
(* GetSshClientConf *)

\* The hops found so far are those of the chain.
Follows ==
  \A n \in 1 .. Len(JumpHosts) :
    /\ JumpHosts[n].uri = Chain[n]
    /\ Configured(Chain[n]) => JumpHosts[n].identity = Chain[n]

\* The inductive invariant: jumpHost is the next name of the chain, and the
\* loop was left at a name without a Host block.
ConfInv ==
  /\ ClientConfTypeOK
  /\ rpc = "host" => JumpHosts = <<>> /\ jumpHost = jumpFlag /\ identity = Own
  /\ rpc \in {"jump", "last"} =>
       Follows /\ Len(JumpHosts) <= MaxHops /\ jumpHost = Chain[Len(JumpHosts) + 1]
  /\ rpc = "last" => ~Configured(jumpHost)
  /\ rpc = "done" => Follows /\ Chain[Len(JumpHosts) + 1] = Nobody
  /\ rpc \in {"jump", "last", "done"} /\ identityFlag => Identity = Own

\* It holds where a command begins, whether it has the function called or not.
LEMMA ConfInitInv == ClientConfInit \/ ClientConfUnused => ConfInv
<1> SUFFICES ASSUME ClientConfInit \/ ClientConfUnused PROVE ConfInv
  OBVIOUS
<1>1. identityFlag \in BOOLEAN
  BY Zenon DEF ClientConfInit, ClientConfUnused
<1>2. proxyJump \in [Hosts -> Names]
  BY DEF ClientConfInit, ClientConfUnused, Names
<1>3. JumpHosts \in Seq([uri : Hosts \cup {Outside}, identity : Hosts \cup {Own}])
  BY EmptySeq DEF ClientConfInit, ClientConfUnused
<1>4. /\ serverURI \in Hosts \cup {Outside} /\ jumpFlag \in Names
      /\ rpc \in {"off", "host", "jump", "last", "done"}
      /\ jumpHost \in Names /\ identity \in Hosts \cup {Own} /\ Identity \in Hosts \cup {Own}
  BY DEF ClientConfInit, ClientConfUnused, Names
<1>5. ClientConfTypeOK
  BY <1>1, <1>2, <1>3, <1>4 DEF ClientConfTypeOK
<1>6. QED
  BY <1>5 DEF ClientConfInit, ClientConfUnused, ConfInv

Hop == [uri : Hosts \cup {Outside}, identity : Hosts \cup {Own}]

\* One more hop that is the next of the chain.
LEMMA OneMoreHop ==
  ASSUME ConfInv, Follows, UNCHANGED givenVars, NEW hop \in Hop,
         JumpHosts' = Append(JumpHosts, hop),
         hop.uri = Chain[Len(JumpHosts) + 1],
         Configured(hop.uri) => hop.identity = hop.uri
  PROVE  JumpHosts' \in Seq(Hop) /\ Len(JumpHosts') = Len(JumpHosts) + 1 /\ Follows'
<1>1. JumpHosts \in Seq(Hop) /\ Len(JumpHosts) \in Nat
  BY LenProperties DEF ConfInv, ClientConfTypeOK, Hop
<1>2. /\ JumpHosts' \in Seq(Hop) /\ Len(JumpHosts') = Len(JumpHosts) + 1
      /\ \A n \in 1 .. Len(JumpHosts) : JumpHosts'[n] = JumpHosts[n]
      /\ JumpHosts'[Len(JumpHosts) + 1] = hop
  BY <1>1, AppendProperties
<1>3. Chain' = Chain
  BY ChainStays
<1>4. ASSUME NEW n \in 1 .. Len(JumpHosts')
      PROVE  /\ JumpHosts'[n].uri = Chain[n]
             /\ Configured(Chain[n]) => JumpHosts'[n].identity = Chain[n]
  <2>1. n \in 1 .. Len(JumpHosts) \/ n = Len(JumpHosts) + 1
    BY <1>1, <1>2
  <2>2. CASE n \in 1 .. Len(JumpHosts)
    BY <1>2, <2>2 DEF Follows
  <2>3. CASE n = Len(JumpHosts) + 1
    BY <1>2, <2>3
  <2>4. QED
    BY <2>1, <2>2, <2>3
<1>5. Follows'
  BY <1>3, <1>4 DEF Follows, Configured
<1>6. QED
  BY <1>2, <1>5

LEMMA HostConfInv == ASSUME ConfInv, HostConf PROVE ConfInv'
<1>1. UNCHANGED givenVars /\ JumpHosts' = JumpHosts /\ rpc = "host"
  BY DEF HostConf
<1>2. /\ JumpHosts = <<>> /\ jumpHost = jumpFlag /\ identity = Own
      /\ proxyJump \in [Hosts -> Names] /\ serverURI \in Hosts \cup {Outside}
      /\ jumpFlag \in Names /\ identityFlag \in BOOLEAN
  BY <1>1 DEF ConfInv, ClientConfTypeOK
<1>3. jumpHost' = FirstJump /\ jumpHost' \in Names
  BY <1>1, <1>2 DEF HostConf, FirstJump, Configured, Names
<1>4. /\ identity' \in Hosts \cup {Own} /\ Identity' = identity'
      /\ identityFlag => identity' = Own
  BY <1>2 DEF HostConf, Configured
<1>5. /\ rpc' \in {"done", "jump"} /\ (rpc' = "done" => jumpHost' = Nobody)
  BY DEF HostConf
<1>6. Chain[1] = FirstJump /\ Chain' = Chain
  BY <1>1, ChainIs, ChainStays
<1>7. Len(JumpHosts') = 0 /\ JumpHosts' \in Seq(Hop)
  BY <1>1, <1>2
<1>8. Follows'
  BY <1>7 DEF Follows
<1>9. UNCHANGED <<proxyJump, serverURI, jumpFlag, identityFlag>>
  BY <1>1 DEF givenVars
<1>10. ClientConfTypeOK'
  BY <1>2, <1>3, <1>4, <1>5, <1>7, <1>9 DEF ClientConfTypeOK, Names, Hop
<1>11. jumpHost' = Chain'[Len(JumpHosts') + 1] /\ Len(JumpHosts') <= MaxHops
  BY <1>3, <1>6, <1>7, ClientConfAssumption
<1>12. QED
  BY <1>4, <1>5, <1>8, <1>9, <1>10, <1>11 DEF ConfInv

\* The loop.
LEMMA NextJumpInv == ASSUME ConfInv, NextJump PROVE ConfInv'
<1>1. /\ UNCHANGED givenVars /\ UNCHANGED <<rpc, Identity>> /\ rpc = "jump"
      /\ jumpHost \in Hosts /\ Len(JumpHosts) < MaxHops
      /\ identity' = jumpHost /\ jumpHost' = proxyJump[jumpHost]
      /\ JumpHosts' = Append(JumpHosts, [uri |-> jumpHost, identity |-> jumpHost])
  BY DEF NextJump, Configured
<1>2. /\ Follows /\ jumpHost = Chain[Len(JumpHosts) + 1]
      /\ identityFlag => Identity = Own
      /\ ClientConfTypeOK
  BY <1>1 DEF ConfInv
<1>3. Len(JumpHosts) \in Nat
  BY <1>2, LenProperties DEF ClientConfTypeOK
<1>4. JumpHosts' \in Seq(Hop) /\ Len(JumpHosts') = Len(JumpHosts) + 1 /\ Follows'
  <2> DEFINE hop == [uri |-> jumpHost, identity |-> jumpHost]
  <2>1. hop \in Hop /\ hop.uri = jumpHost /\ hop.identity = jumpHost
    BY <1>1 DEF Hop
  <2> HIDE DEF hop
  <2>2. JumpHosts' = Append(JumpHosts, hop)
    BY <1>1 DEF hop
  <2>3. QED
    BY <1>1, <1>2, <2>1, <2>2, OneMoreHop
<1>5. Chain[Len(JumpHosts) + 2] = After(jumpHost)
  <2>1. Len(JumpHosts) + 1 \in 1 .. MaxHops + 1 /\ (Len(JumpHosts) + 1) + 1 = Len(JumpHosts) + 2
    BY <1>1, <1>3, ClientConfAssumption
  <2>2. QED
    BY <1>2, <2>1, ChainIs
<1>6. Chain' = Chain /\ After(jumpHost) = proxyJump[jumpHost]
  BY <1>1, ChainStays DEF After, Configured
<1>7. UNCHANGED <<proxyJump, serverURI, jumpFlag, identityFlag>>
  BY <1>1 DEF givenVars
<1>8. ClientConfTypeOK'
  BY <1>1, <1>2, <1>4, <1>7 DEF ClientConfTypeOK, Hop
<1>9. jumpHost' = Chain'[Len(JumpHosts') + 1] /\ Len(JumpHosts') <= MaxHops
  <2>1. Len(JumpHosts') + 1 = Len(JumpHosts) + 2 /\ Len(JumpHosts') <= MaxHops
    BY <1>1, <1>3, <1>4, ClientConfAssumption
  <2>2. QED
    BY <1>1, <1>5, <1>6, <2>1
<1>10. QED
  BY <1>1, <1>2, <1>4, <1>7, <1>8, <1>9 DEF ConfInv

LEMMA JumpsEndInv == ASSUME ConfInv, JumpsEnd PROVE ConfInv'
<1>1. /\ UNCHANGED givenVars /\ UNCHANGED <<jumpHost, identity, Identity, JumpHosts>>
      /\ rpc = "jump" /\ rpc' = "last" /\ ~Configured(jumpHost)
  BY DEF JumpsEnd
<1>2. Chain' = Chain /\ UNCHANGED <<proxyJump, serverURI, jumpFlag, identityFlag>>
  BY <1>1, ChainStays DEF givenVars
<1>3. ClientConfTypeOK'
  BY <1>1, <1>2 DEF ConfInv, ClientConfTypeOK
<1>4. Follows'
  BY <1>1, <1>2 DEF ConfInv, Follows, Configured
<1>5. QED
  BY <1>1, <1>2, <1>3, <1>4 DEF ConfInv, Configured

\* The jump host without a Host block: the chain has nothing after it.
LEMMA LastJumpInv == ASSUME ConfInv, LastJump PROVE ConfInv'
<1>1. /\ UNCHANGED givenVars /\ UNCHANGED <<jumpHost, identity, Identity>>
      /\ rpc = "last" /\ rpc' = "done"
      /\ JumpHosts' = IF jumpHost = Nobody THEN JumpHosts
                      ELSE Append(JumpHosts, [uri |-> jumpHost, identity |-> identity])
  BY DEF LastJump
<1>2. /\ Follows /\ jumpHost = Chain[Len(JumpHosts) + 1] /\ Len(JumpHosts) <= MaxHops
      /\ jumpHost \notin Hosts /\ (identityFlag => Identity = Own)
      /\ ClientConfTypeOK
  BY <1>1 DEF ConfInv, Configured
<1>3. Chain' = Chain /\ UNCHANGED <<proxyJump, serverURI, jumpFlag, identityFlag>>
  BY <1>1, ChainStays DEF givenVars
<1>4. JumpHosts \in Seq(Hop) /\ Len(JumpHosts) \in Nat
  BY <1>2, LenProperties DEF ClientConfTypeOK, Hop
<1>5. JumpHosts' \in Seq(Hop) /\ Follows' /\ Chain[Len(JumpHosts') + 1] = Nobody
  <2>1. CASE jumpHost = Nobody
    <3>1. JumpHosts' = JumpHosts
      BY <1>1, <2>1
    <3>2. QED
      BY <1>2, <1>3, <1>4, <2>1, <3>1 DEF Follows, Configured
  <2>2. CASE jumpHost # Nobody
    <3> DEFINE hop == [uri |-> jumpHost, identity |-> identity]
    <3>1. hop \in Hop /\ hop.uri = jumpHost /\ ~Configured(hop.uri)
      BY <1>2, <2>2 DEF Hop, ClientConfTypeOK, Names, Configured
    <3> HIDE DEF hop
    <3>2. JumpHosts' = Append(JumpHosts, hop)
      BY <1>1, <2>2 DEF hop
    <3>3. JumpHosts' \in Seq(Hop) /\ Len(JumpHosts') = Len(JumpHosts) + 1 /\ Follows'
      BY <1>1, <1>2, <3>1, <3>2, OneMoreHop
    <3>4. Len(JumpHosts) + 1 \in 1 .. MaxHops + 1
      BY <1>2, <1>4, ClientConfAssumption
    <3>5. Chain[Len(JumpHosts') + 1] = After(jumpHost)
      BY <1>2, <3>3, <3>4, ChainIs
    <3>6. QED
      BY <1>2, <3>3, <3>5 DEF After, Configured
  <2>3. QED
    BY <2>1, <2>2
<1>6. ClientConfTypeOK'
  BY <1>1, <1>2, <1>3, <1>5 DEF ClientConfTypeOK, Hop
<1>7. QED
  BY <1>1, <1>2, <1>3, <1>5, <1>6 DEF ConfInv

\* A step that has nothing to do with GetSshClientConf.
LEMMA ConfSame == ASSUME ConfInv, UNCHANGED clientConfVars PROVE ConfInv'
<1>1. /\ UNCHANGED givenVars
      /\ UNCHANGED <<proxyJump, serverURI, jumpFlag, identityFlag>>
      /\ UNCHANGED <<rpc, jumpHost, identity, Identity, JumpHosts>>
  BY DEF clientConfVars, givenVars, resolveVars
<1>2. Chain' = Chain
  BY <1>1, ChainStays
<1>3. ClientConfTypeOK' /\ (Follows' <=> Follows)
  BY <1>1, <1>2 DEF ConfInv, ClientConfTypeOK, Follows, Configured
<1>4. QED
  BY <1>1, <1>2, <1>3 DEF ConfInv, Configured

\* GetSshClientConf keeps its invariant.
LEMMA ConfStepInv == ASSUME ConfInv, ClientConfNext \/ UNCHANGED clientConfVars PROVE ConfInv'
  BY HostConfInv, NextJumpInv, JumpsEndInv, LastJumpInv, ConfSame DEF ClientConfNext

\* Whatever else a command does leaves the result of GetSshClientConf alone.
LEMMA StepIsConfStep == [Next]_vars => ClientConfNext \/ UNCHANGED clientConfVars
<1> SUFFICES ASSUME [Next]_vars PROVE ClientConfNext \/ UNCHANGED clientConfVars
  OBVIOUS
<1>1. CASE Main
  BY <1>1 DEF Main, Resolve, Direct, RunClient, RunSshd, RunTunnel, TunnelsEnd, NotConfigured,
              RunSocks, RunDns, RunEnds
<1>2. CASE Interrupt
  BY <1>2 DEF Interrupt
<1>3. ASSUME NEW p \in Parts, Serve(p) \/ ServeFails(p) PROVE UNCHANGED clientConfVars
  BY <1>3 DEF Serve, ServeFails
<1>4. ASSUME NEW p \in Proxies,
             Ask(p) \/ Dial(p) \/ DialFails(p) \/ ReadAll(p) \/ ReadPart(p) \/ NoReply(p)
      PROVE  UNCHANGED clientConfVars
  BY <1>4 DEF Ask, Dial, DialFails, ReadAll, ReadPart, NoReply, Request
<1>5. ASSUME NEW c \in Conns,
             LinkReplaces(c) \/ LinkAnnounces(c) \/ LinkRetracts(c) \/ LinkDrops(c)
      PROVE  UNCHANGED clientConfVars
  BY <1>5 DEF LinkReplaces, LinkAnnounces, LinkRetracts, LinkDrops
<1>6. CASE UNCHANGED vars
  BY <1>6 DEF vars
<1>7. QED
  BY <1>1, <1>2, <1>3, <1>4, <1>5, <1>6 DEF Next

\* Every reachable state satisfies the invariant of GetSshClientConf.
THEOREM ConfInvariance == Spec => []ConfInv
<1>1. Init => ConfInv
  BY ConfInitInv DEF Init
<1>2. ConfInv /\ [Next]_vars => ConfInv'
  BY StepIsConfStep, ConfStepInv
<1>3. QED
  BY <1>1, <1>2, PTL DEF Spec

\* For every ProxyJump relation on any set of hosts, every server and all
\* flags, the JumpHosts that GetSshClientConf returns are the chain that the
\* flags and ~/.ssh/config describe, whole and in order, each configured hop
\* with its own identity.
THEOREM HopsFollowConfigAlways == Spec => []HopsFollowConfig
<1>1. ConfInv => HopsFollowConfig
  BY DEF ConfInv, HopsFollowConfig, Follows
<1>2. QED
  BY <1>1, ConfInvariance, PTL

------------------------------------------------------------------------------
(* The parts and their ssh clients *)

\* A part that waits or serves was given an ssh client that has been started:
\* none waits in ReadyWait of a connection that nobody brings up.
StartedClient ==
  \A u \in Users : part[u] # "off" => over[u] \in Conns /\ gate[over[u]] # "off"

\* A request that a proxy has accepted is dialled over a Client that is not nil.
NoNilDial == \A p \in Proxies : req[p] # "idle" => client[over[p]] # "nil"

\* The inductive invariant.  The shared client is started before anything that
\* could run over it, the gate of a client opens over a Client that is there,
\* and what serves came through its gate; a proxy that has not begun serves
\* nobody.
RunInv ==
  /\ TypeOK
  /\ pc = "resolve" => \E u \in Users : conf.use[u] = "shared"
  /\ pc \notin {"resolve", "client"} /\ conf.client => gate[Shared] # "off"
  /\ StartedClient
  /\ \A c \in Conns : gate[c] = "open" => client[c] # "nil"
  /\ \A u \in Users : part[u] = "serving" => client[over[u]] # "nil"
  /\ pc \in {"resolve", "client", "sshd", "tunnels", "socks"} => part[Socks] = "off"
  /\ pc \in {"resolve", "client", "sshd", "tunnels", "socks", "dns"} => part[Dns] = "off"
  /\ \A p \in Proxies : req[p] # "idle" => part[p] = "serving"

\* Who is who among parts and ssh clients.
LEMMA WhoIsWho ==
  /\ Socks \in Users /\ Dns \in Users /\ Socks # Dns /\ Proxies = {Socks, Dns}
  /\ Shared \in Conns /\ Users \subseteq Conns
  /\ Sshd \in Parts /\ Users \subseteq Parts /\ Sshd \notin Users /\ Parts = Users \cup {Sshd}
  /\ \A i \in 1 .. NTunnels : <<"tunnel", i>> \in Users /\ <<"tunnel", i>> \notin Proxies
  BY DEF Socks, Dns, Shared, Sshd, Proxies, Tunnels, Users, Parts, Conns

\* It holds when the command begins.
LEMMA RunInit == Init => RunInv
<1> SUFFICES ASSUME Init PROVE RunInv
  OBVIOUS
<1>1. ClientConfTypeOK
  BY ConfInitInv DEF Init, ConfInv
<1>2. /\ conf \in [client : BOOLEAN, sshd : BOOLEAN, use : [Users -> Kinds]]
      /\ pc = "client" \/ (pc = "resolve" /\ \E u \in Users : conf.use[u] = "shared")
  <2>1. CASE pc = "client"
    BY <2>1 DEF Init
  <2>2. CASE pc = "resolve"
    <3>1. conf \in DirectConfs
      BY <2>2 DEF Init
    <3>2. PICK s \in BOOLEAN, u \in {Socks, Dns} \cup {t \in Tunnels : t[2] = 1} :
            conf = [client |-> TRUE, sshd |-> s,
                    use |-> [v \in Users |-> IF v = u THEN "shared" ELSE "none"]]
      BY <3>1 DEF DirectConfs
    <3>3. u \in Users
      BY <3>2 DEF Users, Proxies
    <3>4. /\ conf \in [client : BOOLEAN, sshd : BOOLEAN, use : [Users -> Kinds]]
          /\ conf.use[u] = "shared"
      BY <3>2, <3>3 DEF Kinds
    <3>5. QED
      BY <2>2, <3>3, <3>4
  <2>3. QED
    BY <2>1, <2>2 DEF Init
<1>3. part \in [Parts -> {"off", "waiting", "serving"}] /\ \A u \in Users : part[u] = "off"
  BY WhoIsWho DEF Init
<1>4. /\ gate \in [Conns -> {"off", "shut", "open"}] /\ \A c \in Conns : gate[c] = "off"
      /\ client \in [Conns -> {"nil", "open", "closed"}]
      /\ drops \in 0 .. MaxDrops
  BY CommandsAssumption DEF Init
<1>5. /\ req \in [Proxies -> {"idle", "asked", "dialled", "lost", "mangled", "served"}]
      /\ \A p \in Proxies : req[p] = "idle"
  BY DEF Init
<1>6. target \in [Conns -> Conns \cup {NoConn}] /\ over \in [Users -> Conns \cup {NoConn}]
  BY DEF Init
<1>7. tunnelAt \in 1 .. NTunnels + 1 /\ somethingRun = FALSE /\ halted = "no"
  BY CommandsAssumption DEF Init
<1>8. TypeOK
  BY <1>1, <1>2, <1>3, <1>4, <1>5, <1>6, <1>7 DEF TypeOK
<1>9. QED
  BY <1>2, <1>3, <1>4, <1>5, <1>8, WhoIsWho DEF RunInv, StartedClient

\* A step that ends the process, or only goes on.
LEMMA GoesOn ==
  ASSUME RunInv, ClientConfTypeOK', UNCHANGED <<conf, part, over, linkVars, req, target>>,
         halted' \in {"no", "no client", "listen", "panic", "nothing", "interrupt"},
         tunnelAt' \in 1 .. NTunnels + 1, somethingRun' \in BOOLEAN,
         \/ pc' = pc
         \/ pc = "tunnels" /\ pc' = "socks"
         \/ pc = "socks" /\ pc' = "dns"
         \/ pc = "dns" /\ pc' = "end"
         \/ pc = "end" /\ pc' = "wait"
  PROVE  RunInv'
<1>1. UNCHANGED <<conf, part, over, gate, client, drops, req, target>>
  BY DEF linkVars
<1>2. TypeOK'
  BY <1>1 DEF RunInv, TypeOK
<1>3. QED
  BY <1>1, <1>2 DEF RunInv, StartedClient

\* The shared client is started, by run or by the other commands.
LEMMA SharedStarts ==
  ASSUME RunInv, ClientConfTypeOK', RunClient \/ Direct
  PROVE  RunInv'
<1>1. CASE RunClient
  <2>1. /\ pc = "client" /\ pc' = "sshd"
        /\ UNCHANGED <<conf, tunnelAt, part, over, client, drops, req, halted>>
    BY <1>1 DEF RunClient
  <2>2. CASE conf.client
    <3>1. /\ target' = [target EXCEPT ![Shared] = Shared] /\ somethingRun' = TRUE
          /\ gate' = [gate EXCEPT ![Shared] = "shut"]
      BY <1>1, <2>2 DEF RunClient, Connect
    <3>2. TypeOK'
      BY <2>1, <3>1, WhoIsWho DEF RunInv, TypeOK
    <3>3. \A c \in Conns : gate'[c] = IF c = Shared THEN "shut" ELSE gate[c]
      BY <3>1 DEF RunInv, TypeOK
    <3>4. StartedClient'
      BY <2>1, <3>3 DEF RunInv, StartedClient
    <3>5. \A c \in Conns : gate'[c] = "open" => client'[c] # "nil"
      BY <2>1, <3>3 DEF RunInv
    <3>6. gate'[Shared] # "off"
      BY <3>3, WhoIsWho
    <3>7. QED
      BY <2>1, <3>2, <3>4, <3>5, <3>6 DEF RunInv
  <2>3. CASE ~conf.client
    <3>1. UNCHANGED <<target, gate, somethingRun>>
      BY <1>1, <2>3 DEF RunClient
    <3>2. TypeOK'
      BY <2>1, <3>1 DEF RunInv, TypeOK
    <3>3. QED
      BY <2>1, <2>3, <3>1, <3>2 DEF RunInv, StartedClient
  <2>4. QED
    BY <2>2, <2>3
<1>2. CASE Direct
  <2> DEFINE u == CHOOSE u \in Users : conf.use[u] = "shared"
  <2>1. u \in Users
    <3>1. \E v \in Users : conf.use[v] = "shared"
      BY <1>2 DEF Direct, RunInv
    <3>2. QED
      BY Zenon, <3>1
  <2>2. /\ pc = "resolve" /\ pc' = "wait"
        /\ part' = [part EXCEPT ![u] = "waiting"] /\ over' = [over EXCEPT ![u] = Shared]
        /\ target' = [target EXCEPT ![Shared] = Shared]
        /\ gate' = [gate EXCEPT ![Shared] = "shut"]
        /\ UNCHANGED <<conf, tunnelAt, somethingRun, client, drops, req, halted>>
    BY <1>2 DEF Direct, Connect, Begin
  <2> HIDE DEF u
  <2>3. TypeOK'
    BY <2>1, <2>2, WhoIsWho DEF RunInv, TypeOK
  <2>4. StartedClient'
    BY <2>1, <2>2, WhoIsWho DEF RunInv, TypeOK, StartedClient
  <2>5. \A p \in Proxies : req'[p] = "idle"
    BY <2>2, WhoIsWho DEF RunInv
  <2>6. \A v \in Users : part'[v] = "serving" => client'[over'[v]] # "nil"
    BY <2>1, <2>2, WhoIsWho DEF RunInv, TypeOK
  <2>7. \A c \in Conns : gate'[c] = IF c = Shared THEN "shut" ELSE gate[c]
    BY <2>2 DEF RunInv, TypeOK
  <2>8. gate'[Shared] # "off" /\ \A c \in Conns : gate'[c] = "open" => client'[c] # "nil"
    BY <2>2, <2>7, WhoIsWho DEF RunInv
  <2>9. QED
    BY <2>2, <2>3, <2>4, <2>5, <2>6, <2>8 DEF RunInv
<1>3. QED
  BY <1>1, <1>2

LEMMA RunSshdInv == ASSUME RunInv, ClientConfTypeOK', RunSshd PROVE RunInv'
<1>1. /\ pc = "sshd" /\ pc' = "tunnels"
      /\ part' = [part EXCEPT ![Sshd] = IF conf.sshd THEN "waiting" ELSE "off"]
      /\ somethingRun' \in BOOLEAN
      /\ UNCHANGED <<conf, tunnelAt, target, over, gate, client, drops, req, halted>>
  BY DEF RunSshd, linkVars, RunInv, TypeOK
<1>2. \A u \in Users : part'[u] = part[u]
  BY <1>1, WhoIsWho DEF RunInv, TypeOK
<1>3. TypeOK'
  BY <1>1, WhoIsWho DEF RunInv, TypeOK
<1>4. QED
  BY <1>1, <1>2, <1>3, WhoIsWho DEF RunInv, StartedClient

\* A part is begun, over a client of its own that is started with it or over
\* the shared one, which is there because failIfNoClient let it pass.
LEMMA UserStarts ==
  ASSUME RunInv, ClientConfTypeOK', NEW u \in Users, NEW t \in Conns, StartUser(u, t),
         ~NoClient(u), UNCHANGED conf,
         tunnelAt' \in 1 .. NTunnels + 1, somethingRun' \in BOOLEAN,
         \/ pc = "tunnels" /\ pc' = "tunnels" /\ u \notin Proxies
         \/ pc = "socks" /\ pc' = "dns" /\ u = Socks
         \/ pc = "dns" /\ pc' = "end" /\ u = Dns
  PROVE  RunInv'
<1>1. PICK c \in {u, Shared} :
        /\ part' = [part EXCEPT ![u] = "waiting"] /\ over' = [over EXCEPT ![u] = c]
        /\ \/ /\ c = u /\ target' = [target EXCEPT ![u] = t]
              /\ gate' = [gate EXCEPT ![u] = "shut"]
           \/ /\ c = Shared /\ conf.use[u] = "shared"
              /\ UNCHANGED <<target, gate>>
        /\ UNCHANGED <<client, drops, req, halted>>
  BY DEF StartUser, Begin, Connect, linkVars
<1>2. c \in Conns /\ u \in Conns /\ u \in Parts
  BY WhoIsWho
<1>3. TypeOK'
  <2>1. /\ part' \in [Parts -> {"off", "waiting", "serving"}]
        /\ over' \in [Users -> Conns \cup {NoConn}]
    BY <1>1, <1>2 DEF RunInv, TypeOK
  <2>2. target' \in [Conns -> Conns \cup {NoConn}] /\ gate' \in [Conns -> {"off", "shut", "open"}]
    <3>1. target \in [Conns -> Conns \cup {NoConn}] /\ gate \in [Conns -> {"off", "shut", "open"}]
      BY DEF RunInv, TypeOK
    <3>2. target' = target \/ target' = [target EXCEPT ![u] = t]
      BY <1>1
    <3>3. gate' = gate \/ gate' = [gate EXCEPT ![u] = "shut"]
      BY <1>1
    <3>4. QED
      BY <1>2, <3>1, <3>2, <3>3
  <2>3. UNCHANGED <<conf, client, drops, req, halted>>
    BY <1>1
  <2>4. pc' \in {"tunnels", "dns", "end"}
    OBVIOUS
  <2>5. QED
    BY ZenonT(40), <2>1, <2>2, <2>3, <2>4 DEF RunInv, TypeOK
<1>4. \A d \in Conns : gate'[d] = gate[d] \/ gate'[d] = "shut"
  BY <1>1, <1>2 DEF RunInv, TypeOK
<1>5. gate'[c] # "off"
  <2>1. CASE c = u /\ gate' = [gate EXCEPT ![u] = "shut"]
    BY <1>2, <2>1 DEF RunInv, TypeOK
  <2>2. CASE c = Shared /\ conf.use[u] = "shared" /\ gate' = gate
    <3>1. conf.client
      BY <2>2 DEF NoClient
    <3>2. QED
      BY <2>2, <3>1 DEF RunInv
  <2>3. QED
    BY <1>1, <2>1, <2>2
<1>6. \A v \in Users : /\ part'[v] = IF v = u THEN "waiting" ELSE part[v]
                       /\ over'[v] = IF v = u THEN c ELSE over[v]
  BY ZenonT(40), <1>1, <1>2, WhoIsWho DEF RunInv, TypeOK
<1>7. StartedClient'
  BY ZenonT(40), <1>2, <1>4, <1>5, <1>6 DEF RunInv, StartedClient
<1>8. \A d \in Conns : gate'[d] = "open" => client'[d] # "nil"
  BY <1>1, <1>4 DEF RunInv
<1>9. \A v \in Users : part'[v] = "serving" => client'[over'[v]] # "nil"
  BY <1>1, <1>6 DEF RunInv
<1>10. gate'[Shared] = gate[Shared] \/ gate'[Shared] = "shut"
  BY SMTT(30), <1>4, WhoIsWho
<1>11. \A p \in Proxies : req'[p] # "idle" => p # u /\ part'[p] = "serving"
  BY <1>1, <1>6, WhoIsWho DEF RunInv
<1>12. /\ pc' \in {"tunnels", "socks"} => part'[Socks] = "off"
       /\ pc' \in {"tunnels", "socks", "dns"} => part'[Dns] = "off"
  BY <1>6, WhoIsWho DEF RunInv
<1>13. QED
  BY SMTT(30), <1>3, <1>7, <1>8, <1>9, <1>10, <1>11, <1>12 DEF RunInv

\* Exit leaves everything else alone.
LEMMA ExitInv ==
  ASSUME RunInv, ClientConfTypeOK',
         NEW why \in {"no client", "listen", "panic", "nothing", "interrupt"}, Exit(why)
  PROVE  RunInv'
<1>1. /\ UNCHANGED <<conf, part, over, linkVars, req, target>> /\ UNCHANGED <<pc, tunnelAt>>
      /\ somethingRun' = somethingRun /\ halted' = why
  BY DEF Exit, runVars
<1>2. tunnelAt' \in 1 .. NTunnels + 1 /\ somethingRun' \in BOOLEAN
  BY <1>1 DEF RunInv, TypeOK
<1>3. QED
  BY <1>1, <1>2, GoesOn

\* The tunnels, the socks proxy and the dns proxy, one after the other.
LEMMA RunTunnelInv == ASSUME RunInv, ClientConfTypeOK', RunTunnel PROVE RunInv'
<1> DEFINE u == <<"tunnel", tunnelAt>>
<1>1. pc = "tunnels" /\ tunnelAt \in 1 .. NTunnels
  <2>1. tunnelAt \in 1 .. NTunnels + 1
    BY DEF RunInv, TypeOK
  <2>2. pc = "tunnels" /\ tunnelAt <= NTunnels
    BY DEF RunTunnel
  <2>3. QED
    BY <2>1, <2>2, CommandsAssumption
<1>2. u \in Users /\ u \notin Proxies /\ u \in Conns
  BY <1>1, WhoIsWho
<1>3. \/ Exit("no client")
      \/ /\ ~NoClient(u) /\ StartUser(u, u) /\ tunnelAt' = tunnelAt + 1
         /\ UNCHANGED <<pc, conf, somethingRun>>
      \/ /\ tunnelAt' = NTunnels + 1
         /\ UNCHANGED <<pc, conf, somethingRun, target, part, over, linkVars, req, halted>>
  BY DEF RunTunnel
<1> HIDE DEF u
<1>4. CASE Exit("no client")
  BY <1>4, ExitInv
<1>5. /\ somethingRun \in BOOLEAN
      /\ tunnelAt + 1 \in 1 .. NTunnels + 1 /\ NTunnels + 1 \in 1 .. NTunnels + 1
  <2>1. somethingRun \in BOOLEAN
    BY DEF RunInv, TypeOK
  <2>2. QED
    BY <1>1, <2>1, CommandsAssumption
<1>6. CASE /\ ~NoClient(u) /\ StartUser(u, u) /\ tunnelAt' = tunnelAt + 1
           /\ UNCHANGED <<pc, conf, somethingRun>>
  BY <1>1, <1>2, <1>5, <1>6, UserStarts
<1>7. CASE /\ tunnelAt' = NTunnels + 1
           /\ UNCHANGED <<pc, conf, somethingRun, target, part, over, linkVars, req, halted>>
  <2>1. halted' \in {"no", "no client", "listen", "panic", "nothing", "interrupt"}
    BY <1>7 DEF RunInv, TypeOK
  <2>2. QED
    BY <1>5, <1>7, <2>1, GoesOn
<1>8. QED
  BY <1>3, <1>4, <1>6, <1>7

\* conf.use[u] is "none", there is no client, or it runs.
LEMMA RunProxyInv ==
  ASSUME RunInv, ClientConfTypeOK',
         \/ TunnelsEnd \/ NotConfigured(Socks, "socks", "dns") \/ RunSocks
         \/ NotConfigured(Dns, "dns", "end") \/ RunDns \/ RunEnds
  PROVE  RunInv'
<1>1. /\ somethingRun \in BOOLEAN /\ tunnelAt \in 1 .. NTunnels + 1
      /\ halted \in {"no", "no client", "listen", "panic", "nothing", "interrupt"}
  BY DEF RunInv, TypeOK
<1>2. CASE TunnelsEnd \/ NotConfigured(Socks, "socks", "dns") \/ NotConfigured(Dns, "dns", "end")
  <2>1. /\ UNCHANGED <<conf, part, over, linkVars, req, target>>
        /\ UNCHANGED <<tunnelAt, somethingRun, halted>>
        /\ \/ pc = "tunnels" /\ pc' = "socks"
           \/ pc = "socks" /\ pc' = "dns"
           \/ pc = "dns" /\ pc' = "end"
    BY <1>2 DEF TunnelsEnd, NotConfigured
  <2>2. QED
    BY <1>1, <2>1, GoesOn
<1>3. CASE RunSocks
  <2>1. \/ Exit("no client")
        \/ /\ ~NoClient(Socks) /\ StartUser(Socks, Socks) /\ pc = "socks" /\ pc' = "dns"
           /\ somethingRun' = TRUE /\ UNCHANGED <<conf, tunnelAt>>
    BY <1>3 DEF RunSocks
  <2>2. CASE Exit("no client")
    BY <2>2, ExitInv
  <2>3. CASE /\ ~NoClient(Socks) /\ StartUser(Socks, Socks) /\ pc = "socks" /\ pc' = "dns"
             /\ somethingRun' = TRUE /\ UNCHANGED <<conf, tunnelAt>>
    BY <1>1, <2>3, UserStarts, WhoIsWho
  <2>4. QED
    BY <2>1, <2>2, <2>3
<1>4. CASE RunDns
  <2>1. \/ Exit("no client") \/ Exit("panic")
        \/ /\ ~NoClient(Dns) /\ StartUser(Dns, Socks) /\ pc = "dns" /\ pc' = "end"
           /\ somethingRun' = TRUE /\ UNCHANGED <<conf, tunnelAt>>
    BY <1>4 DEF RunDns
  <2>2. CASE Exit("no client") \/ Exit("panic")
    BY <2>2, ExitInv
  <2>3. CASE /\ ~NoClient(Dns) /\ StartUser(Dns, Socks) /\ pc = "dns" /\ pc' = "end"
             /\ somethingRun' = TRUE /\ UNCHANGED <<conf, tunnelAt>>
    BY <1>1, <2>3, UserStarts, WhoIsWho
  <2>4. QED
    BY <2>1, <2>2, <2>3
<1>5. CASE RunEnds
  <2>1. /\ UNCHANGED <<conf, part, over, linkVars, req, target>>
        /\ UNCHANGED <<tunnelAt, somethingRun>>
        /\ pc' = pc \/ (pc = "end" /\ pc' = "wait")
        /\ halted' \in {halted, "nothing"}
    BY <1>5 DEF RunEnds
  <2>2. QED
    BY <1>1, <2>1, GoesOn
<1>6. QED
  BY <1>2, <1>3, <1>4, <1>5

\* What serves came through the gate of its client.
LEMMA ServeInv ==
  ASSUME RunInv, ClientConfTypeOK', NEW p \in Parts, Serve(p)
  PROVE  RunInv'
<1>1. /\ part[p] = "waiting" /\ (p # Sshd => gate[over[p]] = "open")
      /\ part' = [part EXCEPT ![p] = "serving"]
      /\ UNCHANGED <<conf, pc, tunnelAt, somethingRun, target, over, gate, client, drops, req, halted>>
  BY DEF Serve, Ready, runVars, linkVars
<1>2. TypeOK'
  BY <1>1 DEF RunInv, TypeOK
<1>3. \A q \in Parts : part'[q] = IF q = p THEN "serving" ELSE part[q]
  BY <1>1 DEF RunInv, TypeOK
<1>4. \A u \in Users : u # Sshd /\ u \in Parts
  BY SMTT(30), WhoIsWho
<1>5. StartedClient'
  BY <1>1, <1>3, <1>4 DEF RunInv, StartedClient
<1>6. \A u \in Users : part'[u] = "serving" => client'[over'[u]] # "nil"
  <2>1. ASSUME p \in Users PROVE client[over[p]] # "nil"
    BY SMTT(30), <1>1, <1>4, <2>1 DEF RunInv, StartedClient
  <2>2. QED
    BY SMTT(30), <1>1, <1>3, <1>4, <2>1 DEF RunInv
<1>7. \A q \in Proxies : q \in Parts /\ (req'[q] # "idle" => part'[q] = "serving")
  BY SMTT(30), <1>1, <1>3, WhoIsWho DEF RunInv
<1>8. /\ part'[Socks] = "off" \/ part[Socks] # "off"
      /\ part'[Dns] = "off" \/ part[Dns] # "off"
  BY SMTT(30), <1>1, <1>3, WhoIsWho
<1>9. QED
  BY SMTT(30), <1>1, <1>2, <1>5, <1>6, <1>7, <1>8 DEF RunInv

\* The requests of the users of the proxies.
LEMMA RequestInv ==
  ASSUME RunInv, ClientConfTypeOK', NEW p \in Proxies,
         Ask(p) \/ Dial(p) \/ DialFails(p) \/ ReadAll(p) \/ ReadPart(p) \/ NoReply(p)
  PROVE  RunInv'
<1>1. PICK to \in {"idle", "asked", "dialled", "mangled", "served"} :
        /\ req' = [req EXCEPT ![p] = to]
        /\ part[p] = "serving" \/ req[p] # "idle"
  BY SMTT(30) DEF Ask, Dial, DialFails, ReadAll, ReadPart, NoReply, Request
<1>2. UNCHANGED <<conf, pc, tunnelAt, somethingRun, target, part, over, gate, client, drops, halted>>
  BY SMTT(30) DEF Ask, Dial, DialFails, ReadAll, ReadPart, NoReply, Request, runVars, linkVars
<1>3. part[p] = "serving"
  BY <1>1 DEF RunInv
<1>4. TypeOK'
  BY ZenonT(40), <1>1, <1>2 DEF RunInv, TypeOK
<1>5. \A q \in Proxies : req'[q] # "idle" => part'[q] = "serving"
  <2>1. \A q \in Proxies : q # p => req'[q] = req[q]
    BY <1>1 DEF RunInv, TypeOK
  <2>2. QED
    BY <1>2, <1>3, <2>1 DEF RunInv
<1>6. QED
  BY SMTT(30), <1>2, <1>4, <1>5 DEF RunInv, StartedClient

\* The ssh clients are lost and made anew under the parts: Client, once
\* assigned, is never nil again, and no gate is ever off again.
LEMMA LinkInv ==
  ASSUME RunInv, ClientConfTypeOK', NEW c \in Conns,
         LinkReplaces(c) \/ LinkAnnounces(c) \/ LinkRetracts(c) \/ LinkDrops(c)
  PROVE  RunInv'
<1>1. UNCHANGED <<conf, pc, tunnelAt, somethingRun, target, part, over, halted>>
  BY DEF LinkReplaces, LinkAnnounces, LinkRetracts, LinkDrops, runVars
<1>2. /\ gate \in [Conns -> {"off", "shut", "open"}]
      /\ client \in [Conns -> {"nil", "open", "closed"}]
      /\ req \in [Proxies -> {"idle", "asked", "dialled", "lost", "mangled", "served"}]
      /\ drops \in 0 .. MaxDrops /\ MaxDrops \in Nat
  BY CommandsAssumption DEF RunInv, TypeOK
<1>3. /\ gate' \in [Conns -> {"off", "shut", "open"}]
      /\ \A d \in Conns : gate'[d] = "off" => gate[d] = "off"
      /\ \A d \in Conns : gate'[d] = "open" => gate[d] = "open" \/ client[d] # "nil"
  BY <1>2 DEF LinkReplaces, LinkAnnounces, LinkRetracts, LinkDrops
<1>4. /\ client' \in [Conns -> {"nil", "open", "closed"}]
      /\ \A d \in Conns : client[d] # "nil" => client'[d] # "nil"
  BY <1>2 DEF LinkReplaces, LinkAnnounces, LinkRetracts, LinkDrops
<1>5. drops' \in 0 .. MaxDrops
  BY <1>2 DEF LinkReplaces, LinkAnnounces, LinkRetracts, LinkDrops
<1>6. /\ req' \in [Proxies -> {"idle", "asked", "dialled", "lost", "mangled", "served"}]
      /\ \A p \in Proxies : req'[p] # "idle" => req[p] # "idle"
  BY <1>2 DEF LinkReplaces, LinkAnnounces, LinkRetracts, LinkDrops
<1>7. TypeOK'
  BY <1>1, <1>3, <1>4, <1>5, <1>6 DEF RunInv, TypeOK
<1>8. StartedClient'
  BY <1>1, <1>3 DEF RunInv, StartedClient
<1>9. \A d \in Conns : gate'[d] = "open" => client'[d] # "nil"
  BY <1>3, <1>4 DEF RunInv
<1>10. \A u \in Users : part'[u] = "serving" => client'[over'[u]] # "nil"
  <2>1. ASSUME NEW u \in Users, part[u] = "serving"
        PROVE  over[u] \in Conns /\ client[over[u]] # "nil"
    BY SMTT(30), <2>1 DEF RunInv, StartedClient
  <2>2. QED
    BY SMTT(30), <1>1, <1>4, <2>1
<1>11. gate[Shared] # "off" => gate'[Shared] # "off"
  BY <1>3, WhoIsWho
<1>12. QED
  BY SMTT(30), <1>1, <1>6, <1>7, <1>8, <1>9, <1>10, <1>11 DEF RunInv

\* Every step keeps the invariant.
LEMMA RunStepInv == RunInv /\ ClientConfTypeOK' /\ [Next]_vars => RunInv'
<1> SUFFICES ASSUME RunInv, ClientConfTypeOK', [Next]_vars PROVE RunInv'
  OBVIOUS
<1>1. CASE UNCHANGED vars \/ Resolve
  <2>1. UNCHANGED <<runVars, part, over, linkVars, req, halted>>
    BY <1>1 DEF vars, Resolve
  <2>2. /\ UNCHANGED <<conf, part, over, linkVars, req, target>>
        /\ UNCHANGED <<pc, tunnelAt, somethingRun, halted>>
    BY <2>1 DEF runVars
  <2>3. /\ halted' \in {"no", "no client", "listen", "panic", "nothing", "interrupt"}
        /\ tunnelAt' \in 1 .. NTunnels + 1 /\ somethingRun' \in BOOLEAN
    BY <2>2 DEF RunInv, TypeOK
  <2>4. QED
    BY <2>2, <2>3, GoesOn
<1>2. CASE Main
  BY <1>1, <1>2, SharedStarts, RunSshdInv, RunTunnelInv, RunProxyInv DEF Main
<1>3. CASE Interrupt
  BY <1>3, ExitInv DEF Interrupt
<1>4. ASSUME NEW p \in Parts, Serve(p) \/ ServeFails(p) PROVE RunInv'
  BY <1>4, ServeInv, ExitInv DEF ServeFails
<1>5. ASSUME NEW p \in Proxies,
             Ask(p) \/ Dial(p) \/ DialFails(p) \/ ReadAll(p) \/ ReadPart(p) \/ NoReply(p)
      PROVE  RunInv'
  BY <1>5, RequestInv
<1>6. ASSUME NEW c \in Conns,
             LinkReplaces(c) \/ LinkAnnounces(c) \/ LinkRetracts(c) \/ LinkDrops(c)
      PROVE  RunInv'
  BY <1>6, LinkInv
<1>7. QED
  BY <1>1, <1>2, <1>3, <1>4, <1>5, <1>6 DEF Next

\* Every reachable state satisfies the invariant of the parts.
THEOREM RunInvariance == Spec => []RunInv
<1>1. ConfInv /\ [Next]_vars => ConfInv'
  BY StepIsConfStep, ConfStepInv
<1>2. ConfInv' => ClientConfTypeOK'
  BY DEF ConfInv
<1>3. RunInv /\ ConfInv /\ [Next]_vars => RunInv'
  BY <1>1, <1>2, RunStepInv
<1>4. QED
  BY <1>3, RunInit, ConfInvariance, PTL DEF Spec

\* Type correctness, for any number of tunnels, hosts and losses.
THEOREM TypeCorrect == Spec => []TypeOK
<1>1. RunInv => TypeOK
  BY DEF RunInv
<1>2. QED
  BY <1>1, RunInvariance, PTL

\* No configuration of run, and none of the other commands, leaves a part
\* waiting for an ssh client that was not started.
THEOREM StartedClientAlways == Spec => []StartedClient
<1>1. RunInv => StartedClient
  BY DEF RunInv
<1>2. QED
  BY <1>1, RunInvariance, PTL

\* DnsProxy and SocksProxy never call Dial on a nil Client, whatever is lost
\* and made anew under them.
THEOREM NoNilDialAlways == Spec => []NoNilDial
<1>1. RunInv => NoNilDial
  BY WhoIsWho DEF RunInv, NoNilDial
<1>2. QED
  BY <1>1, RunInvariance, PTL

------------------------------------------------------------------------------
(* Clients of their own *)

\* A part other than the dns proxy that has an sshclient section of its own
\* runs over an ssh client made from that section.
OwnClient ==
  \A u \in Users \ {Dns} : part[u] # "off" /\ conf.use[u] = "own" => over[u] = u /\ target[u] = u

\* A step that changes neither what parts run over nor what clients are made of.
LEMMA OwnSame ==
  ASSUME OwnClient, UNCHANGED <<conf, over, target>>,
         \A u \in Users : part'[u] # "off" => part[u] # "off"
  PROVE  OwnClient'
  BY DEF OwnClient

\* A part is started.
LEMMA OwnStarts ==
  ASSUME RunInv, OwnClient, NEW u \in Users, NEW t \in Conns, StartUser(u, t), UNCHANGED conf,
         u = Dns \/ t = u
  PROVE  OwnClient'
<1>1. /\ part \in [Parts -> {"off", "waiting", "serving"}] /\ u \in Parts /\ u \in Conns
      /\ over \in [Users -> Conns \cup {NoConn}] /\ target \in [Conns -> Conns \cup {NoConn}]
  BY WhoIsWho DEF RunInv, TypeOK
<1>2. CASE conf.use[u] = "own"
  <2>1. /\ part' = [part EXCEPT ![u] = "waiting"] /\ over' = [over EXCEPT ![u] = u]
        /\ target' = [target EXCEPT ![u] = t]
    BY <1>2 DEF StartUser, Connect, Begin
  <2>2. \A v \in Users : v # u => part'[v] = part[v] /\ over'[v] = over[v] /\ target'[v] = target[v]
    BY <1>1, <2>1, WhoIsWho
  <2>3. over'[u] = u /\ target'[u] = t
    BY SMTT(30), <1>1, <2>1
  <2>4. QED
    BY <2>2, <2>3 DEF OwnClient
<1>3. CASE conf.use[u] = "shared"
  <2>1. /\ part' = [part EXCEPT ![u] = "waiting"] /\ over' = [over EXCEPT ![u] = Shared]
        /\ target' = target
    BY <1>3 DEF StartUser, Begin
  <2>2. \A v \in Users : v # u => part'[v] = part[v] /\ over'[v] = over[v]
    BY <1>1, <2>1, WhoIsWho
  <2>3. QED
    BY SMTT(30), <1>3, <2>1, <2>2 DEF OwnClient
<1>4. QED
  BY <1>2, <1>3 DEF StartUser

\* The main goroutine.
LEMMA OwnMain == ASSUME RunInv, OwnClient, Main PROVE OwnClient'
<1>1. CASE Resolve \/ TunnelsEnd \/ NotConfigured(Socks, "socks", "dns")
           \/ NotConfigured(Dns, "dns", "end") \/ RunEnds
  <2>1. UNCHANGED <<conf, over, target, part>>
    BY <1>1 DEF Resolve, TunnelsEnd, NotConfigured, RunEnds, runVars
  <2>2. QED
    BY <2>1, OwnSame
<1>2. CASE Direct \/ RunClient
  <2>1. UNCHANGED conf /\ (target' = target \/ target' = [target EXCEPT ![Shared] = Shared])
    BY <1>2 DEF Direct, RunClient, Connect
  <2>2. \A u \in Users : target'[u] = target[u]
    <3>1. Shared \notin Users
      BY DEF Shared, Users, Tunnels, Proxies, Socks, Dns
    <3>2. QED
      BY <2>1, <3>1, WhoIsWho DEF RunInv, TypeOK
  <2>3. \A u \in Users : conf.use[u] = "own" => part'[u] = part[u] /\ over'[u] = over[u]
    <3>1. CASE RunClient
      BY SMTT(30), <3>1 DEF RunClient
    <3>2. CASE Direct
      <4> DEFINE w == CHOOSE u \in Users : conf.use[u] = "shared"
      <4>1. w \in Users /\ conf.use[w] = "shared"
        <5>1. \E v \in Users : conf.use[v] = "shared"
          BY <3>2 DEF Direct, RunInv
        <5>2. QED
          BY Zenon, <5>1
      <4>2. part' = [part EXCEPT ![w] = "waiting"] /\ over' = [over EXCEPT ![w] = Shared]
        BY <3>2 DEF Direct, Begin
      <4> HIDE DEF w
      <4>3. QED
        BY ZenonT(40), <4>1, <4>2, WhoIsWho DEF RunInv, TypeOK
    <3>3. QED
      BY SMTT(30), <1>2, <3>1, <3>2
  <2>4. QED
    BY <2>1, <2>2, <2>3 DEF OwnClient
<1>3. CASE RunSshd
  <2>1. /\ UNCHANGED <<conf, over, target>>
        /\ part' = [part EXCEPT ![Sshd] = IF conf.sshd THEN "waiting" ELSE "off"]
    BY <1>3 DEF RunSshd
  <2>2. \A u \in Users : part'[u] = part[u]
    BY <2>1, WhoIsWho DEF RunInv, TypeOK
  <2>3. QED
    BY <2>1, <2>2, OwnSame
<1>4. CASE RunTunnel \/ RunSocks \/ RunDns
  <2>1. ASSUME NEW why, Exit(why) PROVE OwnClient'
    BY <2>1, OwnSame DEF Exit, runVars
  <2>2. CASE RunTunnel
    <3> DEFINE u == <<"tunnel", tunnelAt>>
    <3>1. tunnelAt \in 1 .. NTunnels + 1 /\ tunnelAt <= NTunnels
      BY <2>2 DEF RunTunnel, RunInv, TypeOK
    <3>2. u \in Users /\ u \in Conns
      <4>1. tunnelAt \in 1 .. NTunnels
        BY SMTT(30), <3>1, CommandsAssumption
      <4>2. QED
        BY <4>1, WhoIsWho
    <3>3. \/ Exit("no client")
          \/ StartUser(u, u) /\ UNCHANGED conf
          \/ UNCHANGED <<conf, over, target, part>>
      BY <2>2 DEF RunTunnel
    <3> HIDE DEF u
    <3>4. QED
      BY <2>1, <3>2, <3>3, OwnStarts, OwnSame
  <2>3. CASE RunSocks
    <3>1. Exit("no client") \/ (StartUser(Socks, Socks) /\ UNCHANGED conf)
      BY <2>3 DEF RunSocks
    <3>2. QED
      BY <2>1, <3>1, OwnStarts, WhoIsWho
  <2>4. CASE RunDns
    <3>1. Exit("no client") \/ Exit("panic") \/ (StartUser(Dns, Socks) /\ UNCHANGED conf)
      BY <2>4 DEF RunDns
    <3>2. QED
      BY <2>1, <3>1, OwnStarts, WhoIsWho
  <2>5. QED
    BY <1>4, <2>2, <2>3, <2>4
<1>5. QED
  BY <1>1, <1>2, <1>3, <1>4 DEF Main

\* "use a dedicated ssh client. if nil use the global one": true of every tunnel
\* and of the socks proxy in every configuration.  Only the dns proxy is given
\* a client made from another section.
THEOREM OwnClientAlways == Spec => []OwnClient
<1>1. Init => OwnClient
  <2>1. Init => \A u \in Users : part[u] = "off"
    BY WhoIsWho DEF Init
  <2>2. QED
    BY <2>1 DEF OwnClient
<1>2. RunInv /\ OwnClient /\ [Next]_vars => OwnClient'
  <2> SUFFICES ASSUME RunInv, OwnClient, [Next]_vars PROVE OwnClient'
    OBVIOUS
  <2>1. CASE Main
    BY <2>1, OwnMain
  <2>2. ASSUME NEW p \in Parts, Serve(p) PROVE OwnClient'
    <3>1. /\ part[p] = "waiting" /\ part' = [part EXCEPT ![p] = "serving"]
          /\ UNCHANGED <<conf, over, target>>
      BY <2>2 DEF Serve, runVars
    <3>2. \A u \in Users : part'[u] # "off" => part[u] # "off"
      BY <3>1, WhoIsWho DEF RunInv, TypeOK
    <3>3. QED
      BY <3>1, <3>2, OwnSame
  <2>3. ASSUME \/ Interrupt \/ UNCHANGED vars
               \/ \E p \in Parts : ServeFails(p)
               \/ \E p \in Proxies : Ask(p) \/ Dial(p) \/ DialFails(p) \/ ReadAll(p)
                                        \/ ReadPart(p) \/ NoReply(p)
               \/ \E c \in Conns : LinkReplaces(c) \/ LinkAnnounces(c) \/ LinkRetracts(c)
                                      \/ LinkDrops(c)
        PROVE  OwnClient'
    <3>1. UNCHANGED <<conf, over, target, part>>
      BY <2>3 DEF Interrupt, Exit, ServeFails, Ask, Dial, DialFails, ReadAll, ReadPart, NoReply,
                  Request, LinkReplaces, LinkAnnounces, LinkRetracts, LinkDrops, vars, runVars
    <3>2. QED
      BY SMTT(30), <3>1, OwnSame
  <2>4. QED
    BY <2>1, <2>2, <2>3 DEF Next
<1>3. QED
  BY <1>1, <1>2, RunInvariance, PTL DEF Spec
==============================================================================

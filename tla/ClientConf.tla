------------------------------ MODULE ClientConf -----------------------------
(***************************************************************************)
(* cmd/cmnflags/sshc.go: GetSshClientConf, with which the commands that    *)
(* take a server on the command line build its SshClientConf from their    *)
(* flags and from ~/.ssh/config, following ProxyJump from host to host.    *)
(* Of what a Host block sets, the model has IdentityFile and ProxyJump.    *)
(***************************************************************************)
EXTENDS Naturals, Sequences

CONSTANTS Hosts,     \* the names that have a Host block
          Outside,   \* a user@host:port that has none
          Nobody,    \* the empty string: no jump host
          Own,       \* the identity of the user-identity flag or its default
          MaxHops    \* bound: a chain that runs in a circle is followed no further

ASSUME ClientConfAssumption ==
  /\ Outside \notin Hosts /\ Nobody \notin Hosts \cup {Outside}
  /\ MaxHops \in Nat

VARIABLES
  proxyJump,    \* ProxyJump of each Host block
  serverURI,    \* the argument
  jumpFlag,     \* the jump-host flag
  identityFlag, \* the user-identity flag was given
  rpc,          \* where GetSshClientConf is; "off" in a command without it
  jumpHost, identity,   \* its local variables
  Identity,     \* sshcConf.Identity
  JumpHosts     \* sshcConf.JumpHosts

givenVars == <<proxyJump, serverURI, jumpFlag, identityFlag>>
resolveVars == <<rpc, jumpHost, identity, Identity, JumpHosts>>
clientConfVars == <<givenVars, resolveVars>>

Names == Hosts \cup {Outside, Nobody}

ClientConfTypeOK ==
  /\ proxyJump \in [Hosts -> Names]
  /\ serverURI \in Hosts \cup {Outside} /\ jumpFlag \in Names /\ identityFlag \in BOOLEAN
  /\ rpc \in {"off", "host", "jump", "last", "done"}
  /\ jumpHost \in Names /\ identity \in Hosts \cup {Own} /\ Identity \in Hosts \cup {Own}
  /\ JumpHosts \in Seq([uri : Hosts \cup {Outside}, identity : Hosts \cup {Own}])

\* GetHostConf(host) is not nil.
Configured(host) == host \in Hosts

ClientConfInit ==
  /\ proxyJump \in [Hosts -> Names]
  /\ serverURI \in Hosts \cup {Outside}
  /\ jumpFlag \in Names
  /\ identityFlag \in BOOLEAN
  /\ rpc = "host"
  /\ jumpHost = jumpFlag
  /\ identity = Own /\ Identity = Own
  /\ JumpHosts = <<>>

\* A command that has its configuration from a file.
ClientConfUnused ==
  /\ proxyJump = [h \in Hosts |-> Nobody]
  /\ serverURI = Outside /\ jumpFlag = Nobody /\ identityFlag = FALSE
  /\ rpc = "off" /\ jumpHost = Nobody
  /\ identity = Own /\ Identity = Own
  /\ JumpHosts = <<>>

\* What the Host block of the server sets, where no flag was given.
HostConf ==
  /\ rpc = "host"
  /\ identity' = IF Configured(serverURI) /\ ~identityFlag THEN serverURI ELSE identity
  /\ jumpHost' = IF Configured(serverURI) /\ proxyJump[serverURI] # Nobody /\ jumpFlag = Nobody
                 THEN proxyJump[serverURI] ELSE jumpHost
  /\ Identity' = identity'
  /\ rpc' = IF jumpHost' = Nobody THEN "done" ELSE "jump"
  /\ UNCHANGED <<givenVars, JumpHosts>>

\* Mutated: the loop looks at the same jump host again.
NextJumpStays ==
  /\ rpc = "jump" /\ Configured(jumpHost) /\ Len(JumpHosts) < MaxHops
  /\ identity' = jumpHost
  /\ JumpHosts' = Append(JumpHosts, [uri |-> jumpHost, identity |-> identity'])
  /\ UNCHANGED <<givenVars, rpc, jumpHost, Identity>>

\* The loop: one more hop, with the identity of its Host block.
NextJump ==
  /\ rpc = "jump" /\ Configured(jumpHost) /\ Len(JumpHosts) < MaxHops
  /\ identity' = jumpHost
  /\ JumpHosts' = Append(JumpHosts, [uri |-> jumpHost, identity |-> identity'])
  /\ jumpHost' = proxyJump[jumpHost]
  /\ UNCHANGED <<givenVars, rpc, Identity>>

JumpsEnd ==
  /\ rpc = "jump" /\ ~Configured(jumpHost)
  /\ rpc' = "last"
  /\ UNCHANGED <<givenVars, jumpHost, identity, Identity, JumpHosts>>

\* Mutated: a jump host without a Host block is left out.
LastJumpLost ==
  /\ rpc = "last"
  /\ rpc' = "done"
  /\ UNCHANGED <<givenVars, jumpHost, identity, Identity, JumpHosts>>

\* A jump host without a Host block, with the identity that was used last.
LastJump ==
  /\ rpc = "last"
  /\ JumpHosts' = IF jumpHost = Nobody THEN JumpHosts
                  ELSE Append(JumpHosts, [uri |-> jumpHost, identity |-> identity])
  /\ rpc' = "done"
  /\ UNCHANGED <<givenVars, jumpHost, identity, Identity>>

ClientConfNext == HostConf \/ NextJump \/ JumpsEnd \/ LastJump

------------------------------------------------------------------------------
\* The name asked for after host: the flag or the server's block, then ProxyJump.
FirstJump ==
  IF jumpFlag # Nobody THEN jumpFlag
  ELSE IF Configured(serverURI) THEN proxyJump[serverURI] ELSE Nobody
After(host) == IF Configured(host) THEN proxyJump[host] ELSE Nobody

\* The n-th hop of the chain that the flags and ~/.ssh/config describe, as far
\* as the bound lets GetSshClientConf go: MaxHops Host blocks, a hop that has
\* none, and the end.
Chain[n \in 1 .. MaxHops + 2] == IF n = 1 THEN FirstJump ELSE After(Chain[n - 1])

\* The hops that GetSshClientConf returns are the chain, whole and in order,
\* each configured one with its own identity; and an identity given by flag is
\* the one used for the server.
HopsFollowConfig ==
  rpc = "done" =>
    /\ \A n \in 1 .. Len(JumpHosts) :
         /\ JumpHosts[n].uri = Chain[n]
         /\ Configured(Chain[n]) => JumpHosts[n].identity = Chain[n]
    /\ Chain[Len(JumpHosts) + 1] = Nobody
    /\ identityFlag => Identity = Own

\* The chain ends.
Acyclic == \E n \in 1 .. MaxHops + 1 : Chain[n] = Nobody
==============================================================================

# A verification of rospo

rospo keeps ssh connections and the tunnels over them up, copies files over
sftp and has an ssh server of its own. This directory holds TLA+ modules of
its concurrent parts, the configurations with which TLC checks them on small
instances, and proofs that TLAPS checks for every value of the constants.
`PROJECT.json` is the index: components, runs, the map from definitions to
lines of the source, hazards, findings and theorems.

    tlc -config MCConnection.cfg MCSshConnection      # one run
    tlapm SshConnectionProofs.tla                     # one module of proofs

## The system

| part | source | state | operations | what is hard | module |
|---|---|---|---|---|---|
| ssh connection | `pkg/sshc/ssh_connection.go` | `Client`, the wait group `connected`, `connectionStatus`, `isStopped`, known_hosts, clients of the jump hosts | `Start` (connect, keepAlive, resetConn), `Stop`, `ReadyWait`, `GrabPubKey` | users read `Client` after `ReadyWait`, without a lock; `Stop` meets `Start` anywhere; the wait group is used again and again | `SshConnection`, `Link`, `WaitGroup` |
| tunnel | `pkg/tun/tunnel.go` | listener, `clientsMap`, registry ID, `terminate`, a far end dialled in advance | `Start`, `listenLocal`, `listenRemote`, `copyConn`, `Stop` | recovery, `Stop` against every position of `Start`, connections that end while others begin | `Tunnel` over `Link` |
| copying | `pkg/rio/io.go` | two connections, a `sync.Once`, a wait group, the channel `bw` | `CopyBuffer`, `CopyConnWithOnClose` | the two directions end at the same time; a channel is closed under its senders | `CopyConn` |
| sftp transfers | `pkg/sshc/sftp_client.go` | destination file, resume offset, chunks, progress channel | `GetFile`, `PutFile`, `downloadChunk`, `uploadChunk` | chunks out of order, retries, loss of the client, a killed process | `SftpTransfer` |
| sftp client | `pkg/sshc/sftp_client.go` | `Client`, its own wait group, `terminate` | `Start`, `waitForSshClient`, `ReadyWait`, `Stop` | the client is made anew under those who use it | `SftpClient` over `Link` |
| worker pool | `pkg/worker/worker.go` | bounded channel, wait group | `Enqueue`, `Wait`, `worker` | everyone waits on everyone | in `SftpTransfer` and `RecursiveTransfer` |
| recursive transfers | `cmd/get.go`, `cmd/put.go` | position of the walk, pool, progress bars | `getFileRecursive`, `putFileRecursive` | directories before files, early returns while the pool works, a walk over a client that is lost | `RecursiveTransfer` over `SftpClient` |
| ssh server | `pkg/sshd/server.go`, `request_handler.go`, `session_handler.go` | listeners, `forwards` | `serveConnection`, `tcpipForwardHandler`, cancel, `checkAlive`, forwarded and direct tcp | connections lost at any moment while they hold ports | `SshServer` |
| start and login of the server | `pkg/sshd/server.go`, `pkg/utils/keys.go` | key file, sources of authorized keys, attempts, session counter | `NewSshServer`, `loadAuthorizedKeys`, `Start`, `keyAuth`, `passwordAuth`, `serveConnection` | crashes while the key is written, sources edited during an attempt, clients that leave at any point | `ServerLogin` |
| session channels | `pkg/sshd/channel_handler.go`, `pkg/rpty`, `pkg/sshc/remote_shell.go` | terminal, command, requests and answers | pty-req, shell, exec, env, window-change, subsystem | answers are sent twice, output races the close | `ChannelSession` |
| ssh client configuration | `cmd/cmnflags/sshc.go` | the local variables of `GetSshClientConf`, `JumpHosts` | the loop over `ProxyJump` | a chain of any shape in a file the user writes | `ClientConf` |
| commands and proxies | `cmd/run.go`, `cmd/*_proxy.go`, `cmd/tun_*.go`, `cmd/revshell.go`, `pkg/sshc/dns_proxy.go`, `socks_proxy.go` | what is started, over which ssh client, requests under way | `run` and the other commands, `DnsProxy.Start`, `SocksProxy.Start` | which of many configurations leaves a part without its client; clients replaced under a proxy | `Commands` over `ClientConf` |

The tunnels, the proxies and the sftp client all use the connection in the
same way: `ReadyWait`, then a method of `Client`. That interface is the module
`Link`. `SshConnection` implements it; `Tunnel` and `SftpClient` are written
over it: their steps of the link are exactly the actions of `Link`, so what is
shown of them holds over anything that implements `Link`. `SftpClient` is in
turn a `Link` to the transfers: `RecursiveTransfer` is composed with
`SftpClient` itself, `SftpTransfer` with the `Link` it implements. `Commands`
has one such link for every ssh client a configuration asks for.

## The modules

Each section of code under one mutex, each operation of a wait group or a
channel and each blocking call is one step. Local variables that no other
goroutine sees are updated in the step that uses them.

* **WaitGroup** (external): `sync.WaitGroup`. A goroutine that was released has
  not yet returned from `Wait`; if the group is in use again when it runs, the
  runtime panics.
* **Link**: a gate (does `ReadyWait` block), a client (nil, open, closed), and
  whether the process is still there.
* **SshConnection**: `pc` is the position of `Start`; `ReachHost`, `DialFails`
  and `DialFatal` are the outcomes of dialling the next host of the chain with
  the verdict of `verifyHostCallback`; `AssignClient`, `ConnectedDone`,
  `SetConnected`, `KeepAliveFails`, `ResetClose`, `ResetStatus`, `ConnectedAdd`
  are the steps between them. `Stop` has three steps. Users are let through by
  `ReadyWait` and later use the client. The network drops the server or a jump
  host at any moment.
* **Tunnel**: `forward` chooses between `listenLocal` and `listenRemote`. A
  connection has a near end, accepted, and a far end, dialled before `Accept`.
  Which of them dies with the ssh client depends on the direction. `Stop` has
  its steps in the order of the code.
* **CopyConn**: bytes are counted in units. `once` orders the teardown. A
  `Read` that returns data and an error is two Reads.
* **SftpTransfer**: the destination is its size and the set of positions that
  hold the right data; `upload` chooses between `PutFile` and `GetFile`. `Crash`
  kills the process and runs the command again on what is left.
  `ReadyWait` and the loss of the client are those of `Link`.
* **SftpClient**: `spc` is the position of `Start`, `waiter` the goroutine that
  `waitForSshClient` leaves behind. An sftp client dies with the ssh client it
  was made on, or by itself.
* **RecursiveTransfer**: the tree is a sequence of depths in the order of the
  walk; one `GetFile` or `PutFile` is a wait, a start and an end. The walker of
  a download keeps the client it was made with, copies take the client of the
  moment.
* **SshServer**: two or more ssh connections, the requests of their clients,
  the listeners with their `checkAlive`, and the tcp connections. A connection
  is first lost for the client and later noticed by the server.
* **ServerLogin**: the process comes up step by step (read, generate or parse the
  key, look for authorized keys, listen), may be killed between any two and is
  started again. A source is a sequence of keys and `Junk` (a comment, an empty
  line): `ssh.ParseAuthorizedKey` skips junk before a key and fails on junk after
  the last one. `loadAuthorizedKeys` takes one step per source, while somebody
  edits them. The attempts between the callbacks are counted as x/crypto/ssh does.
* **ChannelSession**: the server's loop of requests against the clients of this
  repository. An answer carries no name: a client takes the next one for its own.
* **ClientConf**: `GetSshClientConf` over every `ProxyJump` relation on the hosts
  of ~/.ssh/config. A `Host` block has a jump host and an identity; the other
  fields are data.
* **Commands**: Init chooses a config file for `run` (each of sshclient, sshd,
  tunnels and proxies there or not, a client of its own or not) or one of the
  other commands. Parts wait in `ReadyWait`, then serve; a request to a proxy is
  dialled over the ssh client of that moment.

`MC*` modules instantiate these for TLC. Operators marked *Mutated* are wrong
variants of the definition that follows them; each property has one that breaks
it, and `PROJECT.json` lists which.

## What is model-checked

| run | instance | question |
|---|---|---|
| `connection` | 1 jump host, host checking on, any known_hosts, 2 stoppers, 2 users | Are wait group, status and host keys consistent in every interleaving (`SignalsAgree`, `TrustedChain`)? Is it a `Link` (`ImplementsLink`)? Are losses noticed, users released, and does a `Stop` of an established connection work (`LossIsNoticed`, `WaiterReleased`, `StopWhileUp`)? |
| `tunnel` | both directions, 2 clients with an address each, 1 drop, 1 failure of a far end | No listener outlives its loop (`ListenerScoped`), the client count is exact until `Stop` clears the map (`CountIsExact`), "kept up in the event of network issues" (`KeptUp`), `Stop` of a serving tunnel works (`StopWhileServing`) |
| `tunnel_stop` | 1 client, no failures | *violated* `StopEndsTunnel`: `Stop` between the wait for the link and the publication of the listener |
| `transfer` | get and put, 5 units in chunks of 2, 2 workers, 1 failure, 1 kill | Success means that everything from the resume offset on was written (`CompleteOnSuccess`), every chunk is reported once (`ProgressIsExact`), no send on a closed channel (`NoSendAfterClose`), every call returns (`Returns`) |
| `transfer_resume` | 4 units in chunks of 2, 2 workers, 1 kill | *violated* `ResumedIsWhole`: a resumed transfer reports success over a hole |
| `copy` | 2 units per peer, metrics on | Teardown exactly once and always (`ClosedTogether`, `TornDown`), no send on the closed channel (`NoSendOnClosed`), clean ends deliver everything (`CleanEndDelivers`) |
| `server` | 2 connections, 1 port (and port 0), 1 tcp connection, 1 cancel | Client and server agree on forwards (`ViewsAgree`), what a lost connection held is released (`PortsReleased`, `NoOrphans`), a reverse tunnel that reconnects gets its port back (`ForwardRecovers`) |
| `session_channel` | all clients, shell and sftp enabled or not, 2 units of output, 1 resize | Double answers never mislead a client (`ToldTheTruth`), terminal output is complete (`PtyOutputComplete`), requests are answered, clients end (`AnswersCome`, `CommandEnds`) |
| `recursive` | get and put, 3 files and 2 directories, 2 workers, 2 failures, 1 loss of a client | Directories first (`ParentsFirst`), nil means that what the walk reached was tried (`OkIsTried`), put never exits under a copy (`NothingCutOff`), both end (`CommandExits`), the sftp client is a `Link` (`SftpImplementsLink`) |
| `login` | 2 connections, 2 sources, keys a and b, 1 edit, 1 crash, with and without password | One identity over all restarts (`IdentityKept`), keys judged by what the sources say during the attempt (`NoStaleKey`), no source costs the keys of another (`OtherSourcesCount`), the password is within reach after refused keys (`PasswordIsReached`), sessions that end are no longer counted (`SessionsUncounted`) |
| `commands` | 2 hosts with any `ProxyJump`, every configuration of 1 tunnel, sshd and 2 proxies, 1 loss | The hops are those of ~/.ssh/config in the order they are dialled (`HopsFollowConfig`) and are found (`ResolutionEnds`), every part that is configured gets to serve (`PartsServe`), requests to the proxies are served although clients are lost (`RequestsServed`) |
| `dedicated` | the same, 1 host, no loss | *violated* `DedicatedClient`: the dns proxy is given the client of the socks proxy |

The type invariant is proved of `SshConnection`, `Tunnel`, `CopyConn`, `SshServer`,
`SftpClient`, `ClientConf` and `Commands`. The proofs of the other modules state the
types they need in their own invariant; there `TypeOK` is for the reader, and added
to the run's configuration as an invariant it holds.

Bounds. Two goroutines of a kind give every race between two of them; a race
that takes three of a kind would not be seen by TLC, and is excluded only for the
properties that are proved. One loss can meet every step, the recovery from a
failed dial included. Five units in chunks of two give three chunks for two
workers, a short last chunk and resume offsets inside a chunk, so that the pool's
channel fills up. One cancel lets a port be taken by the other connection and
asked for once more. One edit and one crash can each come at every step of a
login or a start; two sources are enough for one that fails before or after one
that counts. Two hosts give chains of every shape up to a circle of two, with
`MaxHops` 3 the length of the longest that ends. Deadlock is not checked because each of
these systems has states in which it has rightly ended.

Values of constants no run has: host checking off (`Insecure`), copying without
metrics, tunnels that are never stopped (each leaves steps out), and tunnel clients
that share an address, for which `CountIsExact` is not claimed.

### Fairness

* Goroutines that can run do run (weak fairness of each goroutine's step).
* A host that is dialled again and again answers in the end, with a key that is
  accepted or unknown; a listen or dial that is tried again and again succeeds
  (strong fairness of `ReachHost`, `DialFatal`, `ListenOk`, `DialOk`). The code
  retries for ever, with a pause, and "kept up" can only mean this. A host
  whose key has changed is refused for ever, and `WaiterReleased` exempts it.
* In `Tunnel` the link recovers, notices losses and announces itself, which is
  what `LossIsNoticed` and `WaiterReleased` show of `SshConnection`.
* In `SshServer` a lost connection is noticed, and the reverse tunnel asks again.
* In `RecursiveTransfer` and `SftpTransfer` the link recovers as in `Tunnel`, and
  `sftp.NewClient`, which `SftpClient.Start` calls again and again, succeeds in
  the end.
* In `ServerLogin` only the server's own goroutines are fair; clients may stay
  silent for ever, as the handshake has no time limit. A process that ended is
  started again, as a service is.
* In `Commands` a link recovers as in `Tunnel`, the user of a proxy asks again, and
  the far end does not refuse every dial or cut every reply in pieces.
* Nobody has to connect, log in, leave, cancel or call `Stop`; the network never
  has to fail; a command need not end.

## What is proved

`SshConnectionProofs`, for every number of jump hosts, stoppers and users, from
`ConnectionAssumption` (the number of jump hosts is a natural number, `Insecure`
a Boolean): `TypeCorrect`, `ReadyHasClientAlways`, `SignalsAgreeAlways`,
`TrustedChainAlways` and `Refinement` (`Spec => ImplementsLink`).
None of the properties is inductive by itself. The invariant `Inv` ties the
counter of the wait group, the client and the status each to the position of
`Start`, says that a user released by `Done` has seen a client even if it
has not run since, and that the hosts reached so far were each verified.
`StartInv` has one case per step of `Start`, `OthersInv` one per step of
the other goroutines and of the network. The refinement maps the gate to
"the counter is 0" and shows step by step that each action is an action of
`Link` or a stutter; it needs `Inv` for `Replace` (the old client is closed) and
`Retract` (the gate shuts only over a closed client).

`TunnelProofs`, for any number of clients, losses and failures:
`ListenerScopedAlways`, and `CountIsExactAlways` under the assumption
`OwnAddresses` that no two clients have the same remote address. The invariant
adds which connection is in the hands of `Start` at each position, and that
`clientsMap` holds exactly the registered connections under their addresses; the
count then follows because the map is a bijection on them.

The same module holds the proofs of `CopyConn`, for any amount of data:
`NoSendOnClosedAlways`, `ClosedTogetherAlways`, `CleanEndDeliversAlways` and
`CopyTypeCorrect`. For the teardown `TearInv` says that the `Once` is running
exactly while one copier is in `connClose`, that it is done only when both
connections are closed and `onClose` has run, that nobody passes it before, and
that the wait group counts the copiers that are not done. For the data `Flow` says
that what a peer sent is written, in the hands of the copier or still to be read,
with nothing missing until the copier meets an error; when it reads the end nothing
is left to read, and a clean end leaves all of it written.

`RecursiveTransferProofs` begins with `SftpClient`: `SftpRefinement`, an `SftpClient`
over a `Link` is a `Link`. The invariant says that `ReadyWait` lets callers through
exactly between `Done` and `Add`, that there is a client then, and that `Start` comes
back to its wait only over a closed client. With `Refinement` of
`SshConnectionProofs` this gives the transfers the same interface over the real
connection, and `ComposedImplementsLink` says that the client of a recursive
transfer keeps it, whatever the walk and the copies do. For every tree, pool and
number of workers there are then `ParentsFirstAlways`, `OkIsTriedAlways` and
`NothingCutOffAlways`. `Walk` says what the walk may still visit and that the
directories above it are made, `Counting` that the wait group counts the queued
files, the busy workers and the file being handed over, and `Accounted` that a file
that was reached is tried, queued or in the hands of a worker; when `Wait` returns
there is only the first.

`SftpTransferProofs`, for every file size, chunk size, number of workers, failures
and kills: `CompleteOnSuccessAlways` and `NoSendAfterCloseAlways`. The wait group
counts the queued jobs, the busy workers and the job that is being handed over
(`Counting`); every position handed over is right or in a chunk that is queued or
in the hands of a worker (`Handed`). When `Wait` returns there is no such chunk, so
everything is right and nobody is left to send. `ProgressIsExactAlways` rests on a
second invariant, `Told`: what was reported and what is still owed make up what was
handed over. The sum over the chunks is the size of a set of positions, so it also
says that no two chunks that are queued or in hand overlap.

`SshServerProofs`, for any sessions, ports and tcp connections: `TypeCorrect`,
`WatchedAlways` (every open listener has somebody to close it, the safety behind
`PortsReleased`) and `ViewsAgreeAlways`. For the latter `Views` says that a port
has at most one open listener, and that on a connection that is up a port has a
listener exactly if the client holds it or a request for it is under way;
each step has a lemma of its own.

`ServerLoginProofs`, for any sources, edits, clients and crashes:
`IdentityKeptAlways`, `NoStaleKeyAlways`, `OtherSourcesCountAlways`,
`PasswordIsReachedAlways` and `SessionsCountedAlways` (the counter is the number of
connections being served at every moment, the safety behind `SessionsUncounted`).
The invariant ties the key in memory to the one in the file at each position of the
start, what an attempt has loaded to the sources that listed the key during it (all
along, or at some moment), and the failures counted to the keys that were tried.

`ChannelSessionProofs`, for any amount of output and any number of environment
variables: `ToldTheTruthAlways` and `PtyOutputCompleteAlways`. The difficulty is the second
answer to pty-req and to shell, which the client may take for the answer to its next
request. `Answers` says that every positive answer on its way, or about to be sent,
speaks of something that was granted once the client has asked for what counts, and
`EnvPhase` that no answer to an env request is left over by then; `Command` that the
command has ended and its output is copied when the server closes the channel.

`CommandsProofs`, for every ~/.ssh/config, every configuration and any number of
tunnels and losses: `TypeCorrect`, `HopsFollowConfigAlways`, `StartedClientAlways`
(no part waits for an ssh client that nobody starts, the safety behind
`PartsServe`), `NoNilDialAlways` (a proxy dials over a client that is there) and
`OwnClientAlways` (every tunnel and the socks proxy use the sshclient section they
are given; the dns proxy alone does not, see below). `ConfInv` says that `jumpHost` is
the next name of the chain. The chain is a recursive function, so its defining
equation is a fact to be proved: `ChainExists` shows that such a function exists by
taking the least length for which there is none. `RunInv` says that the shared
client is started before what runs over it, that a gate opens over a client that is
there, and that what serves came through its gate.

So every safety invariant, action property and refinement that a passing run checks
is also a theorem. Only model-checked is liveness, which needs fairness and `ENABLED`
and is beyond the prover: for it the runs are the evidence, on their instances.
`StopEndsTunnel`, `ResumedIsWhole` and `DedicatedClient` are false, and TLC gives the
counterexample.

## Where code and comments disagree

* `tunnel_stop`: "Stop ends the tunnel" (`tunnel.go`). A `Start` that has passed
  its wait publishes a listener after `Stop` has looked for one, and serves on.
* `transfer_resume`: "Determine offset for resuming" (`sftp_client.go`). The size
  of a file written by several workers is no place to resume.
* `dedicated`: "use a dedicated ssh client. if nil use the global one"
  (`pkg/sshc/conf.go`, of the dns proxy). `run` makes that client from the section
  of the socks proxy, and panics if there is none.

The models also contain these behaviours, which no run is about: a `Stop` during
a connect is ignored while the new client lives; `Add(1)` can meet a waiter that
has not returned (a panic of the runtime); clients of jump hosts are never
closed; the far end dialled in advance may be dead when it is used; `onClose`
deletes by address; a byte count is dropped when nobody receives; `get -r`
returns nil although files failed or the walk lost its client; a window-change
after a declined pty-req dereferences nil; a key file left empty by a crash keeps
the server from starting, and one that cannot be read is replaced by a new key; a
source of authorized keys that ends in a comment or an empty line counts for
nothing; a circle of `ProxyJump` entries is followed for ever; `run` with nothing
but tunnels that have clients of their own exits; a dns reply that arrives in
pieces is passed on with zeros in the place of what is missing. `PROJECT.json`
lists them as hazards at their lines.

## Not modelled

* Text: the parser of ~/.ssh/config, addresses, flags, yaml, the contents of DNS
  and SOCKS messages, logging. `ClientConf` begins where the file is parsed.
* Cryptography: generation and encoding of keys, the ssh protocol below the
  callbacks. Authentication on the client's side is a choice of methods handed to
  x/crypto/ssh.
* The Windows terminal and service: calls of the Windows API.
* The registry beyond `Add` and `Delete`: `GetAll` has no caller outside the tests,
  and `GetByID` only `Delete`, so there is nobody to race with.
* `Pool.Stop`, which closes a channel that nobody sends on any more, and the values
  of the metrics sampler.
* The composition of `Tunnel` with `SshServer`: a reverse tunnel asks for its port,
  is lost and asks again as the client in `SshServer` does (`ForwardRecovers`), and
  the tunnel's own recovery over any `Link` is `KeptUp`; no module puts the two
  together.

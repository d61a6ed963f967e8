--------------------------- MODULE ChannelSession ----------------------------
(***************************************************************************)
(* One session channel: serveChannelSession and what it starts             *)
(* (pkg/sshd/channel_handler.go, pkg/rpty) against the clients of this     *)
(* repository, RemoteShell (pkg/sshc/remote_shell.go) on a terminal or     *)
(* not, and the sftp client.  Requests are served in order; an answer      *)
(* carries no name, the client takes the next one that arrives for the     *)
(* answer to the request it waits for.                                     *)
(***************************************************************************)
EXTENDS Naturals, Sequences

CONSTANTS Modes,        \* the clients: a subset of {"pty", "plain", "sftp"}
          Disabled,     \* the values of s.server.disableShell and disableSftpSubsystem
          NumEnv,       \* how many environment variables the client sends
          MaxOutput,    \* bound: how much the command writes, in abstract units
          MaxResizes    \* bound: how often the terminal's size is polled

ASSUME ChannelAssumption ==
  /\ Modes \subseteq {"pty", "plain", "sftp"}
  /\ Disabled \subseteq BOOLEAN
  /\ NumEnv \in Nat /\ MaxOutput \in Nat /\ MaxResizes \in Nat

VARIABLES
  mode,          \* what the client wants
  disabled,      \* the server has shells (and sftp) disabled
  cpc,           \* where the client is
  envs,          \* how many variables it has sent
  poller,        \* its terminal size poller: "off" or "on"
  resizes,
  inq,           \* the requests on their way, served or not
  replies,       \* the answers the client has not taken yet
  spc,           \* the server's loop: "range", "second" (the Reply at its end) or "returned"
  ok,            \* its variable ok
  pty,           \* "nil", "ready", or "closed"
  proc,          \* the command: "none", "running", "exited" or "missing" (did not start)
  chan,          \* the channel: "open", "closed" by the server, "left" by the client, or
                 \* "broken" off with its connection
  made, copied,  \* what the command has written, and what of it is in the channel
  status,        \* the exit-status sent: "none", "early" (before the exit) or "real"
  sftp,          \* handleSftpRequest: "none", "serving" or "done"
  halted         \* the server process: "no", "fatal" or "panic"

clientVars == <<mode, disabled, cpc, envs, poller, resizes>>
serverVars == <<inq, replies, spc, ok>>
procVars == <<pty, proc, chan, made, copied, status, sftp>>
vars == <<clientVars, serverVars, procVars, halted>>

Types == {"env", "pty-req", "window-change", "shell", "subsystem"}

TypeOK ==
  /\ mode \in Modes
  /\ disabled \in Disabled
  /\ cpc \in {"env", "envwait", "pty", "ptywait", "start", "startwait", "running", "done", "fatal"}
  /\ envs \in 0 .. NumEnv
  /\ poller \in {"off", "on"}
  /\ resizes \in 0 .. MaxResizes
  /\ inq \in Seq(Types)
  /\ replies \in Seq(BOOLEAN) /\ Len(replies) <= 3
  /\ spc \in {"range", "second", "returned"}
  /\ ok \in BOOLEAN
  /\ pty \in {"nil", "ready", "closed"}
  /\ proc \in {"none", "running", "exited", "missing"}
  /\ chan \in {"open", "closed", "left", "broken"}
  /\ made \in 0 .. MaxOutput /\ copied \in 0 .. made
  /\ status \in {"none", "early", "real"}
  /\ sftp \in {"none", "serving", "done"}
  /\ halted \in {"no", "fatal", "panic"}

\* The channel is accepted.
Init ==
  /\ mode \in Modes /\ disabled \in Disabled
  /\ cpc = IF mode = "sftp" THEN "start" ELSE "env"
  /\ envs = 0 /\ poller = "off" /\ resizes = 0
  /\ inq = <<>> /\ replies = <<>> /\ spc = "range" /\ ok = FALSE
  /\ pty = "nil" /\ proc = "none" /\ chan = "open"
  /\ made = 0 /\ copied = 0 /\ status = "none" /\ sftp = "none"
  /\ halted = "no"

------------------------------------------------------------------------------
(* The client: RemoteShell.Start, or sftp.NewClient *)

Connected == chan = "open"

Send(from, to, type) ==
  /\ halted = "no" /\ Connected
  /\ cpc = from /\ cpc' = to
  /\ inq' = Append(inq, type)
  /\ UNCHANGED <<mode, disabled, resizes, replies, spc, ok, procVars, halted>>

\* Setenv waits for its answer, whatever it is.
SendEnv ==
  /\ envs < NumEnv
  /\ Send("env", "envwait", "env")
  /\ envs' = envs + 1
  /\ UNCHANGED poller

\* The poller runs before the terminal is asked for.
StartPoller ==
  /\ halted = "no" /\ cpc = "env" /\ envs = NumEnv
  /\ cpc' = IF mode = "pty" THEN "pty" ELSE "start"
  /\ poller' = IF mode = "pty" THEN "on" ELSE "off"
  /\ UNCHANGED <<mode, disabled, envs, resizes, serverVars, procVars, halted>>

\* time.After(100 * time.Millisecond): session.WindowChange, with no answer.
PollSize ==
  /\ halted = "no" /\ poller = "on" /\ Connected
  /\ resizes < MaxResizes /\ resizes' = resizes + 1
  /\ inq' = Append(inq, "window-change")
  /\ UNCHANGED <<mode, disabled, cpc, envs, poller, replies, spc, ok, procVars, halted>>

RequestPty == Send("pty", "ptywait", "pty-req") /\ UNCHANGED <<envs, poller>>

\* session.Shell or session.Run, or the sftp subsystem.
RequestStart ==
  /\ Send("start", "startwait", IF mode = "sftp" THEN "subsystem" ELSE "shell")
  /\ UNCHANGED <<envs, poller>>
\* An answer that was waiting when the channel was closed is still taken.
\* log.Fatalf ends a client that is refused, and with it the connection.
TakeReply ==
  /\ halted = "no" /\ replies # <<>>
  /\ replies' = Tail(replies)
  /\ \/ cpc = "envwait" /\ cpc' = "env" /\ UNCHANGED chan
     \/ Head(replies) /\ cpc = "ptywait" /\ cpc' = "start" /\ UNCHANGED chan
     \/ Head(replies) /\ cpc = "startwait" /\ cpc' = "running" /\ UNCHANGED chan
     \/ /\ ~Head(replies) /\ cpc \in {"ptywait", "startwait"} /\ cpc' = "fatal"
        /\ chan' = IF Connected THEN "broken" ELSE chan
  /\ UNCHANGED <<mode, disabled, envs, poller, resizes, inq, spc, ok, pty, proc, made, copied,
                 status, sftp, halted>>

\* The channel is gone: SendRequest fails, or session.Wait returns.
ClientEnds ==
  /\ halted = "no" /\ ~Connected /\ cpc \notin {"done", "fatal"}
  /\ cpc \in {"envwait", "ptywait", "startwait"} => replies = <<>>
  /\ cpc' = IF cpc = "running" THEN "done" ELSE "fatal"
  /\ UNCHANGED <<mode, disabled, envs, poller, resizes, serverVars, procVars, halted>>

\* The user quits the client, or its connection fails at any point.
ClientQuits ==
  /\ halted = "no" /\ Connected
  /\ \/ cpc = "running" /\ chan' = "left"
     \/ chan' = "broken"
  /\ UNCHANGED <<clientVars, serverVars, pty, proc, made, copied, status, sftp, halted>>

------------------------------------------------------------------------------
(* serveChannelSession *)

Serve(type) ==
  /\ halted = "no" /\ spc = "range"
  /\ inq # <<>> /\ Head(inq) = type
  /\ inq' = Tail(inq)

\* The Reply at the end of the loop; before it, some handlers have replied.
Second(b) == spc' = "second" /\ ok' = b

\* Mutated: the answer is given where the variable is set, too.
HandleEnvTwice ==
  /\ Serve("env") /\ Second(TRUE)
  /\ replies' = Append(replies, TRUE)
  /\ UNCHANGED <<clientVars, procVars, halted>>

HandleEnv ==
  /\ Serve("env") /\ Second(TRUE)
  /\ UNCHANGED <<clientVars, replies, procVars, halted>>

HandleWindowChange ==
  /\ Serve("window-change")
  /\ halted' = IF pty = "nil" THEN "panic" ELSE "no"
  /\ UNCHANGED <<clientVars, replies, spc, ok, procVars>>

\* handlePtyRequest declines or allocates the terminal; it replies itself.
HandlePtyReq ==
  /\ Serve("pty-req") /\ Second(~disabled)
  /\ replies' = Append(replies, ~disabled)
  /\ pty' = IF disabled THEN "nil" ELSE "ready"
  /\ UNCHANGED <<clientVars, proc, chan, made, copied, status, sftp, halted>>

\* rpty.New fails: the loop returns, without an answer.
PtyFails ==
  /\ Serve("pty-req") /\ ~disabled
  /\ spc' = "returned"
  /\ UNCHANGED <<clientVars, replies, ok, procVars, halted>>

\* handleShellExecRequest declines, or starts the command.  On a terminal the
\* exit-status is sent at once; otherwise when the command has ended.
HandleShell ==
  /\ Serve("shell") /\ Second(~disabled)
  /\ replies' = Append(replies, ~disabled)
  /\ proc' = IF disabled THEN "none" ELSE "running"
  /\ status' = IF ~disabled /\ pty = "ready" THEN "early" ELSE "none"
  /\ UNCHANGED <<clientVars, pty, chan, made, copied, sftp, halted>>

\* The command cannot be started: log.Fatalf on a terminal, else only a log.
ShellMissing ==
  /\ Serve("shell") /\ ~disabled
  /\ IF pty = "ready"
     THEN halted' = "fatal" /\ UNCHANGED <<replies, spc, ok, proc>>
     ELSE /\ Second(TRUE) /\ replies' = Append(replies, TRUE)
          /\ proc' = "missing" /\ UNCHANGED halted
  /\ UNCHANGED <<clientVars, pty, chan, made, copied, status, sftp>>

HandleSubsystem ==
  /\ Serve("subsystem") /\ Second(~disabled)
  /\ sftp' = IF disabled THEN "none" ELSE "serving"
  /\ UNCHANGED <<clientVars, replies, pty, proc, chan, made, copied, status, halted>>

\* Mutated: the handlers are trusted to have replied.
SecondNoReply ==
  /\ halted = "no" /\ spc = "second" /\ spc' = "range"
  /\ UNCHANGED <<clientVars, inq, replies, ok, procVars, halted>>

SecondReply ==
  /\ halted = "no" /\ spc = "second" /\ spc' = "range"
  /\ replies' = Append(replies, ok)
  /\ UNCHANGED <<clientVars, inq, ok, procVars, halted>>

RequestsEnd ==
  /\ halted = "no" /\ spc = "range" /\ inq = <<>> /\ ~Connected
  /\ spc' = "returned"
  /\ UNCHANGED <<clientVars, inq, replies, ok, procVars, halted>>

------------------------------------------------------------------------------
(* The command, the goroutines that copy its output, and sftp *)

ProcStep == halted = "no" /\ UNCHANGED <<clientVars, serverVars, sftp>>

ProcWrites ==
  /\ ProcStep /\ proc = "running"
  /\ made < MaxOutput /\ made' = made + 1
  /\ UNCHANGED <<pty, proc, chan, copied, status, halted>>

ProcExits ==
  /\ ProcStep /\ proc = "running" /\ proc' = "exited"
  /\ UNCHANGED <<pty, chan, made, copied, status, halted>>

\* pty.WriteTo, or the goroutine of os/exec that copies the pipe.
CopyOutput ==
  /\ ProcStep /\ copied < made /\ Connected
  /\ copied' = copied + 1
  /\ UNCHANGED <<pty, proc, chan, made, status, halted>>

\* Mutated: the session is closed when the command exits.
PtyOutputCut ==
  /\ ProcStep /\ pty = "ready" /\ proc = "exited"
  /\ chan' = IF Connected THEN "closed" ELSE chan
  /\ pty' = "closed"
  /\ UNCHANGED <<proc, made, copied, status, halted>>

\* pty.WriteTo returns at the end of the output; once.Do(close).
PtyOutputEnds ==
  /\ ProcStep /\ pty = "ready" /\ proc = "exited"
  /\ copied = made \/ ~Connected
  /\ chan' = IF Connected THEN "closed" ELSE chan
  /\ pty' = "closed"
  /\ UNCHANGED <<proc, made, copied, status, halted>>

\* pty.ReadFrom returns when the channel is gone: close() kills the command.
PtyInputEnds ==
  /\ ProcStep /\ pty = "ready" /\ proc = "running" /\ ~Connected
  /\ proc' = "exited" /\ pty' = "closed"
  /\ UNCHANGED <<chan, made, copied, status, halted>>

\* cmd.Process.Wait() of a command without a terminal, then sendStatus.  It
\* does not wait for the copy of the output.
SendStatus ==
  /\ ProcStep /\ pty = "nil" /\ proc = "exited" /\ status = "none"
  /\ status' = "real"
  /\ UNCHANGED <<pty, proc, chan, made, copied, halted>>

\* cmd.Process is nil.
WaitMissing ==
  /\ ProcStep /\ proc = "missing" /\ halted' = "panic"
  /\ UNCHANGED <<pty, proc, chan, made, copied, status>>

\* Mutated: the channel is not closed.
CloseChannelNot ==
  /\ ProcStep /\ status = "real" /\ Connected
  /\ UNCHANGED <<pty, proc, chan, made, copied, status, halted>>

CloseChannel ==
  /\ ProcStep /\ status = "real" /\ Connected
  /\ chan' = "closed"
  /\ UNCHANGED <<pty, proc, made, copied, status, halted>>

\* server.Serve returns; log.Fatal unless the stream ended between packets.
SftpEnds ==
  /\ halted = "no" /\ sftp = "serving" /\ ~Connected
  /\ sftp' = "done"
  /\ halted' \in (IF chan = "broken" THEN {"no", "fatal"} ELSE {"no"})
  /\ UNCHANGED <<clientVars, serverVars, pty, proc, chan, made, copied, status>>

------------------------------------------------------------------------------
ClientStep ==
  SendEnv \/ StartPoller \/ RequestPty \/ RequestStart \/ TakeReply \/ ClientEnds

ServerStep ==
  \/ HandleEnv \/ HandleWindowChange \/ HandlePtyReq \/ PtyFails \/ HandleShell \/ ShellMissing
  \/ HandleSubsystem \/ SecondReply \/ RequestsEnd

PtyStep == PtyOutputEnds \/ PtyInputEnds
PlainStep == SendStatus \/ WaitMissing \/ CloseChannel

Next ==
  \/ ClientStep \/ PollSize \/ ClientQuits
  \/ ServerStep
  \/ ProcWrites \/ ProcExits \/ CopyOutput \/ PtyStep \/ PlainStep \/ SftpEnds

Spec == Init /\ [][Next]_vars

\* Goroutines are scheduled.  The command need not end, nor the client quit.
Fairness ==
  /\ WF_vars(ClientStep) /\ WF_vars(ServerStep)
  /\ WF_vars(CopyOutput) /\ WF_vars(PtyStep) /\ WF_vars(PlainStep) /\ WF_vars(SftpEnds)

FairSpec == Spec /\ Fairness

------------------------------------------------------------------------------
(* Safety *)

\* "Responding 'ok' here will let the client know we have a pty ready": a
\* client that went on past its pty-req has one, and a client that went on
\* past its shell or subsystem request talks to a server that has not
\* declined it, although some requests are answered twice and the client may
\* take the second answer to one for the answer to the next.
ToldTheTruth ==
  /\ mode = "pty" /\ cpc \in {"start", "startwait", "running"} => pty # "nil"
  /\ cpc = "running" => ~disabled

\* On a terminal the server closes the channel only after all the output of
\* the command is in it.
PtyOutputComplete == mode = "pty" /\ chan = "closed" => copied = made

(* Liveness *)

\* A request of the client is answered, or the channel ends, unless the
\* server could not allocate a terminal.
AnswersCome ==
  cpc \in {"envwait", "ptywait", "startwait"}
    ~> (cpc \in {"env", "start", "running", "done", "fatal"} \/ spc = "returned" \/ halted # "no")

\* When the command has ended so does the client.
CommandEnds == proc = "exited" ~> (cpc \in {"done", "fatal"} \/ halted # "no")
==============================================================================

------------------------ MODULE ChannelSessionProofs -------------------------
(***************************************************************************)
(* The safety of ChannelSession: whatever the client sends of environment  *)
(* and window changes, and whenever the connection breaks.                 *)
(***************************************************************************)
EXTENDS ChannelSession, SequenceTheorems, TLAPS

------------------------------------------------------------------------------
(* Queues of requests *)

\* Request t is in queue q.
Has(q, t) == \E i \in 1 .. Len(q) : q[i] = t

\* It is there once at most.
AtMostOne(q, t) == \A i, j \in 1 .. Len(q) : q[i] = t /\ q[j] = t => i = j

\* A request that is sent joins those in the queue.
LEMMA AppendHas ==
  ASSUME NEW q \in Seq(Types), NEW u \in Types
  PROVE  /\ Append(q, u) \in Seq(Types)
         /\ \A t : Has(Append(q, u), t) <=> Has(q, t) \/ t = u
         /\ \A t : AtMostOne(q, t) /\ (t = u => ~Has(q, t)) => AtMostOne(Append(q, u), t)
<1> DEFINE a == Append(q, u)
<1>1. /\ a \in Seq(Types) /\ Len(q) \in Nat /\ Len(a) = Len(q) + 1
      /\ \A i \in 1 .. Len(q) : a[i] = q[i]
      /\ a[Len(q) + 1] = u
  BY AppendProperties, LenProperties
<1> HIDE DEF a
<1>2. /\ \A i \in 1 .. Len(a) : i \in 1 .. Len(q) \/ i = Len(q) + 1
      /\ \A i \in 1 .. Len(q) : i \in 1 .. Len(a)
      /\ Len(q) + 1 \in 1 .. Len(a)
  BY <1>1
<1>3. \A t : Has(a, t) <=> Has(q, t) \/ t = u
  BY <1>1, <1>2 DEF Has
<1>4. \A t : AtMostOne(q, t) /\ (t = u => ~Has(q, t)) => AtMostOne(a, t)
  BY <1>1, <1>2 DEF Has, AtMostOne
<1>5. QED
  BY <1>1, <1>3, <1>4 DEF a

\* A request that is served leaves it.
LEMMA TailHas ==
  ASSUME NEW q \in Seq(Types), q # <<>>
  PROVE  /\ Tail(q) \in Seq(Types) /\ Head(q) \in Types /\ Has(q, Head(q))
         /\ \A t : Has(Tail(q), t) => Has(q, t)
         /\ \A t : AtMostOne(q, t) => AtMostOne(Tail(q), t)
         /\ AtMostOne(q, Head(q)) => ~Has(Tail(q), Head(q))
<1> DEFINE a == Tail(q)
<1>1. /\ a \in Seq(Types) /\ Len(q) \in Nat /\ Len(q) # 0 /\ Len(a) = Len(q) - 1
      /\ \A i \in 1 .. Len(a) : a[i] = q[i + 1]
      /\ Head(q) = q[1] /\ Head(q) \in Types
  BY HeadTailProperties, LenProperties, EmptySeq
<1> HIDE DEF a
<1>2. /\ 1 \in 1 .. Len(q)
      /\ \A i \in 1 .. Len(a) : i + 1 \in 1 .. Len(q) /\ i + 1 # 1
      /\ \A i, j \in 1 .. Len(a) : i + 1 = j + 1 => i = j
  BY <1>1
<1>3. Has(q, Head(q)) /\ \A t : Has(a, t) => Has(q, t)
  BY <1>1, <1>2 DEF Has
<1>4. ASSUME NEW t, AtMostOne(q, t) PROVE AtMostOne(a, t)
  BY <1>1, <1>2, <1>4 DEF AtMostOne
<1>5. AtMostOne(q, Head(q)) => ~Has(a, Head(q))
  BY <1>1, <1>2 DEF Has, AtMostOne
<1>6. QED
  BY <1>1, <1>3, <1>4, <1>5 DEF a

\* An empty queue has nothing, a queue of one has that.
LEMMA SmallHas ==
  /\ \A t : ~Has(<<>>, t) /\ AtMostOne(<<>>, t)
  /\ \A u, t : Has(<<u>>, t) <=> t = u
  BY DEF Has, AtMostOne

------------------------------------------------------------------------------
(* The invariant *)

Shapes ==
  /\ mode \in {"pty", "plain", "sftp"}
  /\ disabled \in BOOLEAN
  /\ cpc \in {"env", "envwait", "pty", "ptywait", "start", "startwait", "running", "done", "fatal"}
  /\ poller \in {"off", "on"}
  /\ inq \in Seq(Types)
  /\ replies \in Seq(BOOLEAN)
  /\ spc \in {"range", "second", "returned"}
  /\ ok \in BOOLEAN
  /\ pty \in {"nil", "ready", "closed"}
  /\ proc \in {"none", "running", "exited", "missing"}
  /\ chan \in {"open", "closed", "left", "broken"}
  /\ made \in Nat /\ copied \in Nat
  /\ status \in {"none", "early", "real"}

\* What a client may conclude from an answer that is TRUE.
Granted == ~disabled /\ (mode = "pty" => pty # "nil")

\* The server owes the client no answer and has none to give.
Silent == replies = <<>> /\ spc # "second"

\* Setenv, the only request whose answer says nothing: the client goes on from
\* it with no answer left over.
EnvPhase ==
  /\ cpc \in {"env", "envwait"} => poller = "off"
  /\ cpc = "env" => inq = <<>> /\ Silent
  /\ cpc = "envwait" => \/ inq = <<"env">> /\ Silent
                        \/ inq = <<>> /\ replies = <<>> /\ spc = "second"
                        \/ inq = <<>> /\ Len(replies) = 1 /\ spc # "second"

\* The first request whose answer counts is still to be sent.
BeforeAsking == cpc = "pty" \/ (cpc = "start" /\ mode # "pty")

\* It has been sent.
Asked == cpc \in {"ptywait", "startwait", "running"} \/ (cpc = "start" /\ mode = "pty")

\* From then on no answer, first or second, says more than was granted.
Answers ==
  /\ cpc \in {"pty", "ptywait"} => mode = "pty"
  /\ BeforeAsking => Silent /\ \A t \in Types : Has(inq, t) => t = "window-change"
  /\ Asked => /\ ~Has(inq, "env")
              /\ \A i \in 1 .. Len(replies) : replies[i] => Granted
              /\ spc = "second" /\ ok => Granted

\* The terminal: it is there before the shell is asked for on it.
Terminal ==
  /\ disabled => pty = "nil"
  /\ Has(inq, "pty-req") => mode = "pty"
  /\ Has(inq, "subsystem") => mode = "sftp"
  /\ Has(inq, "shell") /\ mode = "pty" => pty # "nil"

\* The command is started once, on the terminal if there is one, and it has
\* ended and its output is copied when the server closes the channel.
Command ==
  /\ cpc \in {"env", "envwait", "pty", "ptywait", "start"} => proc = "none" /\ ~Has(inq, "shell")
  /\ AtMostOne(inq, "shell")
  /\ proc # "none" => ~Has(inq, "shell")
  /\ mode = "pty" /\ proc # "none" => pty # "nil"
  /\ mode = "pty" => status # "real"
  /\ mode = "pty" /\ chan = "closed" => proc = "exited" /\ copied = made

\* The inductive invariant.
Inv == Shapes /\ EnvPhase /\ Answers /\ Terminal /\ Command /\ ToldTheTruth

\* It holds when the channel is accepted.
LEMMA InitInv == Init => Inv
<1> SUFFICES ASSUME Init PROVE Inv
  OBVIOUS
<1>1. \A t : ~Has(inq, t) /\ AtMostOne(inq, t)
  BY SmallHas DEF Init
<1>2. Shapes
  <2>1. disabled \in BOOLEAN /\ ok \in BOOLEAN
    BY Zenon, ChannelAssumption DEF Init
  <2>2. QED
    BY <2>1, ChannelAssumption DEF Init, Shapes
<1>3. EnvPhase /\ Answers
  BY <1>1 DEF Init, EnvPhase, Answers, Silent, BeforeAsking, Asked
<1>4. Terminal /\ Command
  BY <1>1 DEF Init, Terminal, Command
<1>5. ToldTheTruth
  BY ChannelAssumption DEF Init, ToldTheTruth
<1>6. QED
  BY <1>2, <1>3, <1>4, <1>5 DEF Inv

------------------------------------------------------------------------------
(* The client *)

\* A request the client sends is in the queue, the others are as before.
LEMMA SendFacts ==
  ASSUME Inv, NEW from, NEW to, NEW type \in Types, Send(from, to, type)
  PROVE  /\ cpc = from /\ cpc' = to /\ inq' = Append(inq, type) /\ inq' \in Seq(Types)
         /\ \A t : Has(inq', t) <=> Has(inq, t) \/ t = type
         /\ (type = "shell" => ~Has(inq, "shell")) => AtMostOne(inq', "shell")
         /\ UNCHANGED <<mode, disabled, replies, spc, ok, pty, proc, chan, made, copied, status>>
<1>1. inq \in Seq(Types) /\ AtMostOne(inq, "shell")
  BY DEF Inv, Shapes, Command
<1>2. /\ cpc = from /\ cpc' = to /\ inq' = Append(inq, type)
      /\ UNCHANGED <<mode, disabled, replies, spc, ok, pty, proc, chan, made, copied, status>>
  BY DEF Send, procVars
<1>3. QED
  BY <1>1, <1>2, AppendHas

\* Setenv.
LEMMA SendEnvInv == ASSUME Inv, SendEnv PROVE Inv'
<1>1. "env" \in Types
  BY DEF Types
<1>2. /\ cpc = "env" /\ cpc' = "envwait" /\ inq' = Append(inq, "env") /\ inq' \in Seq(Types)
      /\ \A t : Has(inq', t) <=> Has(inq, t) \/ t = "env"
      /\ AtMostOne(inq', "shell")
      /\ UNCHANGED <<mode, disabled, replies, spc, ok, pty, proc, chan, made, copied, status, poller>>
  BY <1>1, SendFacts DEF SendEnv
<1>3. Shapes'
  BY <1>2 DEF Inv, Shapes
<1>4. inq' = <<"env">> /\ Silent' /\ poller' = "off"
  BY <1>2 DEF Inv, EnvPhase, Silent
<1>5. EnvPhase' /\ Answers' /\ ToldTheTruth'
  BY <1>2, <1>4 DEF EnvPhase, Answers, BeforeAsking, Asked, ToldTheTruth
<1>6. Terminal'
  BY <1>2 DEF Inv, Terminal
<1>7. Command'
  BY <1>2 DEF Inv, Command
<1>8. QED
  BY <1>3, <1>5, <1>6, <1>7 DEF Inv

\* RequestPty: nothing is owed when it is sent.
LEMMA RequestPtyInv == ASSUME Inv, RequestPty PROVE Inv'
<1>1. "pty-req" \in Types
  BY DEF Types
<1>2. /\ cpc = "pty" /\ cpc' = "ptywait" /\ inq' \in Seq(Types)
      /\ \A t : Has(inq', t) <=> Has(inq, t) \/ t = "pty-req"
      /\ AtMostOne(inq', "shell")
      /\ UNCHANGED <<mode, disabled, replies, spc, ok, pty, proc, chan, made, copied, status, poller>>
  BY <1>1, SendFacts DEF RequestPty
<1>3. Shapes'
  BY <1>2 DEF Inv, Shapes
<1>4. mode = "pty" /\ Silent /\ ~Has(inq, "env")
  BY <1>2 DEF Inv, Answers, BeforeAsking, Types
<1>5. EnvPhase' /\ Answers' /\ ToldTheTruth'
  BY <1>2, <1>4 DEF EnvPhase, Answers, Silent, BeforeAsking, Asked, ToldTheTruth
<1>6. Terminal'
  BY <1>2, <1>4 DEF Inv, Terminal
<1>7. Command'
  BY <1>2 DEF Inv, Command
<1>8. QED
  BY <1>3, <1>5, <1>6, <1>7 DEF Inv

\* Shell or Run, or the sftp subsystem: on a terminal there is one by now.
LEMMA RequestStartInv == ASSUME Inv, RequestStart PROVE Inv'
<1> DEFINE type == IF mode = "sftp" THEN "subsystem" ELSE "shell"
<1>1. type \in Types /\ Send("start", "startwait", type) /\ UNCHANGED poller
  BY DEF RequestStart, Types
<1>2. cpc = "start" /\ proc = "none" /\ ~Has(inq, "shell")
  BY <1>1 DEF Send, Inv, Command
<1>3. /\ cpc' = "startwait" /\ inq' \in Seq(Types)
      /\ \A t : Has(inq', t) <=> Has(inq, t) \/ t = type
      /\ AtMostOne(inq', "shell")
      /\ UNCHANGED <<mode, disabled, replies, spc, ok, pty, proc, chan, made, copied, status, poller>>
  BY <1>1, <1>2, SendFacts
<1>4. Shapes'
  BY <1>3 DEF Inv, Shapes
<1>5. mode = "pty" => pty # "nil"
  BY <1>2 DEF Inv, ToldTheTruth
<1>6. /\ ~Has(inq, "env")
      /\ \A i \in 1 .. Len(replies) : replies[i] => Granted
      /\ spc = "second" /\ ok => Granted
  BY <1>2 DEF Inv, Answers, BeforeAsking, Asked, Silent, Types
<1>7. Granted' <=> Granted
  BY <1>3 DEF Granted
<1>8. EnvPhase' /\ Answers'
  BY <1>3, <1>6, <1>7 DEF EnvPhase, Answers, BeforeAsking, Asked
<1>9. Terminal' /\ ToldTheTruth'
  BY <1>3, <1>5 DEF Inv, Terminal, ToldTheTruth
<1>10. Command'
  BY <1>2, <1>3 DEF Inv, Command
<1>11. QED
  BY <1>4, <1>8, <1>9, <1>10 DEF Inv

\* The poller, which sends no request that is answered, and the ends.
LEMMA PollerInv == ASSUME Inv, StartPoller \/ PollSize PROVE Inv'
<1>1. UNCHANGED <<mode, disabled, replies, spc, ok, pty, proc, chan, made, copied, status>>
  BY DEF StartPoller, PollSize, serverVars, procVars
<1>2. Granted' <=> Granted
  BY <1>1 DEF Granted
<1>3. CASE StartPoller
  <2>1. /\ cpc = "env" /\ cpc' = (IF mode = "pty" THEN "pty" ELSE "start")
        /\ poller' \in {"off", "on"} /\ UNCHANGED inq
    BY <1>3 DEF StartPoller, serverVars
  <2>2. inq = <<>> /\ Silent /\ \A t : ~Has(inq, t)
    BY <2>1, SmallHas DEF Inv, EnvPhase
  <2>3. Shapes'
    BY <1>1, <2>1 DEF Inv, Shapes
  <2>4. EnvPhase' /\ Answers' /\ ToldTheTruth'
    BY <1>1, <2>1, <2>2 DEF EnvPhase, Answers, Silent, BeforeAsking, Asked, ToldTheTruth
  <2>5. Terminal' /\ Command'
    BY <1>1, <2>1 DEF Inv, Terminal, Command
  <2>6. QED
    BY <2>3, <2>4, <2>5 DEF Inv
<1>4. CASE PollSize
  <2>1. inq \in Seq(Types) /\ AtMostOne(inq, "shell") /\ "window-change" \in Types
    BY DEF Inv, Shapes, Command, Types
  <2>2. inq' = Append(inq, "window-change") /\ poller = "on" /\ UNCHANGED <<cpc, poller>>
    BY <1>4 DEF PollSize
  <2>3. /\ inq' \in Seq(Types) /\ AtMostOne(inq', "shell")
        /\ \A t : Has(inq', t) <=> Has(inq, t) \/ t = "window-change"
    BY <2>1, <2>2, AppendHas
  <2>4. Shapes'
    BY <1>1, <2>2, <2>3 DEF Inv, Shapes
  <2>5. EnvPhase'
    BY <2>2 DEF Inv, EnvPhase
  <2>6. Answers'
    BY <1>1, <1>2, <2>2, <2>3 DEF Inv, Answers, Silent, BeforeAsking, Asked
  <2>7. Terminal' /\ ToldTheTruth'
    BY <1>1, <2>2, <2>3 DEF Inv, Terminal, ToldTheTruth
  <2>8. Command'
    BY <1>1, <2>2, <2>3 DEF Inv, Command
  <2>9. QED
    BY <2>4, <2>5, <2>6, <2>7, <2>8 DEF Inv
<1>5. QED
  BY <1>3, <1>4

\* A client that ends or quits concludes nothing.
LEMMA ClientLeavesInv == ASSUME Inv, ClientEnds \/ ClientQuits PROVE Inv'
<1>1. /\ UNCHANGED <<mode, disabled, poller, inq, replies, spc, ok, pty, proc, made, copied, status>>
      /\ cpc' \in {cpc, "done", "fatal"}
      /\ chan' = chan \/ chan' \in {"left", "broken"}
  BY DEF ClientEnds, ClientQuits, clientVars, serverVars, procVars
<1>2. Granted' <=> Granted
  BY <1>1 DEF Granted
<1>3. Shapes'
  BY <1>1 DEF Inv, Shapes
<1>4. EnvPhase'
  BY <1>1 DEF Inv, EnvPhase, Silent
<1>5. Answers'
  BY <1>1, <1>2 DEF Inv, Answers, Silent, BeforeAsking, Asked
<1>6. Terminal' /\ ToldTheTruth'
  BY <1>1 DEF Inv, Terminal, ToldTheTruth
<1>7. Command'
  BY <1>1 DEF Inv, Command
<1>8. QED
  BY <1>3, <1>4, <1>5, <1>6, <1>7 DEF Inv

------------------------------------------------------------------------------
(* Answers *)

\* What every answer in the queue and the one that joins it imply, all do.
LEMMA AppendReply ==
  ASSUME NEW q \in Seq(BOOLEAN), NEW b \in BOOLEAN
  PROVE  /\ Append(q, b) \in Seq(BOOLEAN) /\ Len(Append(q, b)) = Len(q) + 1
         /\ \A G \in BOOLEAN :
              (\A i \in 1 .. Len(q) : q[i] => G) /\ (b => G)
                => \A i \in 1 .. Len(Append(q, b)) : Append(q, b)[i] => G
<1> DEFINE a == Append(q, b)
<1>1. /\ a \in Seq(BOOLEAN) /\ Len(q) \in Nat /\ Len(a) = Len(q) + 1
      /\ \A i \in 1 .. Len(q) : a[i] = q[i]
      /\ a[Len(q) + 1] = b
  BY AppendProperties, LenProperties
<1> HIDE DEF a
<1>2. \A i \in 1 .. Len(a) : i \in 1 .. Len(q) \/ i = Len(q) + 1
  BY <1>1
<1>3. ASSUME NEW G \in BOOLEAN, \A i \in 1 .. Len(q) : q[i] => G, b => G,
             NEW i \in 1 .. Len(a)
      PROVE  a[i] => G
  BY Zenon, <1>1, <1>2, <1>3
<1>4. QED
  BY Zenon, <1>1, <1>3 DEF a

\* The answer that is taken was in the queue, and so are those that remain.
LEMMA TailReply ==
  ASSUME NEW q \in Seq(BOOLEAN), q # <<>>
  PROVE  /\ Tail(q) \in Seq(BOOLEAN)
         /\ Len(q) = 1 => Tail(q) = <<>>
         /\ \A G \in BOOLEAN :
              (\A i \in 1 .. Len(q) : q[i] => G)
                => (Head(q) => G) /\ \A i \in 1 .. Len(Tail(q)) : Tail(q)[i] => G
<1> DEFINE a == Tail(q)
<1>1. /\ a \in Seq(BOOLEAN) /\ Len(q) \in Nat /\ Len(q) # 0 /\ Len(a) = Len(q) - 1
      /\ \A i \in 1 .. Len(a) : a[i] = q[i + 1]
      /\ Head(q) = q[1]
  BY HeadTailProperties, LenProperties, EmptySeq
<1> HIDE DEF a
<1>2. Len(q) = 1 => a = <<>>
  BY <1>1, EmptySeq
<1>3. 1 \in 1 .. Len(q) /\ \A i \in 1 .. Len(a) : i + 1 \in 1 .. Len(q)
  BY <1>1
<1>4. ASSUME NEW G \in BOOLEAN, \A i \in 1 .. Len(q) : q[i] => G
      PROVE  (Head(q) => G) /\ \A i \in 1 .. Len(a) : a[i] => G
  BY Zenon, <1>1, <1>3, <1>4
<1>5. QED
  BY Zenon, <1>1, <1>2, <1>4 DEF a

\* The client takes an answer for the one it waits for: the only one there is
\* to Setenv, and later one that says no more than was granted.
LEMMA TakeReplyInv == ASSUME Inv, TakeReply PROVE Inv'
<1>1. /\ replies # <<>> /\ replies' = Tail(replies)
      /\ UNCHANGED <<mode, disabled, poller, inq, spc, ok, pty, proc, made, copied, status>>
      /\ chan' = chan \/ chan' = "broken"
  BY DEF TakeReply
<1>2. replies \in Seq(BOOLEAN)
  BY DEF Inv, Shapes
<1>3. Granted \in BOOLEAN /\ (Granted' <=> Granted)
  BY <1>1 DEF Granted
<1>4. replies' \in Seq(BOOLEAN) /\ (Len(replies) = 1 => replies' = <<>>)
  BY <1>1, <1>2, TailReply
<1>5. Asked => (Head(replies) => Granted) /\ \A i \in 1 .. Len(replies') : replies'[i] => Granted
  <2>1. Asked => \A i \in 1 .. Len(replies) : replies[i] => Granted
    BY DEF Inv, Answers
  <2>2. QED
    BY Zenon, <1>1, <1>2, <1>3, <2>1, TailReply
<1>6. \/ cpc = "envwait" /\ cpc' = "env"
      \/ Head(replies) /\ cpc = "ptywait" /\ cpc' = "start"
      \/ Head(replies) /\ cpc = "startwait" /\ cpc' = "running"
      \/ cpc' = "fatal"
  BY Zenon DEF TakeReply
<1>7. Shapes'
  <2>1. cpc' \in {"env", "start", "running", "fatal"}
    BY Zenon, <1>6
  <2>2. QED
    BY <1>1, <1>4, <2>1 DEF Inv, Shapes
<1>8. CASE cpc = "envwait" /\ cpc' = "env"
  <2>1. inq' = <<>> /\ replies' = <<>> /\ spc' # "second" /\ poller' = "off"
    BY <1>1, <1>4, <1>8 DEF Inv, EnvPhase, Silent
  <2>2. EnvPhase' /\ Answers' /\ ToldTheTruth'
    BY <1>8, <2>1 DEF EnvPhase, Silent, Answers, BeforeAsking, Asked, ToldTheTruth
  <2>3. Terminal' /\ Command'
    BY <1>1, <1>8 DEF Inv, Terminal, Command
  <2>4. QED
    BY <1>7, <2>2, <2>3 DEF Inv
<1>9. CASE \/ Head(replies) /\ cpc = "ptywait" /\ cpc' = "start"
           \/ Head(replies) /\ cpc = "startwait" /\ cpc' = "running"
  <2>1. Granted /\ Asked /\ (cpc = "ptywait" => mode = "pty")
    BY <1>5, <1>9 DEF Asked, Inv, Answers
  <2>2. ~Has(inq, "env") /\ (spc = "second" /\ ok => Granted)
    BY <2>1 DEF Inv, Answers
  <2>3. EnvPhase' /\ Answers'
    BY <1>1, <1>3, <1>5, <1>9, <2>1, <2>2 DEF EnvPhase, Answers, BeforeAsking
  <2>4. ToldTheTruth' /\ Terminal'
    BY <1>1, <1>9, <2>1 DEF Granted, ToldTheTruth, Inv, Terminal
  <2>5. Command'
    BY <1>1, <1>9 DEF Inv, Command
  <2>6. QED
    BY <1>7, <2>3, <2>4, <2>5 DEF Inv
<1>10. CASE cpc' = "fatal"
  <2>1. EnvPhase' /\ Answers' /\ ToldTheTruth'
    BY <1>10 DEF EnvPhase, Answers, BeforeAsking, Asked, ToldTheTruth
  <2>2. Terminal' /\ Command'
    BY <1>1, <1>10 DEF Inv, Terminal, Command
  <2>3. QED
    BY <1>7, <2>1, <2>2 DEF Inv
<1>11. QED
  BY <1>6, <1>8, <1>9, <1>10

------------------------------------------------------------------------------
(* The server's loop *)

\* Which requests there can be to serve where the client is.
LEMMA ServeFacts ==
  ASSUME Inv, NEW type, Serve(type)
  PROVE  /\ spc = "range" /\ type \in Types /\ Has(inq, type)
         /\ inq' \in Seq(Types) /\ (\A t : Has(inq', t) => Has(inq, t))
         /\ AtMostOne(inq', "shell") /\ (type = "shell" => ~Has(inq', "shell"))
         /\ cpc # "env"
         /\ cpc = "envwait" => type = "env" /\ inq' = <<>> /\ replies = <<>>
         /\ BeforeAsking => type = "window-change"
         /\ Asked => type # "env"
<1>1. /\ spc = "range" /\ inq # <<>> /\ Head(inq) = type /\ inq' = Tail(inq)
      /\ inq \in Seq(Types) /\ AtMostOne(inq, "shell")
  BY DEF Serve, Inv, Shapes, Command
<1>2. /\ inq' \in Seq(Types) /\ type \in Types /\ Has(inq, type)
      /\ \A t : Has(inq', t) => Has(inq, t)
      /\ AtMostOne(inq', "shell")
      /\ type = "shell" => ~Has(inq', "shell")
  BY <1>1, TailHas
<1>3. cpc # "env"
  BY <1>1 DEF Inv, EnvPhase
<1>4. cpc = "envwait" => type = "env" /\ inq' = <<>> /\ replies = <<>>
  <2>1. cpc = "envwait" => inq = <<"env">> /\ replies = <<>>
    BY <1>1 DEF Inv, EnvPhase, Silent
  <2>2. Head(<<"env">>) = "env" /\ Tail(<<"env">>) = <<>>
    OBVIOUS
  <2>3. QED
    BY <1>1, <2>1, <2>2
<1>5. (BeforeAsking => type = "window-change") /\ (Asked => type # "env")
  BY <1>2 DEF Inv, Answers
<1>6. QED
  BY <1>1, <1>2, <1>3, <1>4, <1>5

\* What is left when a request is served: to show the answers true, and to
\* place the terminal and the command.
LEMMA ServedInv ==
  ASSUME Inv, NEW type, Serve(type), type # "window-change", UNCHANGED clientVars,
         Shapes', Terminal', Command', ToldTheTruth',
         cpc = "envwait" => replies' = <<>> /\ spc' = "second",
         Asked => (\A i \in 1 .. Len(replies') : replies'[i] => Granted'),
         Asked => (spc' = "second" /\ ok' => Granted')
  PROVE  Inv'
<1>1. /\ \A t : Has(inq', t) => Has(inq, t)
      /\ cpc # "env"
      /\ cpc = "envwait" => inq' = <<>>
      /\ ~BeforeAsking
  BY ServeFacts
<1>2. UNCHANGED <<mode, cpc, poller>>
  BY DEF clientVars
<1>3. EnvPhase'
  BY <1>1, <1>2 DEF Inv, EnvPhase
<1>4. ~BeforeAsking' /\ (Asked' <=> Asked)
  BY <1>1, <1>2 DEF BeforeAsking, Asked
<1>5. cpc' \in {"pty", "ptywait"} => mode' = "pty"
  BY <1>2 DEF Inv, Answers
<1>6. Asked => ~Has(inq', "env")
  BY <1>1 DEF Inv, Answers
<1>7. Answers'
  BY Zenon, <1>4, <1>5, <1>6 DEF Answers
<1>8. QED
  BY <1>3, <1>7 DEF Inv

\* The terminal and the command are as they were: so is what is said of them.
LEMMA ServedSame ==
  ASSUME Inv, NEW type, Serve(type), UNCHANGED clientVars,
         UNCHANGED <<pty, proc, chan, made, copied, status>>,
         replies' \in Seq(BOOLEAN), spc' \in {"range", "second", "returned"}, ok' \in BOOLEAN
  PROVE  Shapes' /\ Terminal' /\ Command' /\ ToldTheTruth' /\ (Granted' <=> Granted)
<1>1. /\ inq' \in Seq(Types) /\ (\A t : Has(inq', t) => Has(inq, t))
      /\ AtMostOne(inq', "shell")
  BY ServeFacts
<1>2. UNCHANGED <<mode, disabled, cpc, poller>>
  BY DEF clientVars
<1>3. Shapes'
  <2>1. disabled' \in BOOLEAN
    BY <1>2 DEF Inv, Shapes
  <2>2. QED
    BY <1>1, <1>2, <2>1 DEF Inv, Shapes
<1>4. Terminal' /\ ToldTheTruth'
  BY <1>1, <1>2 DEF Inv, Terminal, ToldTheTruth
<1>5. Command'
  BY <1>1, <1>2 DEF Inv, Command
<1>6. QED
  BY <1>2, <1>3, <1>4, <1>5 DEF Granted

\* Requests without an effect on terminal or command.
LEMMA HandleEnvInv == ASSUME Inv, HandleEnv PROVE Inv'
<1>1. /\ Serve("env") /\ UNCHANGED clientVars /\ spc' = "second" /\ ok' = TRUE
      /\ replies' = replies /\ UNCHANGED <<pty, proc, chan, made, copied, status>>
  BY DEF HandleEnv, Second, procVars
<1>2. ~Asked /\ (cpc = "envwait" => replies = <<>>)
  BY <1>1, ServeFacts
<1>3. replies' \in Seq(BOOLEAN) /\ ok' \in BOOLEAN
  BY <1>1 DEF Inv, Shapes
<1>4. Shapes' /\ Terminal' /\ Command' /\ ToldTheTruth'
  BY <1>1, <1>3, ServedSame
<1>5. QED
  BY <1>1, <1>2, <1>4, ServedInv

LEMMA HandleWindowChangeInv == ASSUME Inv, HandleWindowChange PROVE Inv'
<1>1. /\ Serve("window-change") /\ UNCHANGED clientVars
      /\ UNCHANGED <<replies, spc, ok, pty, proc, chan, made, copied, status>>
  BY DEF HandleWindowChange, procVars
<1>2. /\ cpc \notin {"env", "envwait"} /\ (\A t : Has(inq', t) => Has(inq, t))
  BY <1>1, ServeFacts
<1>3. replies' \in Seq(BOOLEAN) /\ ok' \in BOOLEAN /\ spc' \in {"range", "second", "returned"}
  BY <1>1 DEF Inv, Shapes
<1>4. Shapes' /\ Terminal' /\ Command' /\ ToldTheTruth' /\ (Granted' <=> Granted)
  BY <1>1, <1>3, ServedSame
<1>5. UNCHANGED <<mode, cpc>>
  BY <1>1 DEF clientVars
<1>6. EnvPhase'
  BY <1>2, <1>5 DEF EnvPhase
<1>7. Answers'
  BY <1>1, <1>2, <1>4, <1>5 DEF Inv, Answers, BeforeAsking, Asked, Silent
<1>8. QED
  BY <1>4, <1>6, <1>7 DEF Inv

\* The sftp client: what it is granted is that sftp is not disabled.
LEMMA HandleSubsystemInv == ASSUME Inv, HandleSubsystem PROVE Inv'
<1>1. /\ Serve("subsystem") /\ UNCHANGED clientVars /\ spc' = "second" /\ ok' = ~disabled
      /\ replies' = replies /\ UNCHANGED <<pty, proc, chan, made, copied, status>>
  BY DEF HandleSubsystem, Second
<1>2. Has(inq, "subsystem") /\ cpc # "envwait"
  BY <1>1, ServeFacts
<1>3. replies' \in Seq(BOOLEAN) /\ ok' \in BOOLEAN
  BY <1>1 DEF Inv, Shapes
<1>4. Shapes' /\ Terminal' /\ Command' /\ ToldTheTruth' /\ (Granted' <=> Granted)
  BY <1>1, <1>3, ServedSame
<1>5. mode = "sftp" /\ (~disabled => Granted)
  BY <1>2 DEF Inv, Terminal, Granted
<1>6. Asked => \A i \in 1 .. Len(replies') : replies'[i] => Granted'
  BY <1>1, <1>4 DEF Inv, Answers
<1>7. ok' => Granted'
  BY <1>1, <1>4, <1>5
<1>8. QED
  BY <1>1, <1>2, <1>4, <1>6, <1>7, ServedInv

\* The terminal is allocated before either of the two answers that say so.
LEMMA HandlePtyReqInv == ASSUME Inv, HandlePtyReq PROVE Inv'
<1>1. /\ Serve("pty-req") /\ UNCHANGED clientVars /\ spc' = "second" /\ ok' = ~disabled
      /\ replies' = Append(replies, ~disabled)
      /\ pty' = (IF disabled THEN "nil" ELSE "ready")
      /\ UNCHANGED <<proc, chan, made, copied, status>>
  BY DEF HandlePtyReq, Second
<1>2. /\ inq' \in Seq(Types) /\ (\A t : Has(inq', t) => Has(inq, t))
      /\ AtMostOne(inq', "shell") /\ cpc # "envwait"
  BY <1>1, ServeFacts
<1>3. UNCHANGED <<mode, disabled, cpc, poller>>
  BY <1>1 DEF clientVars
<1>4. replies \in Seq(BOOLEAN) /\ disabled \in BOOLEAN
  BY DEF Inv, Shapes
<1>5. replies' \in Seq(BOOLEAN) /\ ok' \in BOOLEAN
  BY <1>1, <1>4, AppendReply
<1>6. pty' \in {"nil", "ready"} /\ (disabled => pty' = "nil") /\ (~disabled => pty' = "ready")
  BY <1>1, <1>4
<1>7. (pty # "nil" => ~disabled) /\ (pty # "nil" => pty' # "nil")
  BY <1>6 DEF Inv, Terminal
<1>8. Shapes'
  BY <1>1, <1>2, <1>3, <1>4, <1>5, <1>6 DEF Inv, Shapes
<1>9. Terminal' /\ ToldTheTruth'
  BY <1>2, <1>3, <1>6, <1>7 DEF Inv, Terminal, ToldTheTruth
<1>10. Command'
  BY <1>1, <1>2, <1>3, <1>7 DEF Inv, Command
<1>11. Granted' \in BOOLEAN /\ (~disabled => Granted') /\ (Granted => Granted')
  BY <1>3, <1>6 DEF Granted
<1>12. Asked => \A i \in 1 .. Len(replies') : replies'[i] => Granted'
  <2>1. Asked => \A i \in 1 .. Len(replies) : replies[i] => Granted'
    BY Zenon, <1>11 DEF Inv, Answers
  <2>2. QED
    BY Zenon, <1>1, <1>4, <1>11, <2>1, AppendReply
<1>13. ok' => Granted'
  BY <1>1, <1>11
<1>14. QED
  BY <1>1, <1>2, <1>8, <1>9, <1>10, <1>12, <1>13, ServedInv

\* No terminal, and no answer.
LEMMA PtyFailsInv == ASSUME Inv, PtyFails PROVE Inv'
<1>1. /\ Serve("pty-req") /\ UNCHANGED clientVars /\ spc' = "returned"
      /\ UNCHANGED <<replies, ok, pty, proc, chan, made, copied, status>>
  BY DEF PtyFails, procVars
<1>2. cpc # "envwait"
  BY <1>1, ServeFacts
<1>3. replies' \in Seq(BOOLEAN) /\ ok' \in BOOLEAN
  BY <1>1 DEF Inv, Shapes
<1>4. Shapes' /\ Terminal' /\ Command' /\ ToldTheTruth' /\ (Granted' <=> Granted)
  BY <1>1, <1>3, ServedSame
<1>5. Asked => \A i \in 1 .. Len(replies') : replies'[i] => Granted'
  BY <1>1, <1>4 DEF Inv, Answers
<1>6. QED
  BY <1>1, <1>2, <1>4, <1>5, ServedInv

\* The command: there is none yet, and the one shell request is served.
LEMMA HandleShellInv == ASSUME Inv, HandleShell \/ ShellMissing PROVE Inv'
<1>1. /\ Serve("shell") /\ UNCHANGED clientVars
      /\ UNCHANGED <<pty, chan, made, copied>>
      /\ \/ /\ spc' = "second" /\ ok' = ~disabled /\ replies' = Append(replies, ~disabled)
            /\ proc' \in {"none", "running", "missing"} /\ status' \in {status, "none", "early"}
         \/ UNCHANGED <<replies, spc, ok, proc, status>>
  <2>1. CASE HandleShell
    BY <2>1 DEF HandleShell, Second
  <2>2. CASE ShellMissing
    <3>1. CASE pty = "ready"
      BY <2>2, <3>1 DEF ShellMissing
    <3>2. CASE pty # "ready"
      <4>1. ~disabled = TRUE
        BY <2>2 DEF ShellMissing
      <4>2. /\ spc' = "second" /\ ok' = TRUE /\ replies' = Append(replies, TRUE)
            /\ proc' = "missing" /\ status' = status
            /\ Serve("shell") /\ UNCHANGED clientVars /\ UNCHANGED <<pty, chan, made, copied>>
        BY <2>2, <3>2 DEF ShellMissing, Second
      <4>3. QED
        BY <4>1, <4>2
    <3>3. QED
      BY <3>1, <3>2
  <2>3. QED
    BY <2>1, <2>2
<1>2. /\ inq' \in Seq(Types) /\ (\A t : Has(inq', t) => Has(inq, t))
      /\ Has(inq, "shell") /\ ~Has(inq', "shell") /\ AtMostOne(inq', "shell")
      /\ cpc # "envwait" /\ spc = "range"
  BY <1>1, ServeFacts
<1>3. UNCHANGED <<mode, disabled, cpc, poller>>
  BY <1>1 DEF clientVars
<1>4. replies \in Seq(BOOLEAN) /\ disabled \in BOOLEAN
  BY DEF Inv, Shapes
<1>5. replies' \in Seq(BOOLEAN) /\ ok' \in BOOLEAN
  <2>1. ok \in BOOLEAN
    BY DEF Inv, Shapes
  <2>2. QED
    BY <1>1, <1>4, <2>1, AppendReply
<1>6. mode = "pty" => pty # "nil"
  BY <1>2 DEF Inv, Terminal
<1>7. proc = "none" /\ cpc \notin {"env", "envwait", "pty", "ptywait", "start"}
  BY <1>2 DEF Inv, Command
<1>8. /\ proc' \in {"none", "running", "missing"} /\ status' \in {status, "none", "early"}
      /\ spc' \in {"range", "second"}
  BY <1>1, <1>2, <1>7
<1>9. Shapes'
  BY <1>1, <1>2, <1>3, <1>4, <1>5, <1>8 DEF Inv, Shapes
<1>10. Terminal' /\ ToldTheTruth'
  BY <1>1, <1>2, <1>3 DEF Inv, Terminal, ToldTheTruth
<1>11. Command'
  BY <1>1, <1>2, <1>3, <1>6, <1>7, <1>8 DEF Inv, Command
<1>12. /\ Granted' \in BOOLEAN /\ (~disabled => Granted')
       /\ Granted => Granted'
  BY <1>1, <1>3, <1>6 DEF Granted
<1>13. Asked => \A i \in 1 .. Len(replies) : replies[i] => Granted'
  BY Zenon, <1>12 DEF Inv, Answers
<1>14. Asked => \A i \in 1 .. Len(replies') : replies'[i] => Granted'
  <2>1. CASE replies' = Append(replies, ~disabled)
    BY Zenon, <1>4, <1>12, <1>13, <2>1, AppendReply
  <2>2. CASE replies' = replies
    BY <1>13, <2>2
  <2>3. QED
    BY <1>1, <2>1, <2>2
<1>15. spc' = "second" /\ ok' => Granted'
  <2>1. spc' = "second" => ok' = ~disabled
    BY <1>1, <1>2
  <2>2. QED
    BY <1>12, <2>1
<1>16. QED
  BY <1>1, <1>2, <1>9, <1>10, <1>11, <1>14, <1>15, ServedInv

\* The second answer says what the first did; or the requests end.
LEMMA SecondReplyInv == ASSUME Inv, SecondReply \/ RequestsEnd PROVE Inv'
<1>1. /\ UNCHANGED <<mode, disabled, cpc, poller, inq, ok, pty, proc, chan, made, copied, status>>
      /\ \/ spc = "second" /\ spc' = "range" /\ replies' = Append(replies, ok)
         \/ spc = "range" /\ spc' = "returned" /\ replies' = replies
  BY DEF SecondReply, RequestsEnd, clientVars, procVars
<1>2. replies \in Seq(BOOLEAN) /\ ok \in BOOLEAN /\ Len(replies) \in Nat
  BY LenProperties DEF Inv, Shapes
<1>3. /\ replies' \in Seq(BOOLEAN)
      /\ replies' = replies \/ Len(replies') = Len(replies) + 1
  BY <1>1, <1>2, AppendReply
<1>4. Granted \in BOOLEAN /\ (Granted' <=> Granted)
  BY <1>1 DEF Granted
<1>5. Shapes'
  <2>1. disabled' \in BOOLEAN /\ ok' \in BOOLEAN /\ spc' \in {"range", "returned"}
    BY <1>1, <1>2 DEF Inv, Shapes
  <2>2. QED
    BY <1>1, <1>3, <2>1 DEF Inv, Shapes
<1>6. EnvPhase'
  <2>1. CASE spc = "second"
    <3>1. cpc # "env" /\ (cpc = "envwait" => inq = <<>> /\ replies = <<>> /\ poller = "off")
      BY <2>1 DEF Inv, EnvPhase, Silent
    <3>2. Len(<<>>) = 0
      OBVIOUS
    <3>3. replies' = Append(replies, ok) /\ spc' = "range"
      BY <1>1, <2>1
    <3>4. cpc = "envwait" => Len(replies') = 1
      BY <1>2, <3>1, <3>2, <3>3, AppendReply
    <3>5. QED
      BY <1>1, <3>1, <3>3, <3>4 DEF EnvPhase
  <2>2. CASE spc # "second"
    BY <1>1, <2>2 DEF Inv, EnvPhase, Silent
  <2>3. QED
    BY <2>1, <2>2
<1>7. Asked => \A i \in 1 .. Len(replies') : replies'[i] => Granted
  <2>1. /\ Asked => \A i \in 1 .. Len(replies) : replies[i] => Granted
        /\ Asked => (spc = "second" /\ ok => Granted)
    BY DEF Inv, Answers
  <2>2. CASE spc = "second" /\ replies' = Append(replies, ok)
    BY Zenon, <1>2, <1>4, <2>1, <2>2, AppendReply
  <2>3. CASE replies' = replies
    BY <2>1, <2>3
  <2>4. QED
    BY <1>1, <2>2, <2>3
<1>8. (BeforeAsking' <=> BeforeAsking) /\ (Asked' <=> Asked)
  BY <1>1 DEF BeforeAsking, Asked
<1>9. BeforeAsking => Silent' /\ \A t \in Types : Has(inq, t) => t = "window-change"
  BY <1>1 DEF Inv, Answers, Silent
<1>10. (cpc \in {"pty", "ptywait"} => mode = "pty") /\ (Asked => ~Has(inq, "env"))
  BY DEF Inv, Answers
<1>11. Answers'
  <2>1. spc' # "second" /\ inq' = inq /\ cpc' = cpc /\ mode' = mode
    BY <1>1
  <2>2. QED
    BY Zenon, <1>4, <1>7, <1>8, <1>9, <1>10, <2>1 DEF Answers
<1>12. Terminal' /\ ToldTheTruth'
  BY <1>1 DEF Inv, Terminal, ToldTheTruth
<1>13. Command'
  BY <1>1 DEF Inv, Command
<1>14. QED
  BY <1>5, <1>6, <1>11, <1>12, <1>13 DEF Inv

------------------------------------------------------------------------------
(* The command and its copiers *)

\* A step that sends nothing, takes nothing and leaves a terminal that is
\* there there.
LEMMA AsideInv ==
  ASSUME Inv, UNCHANGED <<clientVars, serverVars>>, Shapes', Command',
         pty' = pty \/ (pty = "ready" /\ pty' = "closed")
  PROVE  Inv'
<1>1. UNCHANGED <<mode, disabled, cpc, poller, inq, replies, spc, ok>>
  BY DEF clientVars, serverVars
<1>2. (pty' = "nil" <=> pty = "nil") /\ (Granted' <=> Granted)
  BY <1>1 DEF Granted
<1>3. EnvPhase'
  BY <1>1 DEF Inv, EnvPhase, Silent
<1>4. Answers'
  BY <1>1, <1>2 DEF Inv, Answers, Silent, BeforeAsking, Asked
<1>5. Terminal' /\ ToldTheTruth'
  BY <1>1, <1>2 DEF Inv, Terminal, ToldTheTruth
<1>6. QED
  BY <1>3, <1>4, <1>5 DEF Inv

\* The command, its output, and the steps that close the channel.
LEMMA CommandInv ==
  ASSUME Inv, ProcWrites \/ ProcExits \/ CopyOutput \/ PtyStep \/ PlainStep \/ SftpEnds
  PROVE  Inv'
<1>1. UNCHANGED <<clientVars, serverVars>>
  BY DEF ProcWrites, ProcExits, CopyOutput, PtyStep, PtyOutputEnds, PtyInputEnds, PlainStep,
         SendStatus, WaitMissing, CloseChannel, SftpEnds, ProcStep
<1>2. UNCHANGED <<mode, disabled, cpc, poller, inq, replies, spc, ok>>
  BY <1>1 DEF clientVars, serverVars
<1>3. Inv /\ Shapes /\ Command
  BY DEF Inv
<1>4. disabled' \in BOOLEAN /\ ok' \in BOOLEAN /\ replies' \in Seq(BOOLEAN)
  BY <1>2, <1>3 DEF Shapes
<1>5. CASE ProcWrites
  <2>1. /\ proc = "running" /\ made' = made + 1
        /\ UNCHANGED <<pty, proc, chan, copied, status>>
    BY <1>5 DEF ProcWrites
  <2>2. Shapes' /\ Command'
    BY <1>2, <1>3, <1>4, <2>1 DEF Shapes, Command
  <2>3. QED
    BY <1>1, <2>1, <2>2, AsideInv
<1>6. CASE ProcExits
  <2>1. proc = "running" /\ proc' = "exited" /\ UNCHANGED <<pty, chan, made, copied, status>>
    BY <1>6 DEF ProcExits
  <2>2. Shapes' /\ Command'
    BY <1>2, <1>3, <1>4, <2>1 DEF Shapes, Command
  <2>3. QED
    BY <1>1, <2>1, <2>2, AsideInv
<1>7. CASE CopyOutput
  <2>1. chan = "open" /\ copied' = copied + 1 /\ UNCHANGED <<pty, proc, chan, made, status>>
    BY <1>7 DEF CopyOutput, Connected
  <2>2. Shapes' /\ Command'
    BY <1>2, <1>3, <1>4, <2>1 DEF Shapes, Command
  <2>3. QED
    BY <1>1, <2>1, <2>2, AsideInv
<1>8. CASE PtyStep
  <2>1. /\ pty = "ready" /\ pty' = "closed" /\ UNCHANGED <<made, copied, status>>
        /\ \/ /\ proc = "exited" /\ proc' = proc
              /\ chan' = chan \/ (chan' = "closed" /\ copied = made)
           \/ proc = "running" /\ proc' = "exited" /\ chan' = chan
    BY <1>8 DEF PtyStep, PtyOutputEnds, PtyInputEnds, Connected
  <2>2. Shapes' /\ Command'
    BY <1>2, <1>3, <1>4, <2>1 DEF Shapes, Command
  <2>3. QED
    BY <1>1, <2>1, <2>2, AsideInv
<1>9. CASE PlainStep
  <2>1. /\ UNCHANGED <<pty, proc, made, copied>>
        /\ \/ pty = "nil" /\ proc = "exited" /\ status' = "real" /\ chan' = chan
           \/ status' = status /\ chan' = chan
           \/ status = "real" /\ status' = status /\ chan' = "closed"
    BY <1>9 DEF PlainStep, SendStatus, WaitMissing, CloseChannel
  <2>2. Shapes' /\ Command'
    BY <1>2, <1>3, <1>4, <2>1 DEF Shapes, Command
  <2>3. QED
    BY <1>1, <2>1, <2>2, AsideInv
<1>10. CASE SftpEnds
  <2>1. UNCHANGED <<pty, proc, chan, made, copied, status>>
    BY <1>10 DEF SftpEnds
  <2>2. Shapes' /\ Command'
    BY <1>2, <1>3, <1>4, <2>1 DEF Shapes, Command
  <2>3. QED
    BY <1>1, <2>1, <2>2, AsideInv
<1>11. QED
  BY <1>5, <1>6, <1>7, <1>8, <1>9, <1>10

------------------------------------------------------------------------------
(* The theorems *)

\* Every step keeps the invariant.
LEMMA StepInv == Inv /\ [Next]_vars => Inv'
<1> SUFFICES ASSUME Inv, [Next]_vars PROVE Inv'
  OBVIOUS
<1>1. CASE ClientStep \/ PollSize \/ ClientQuits
  BY <1>1, SendEnvInv, RequestPtyInv, RequestStartInv, PollerInv, ClientLeavesInv, TakeReplyInv
     DEF ClientStep
<1>2. CASE ServerStep
  BY <1>2, HandleEnvInv, HandleWindowChangeInv, HandlePtyReqInv, PtyFailsInv, HandleShellInv,
     HandleSubsystemInv, SecondReplyInv DEF ServerStep
<1>3. CASE ProcWrites \/ ProcExits \/ CopyOutput \/ PtyStep \/ PlainStep \/ SftpEnds
  BY <1>3, CommandInv
<1>4. CASE UNCHANGED vars
  <2>1. UNCHANGED <<clientVars, serverVars, pty, proc, chan, made, copied, status>>
    BY <1>4 DEF vars, procVars
  <2>2. Shapes' /\ Command'
    BY <2>1 DEF Inv, Shapes, Command, clientVars, serverVars
  <2>3. QED
    BY <2>1, <2>2, AsideInv
<1>5. QED
  BY <1>1, <1>2, <1>3, <1>4 DEF Next

\* However requests, first and second answers, window changes, the command and
\* a connection that breaks are ordered, serveChannelSession keeps the
\* invariant.
THEOREM Invariance == Spec => []Inv
  BY InitInv, StepInv, PTL DEF Spec

\* A client that went on past its pty-req has a terminal, and one whose shell
\* or subsystem runs was not declined, for every number of environment
\* variables and of window changes in between: no second answer to an earlier
\* request is ever taken for a consent that was not given.
THEOREM ToldTheTruthAlways == Spec => []ToldTheTruth
<1>1. Inv => ToldTheTruth
  BY DEF Inv
<1>2. QED
  BY <1>1, Invariance, PTL

\* On a terminal the server closes the channel only when all the output of the
\* command is in it, however much that is.
THEOREM PtyOutputCompleteAlways == Spec => []PtyOutputComplete
<1>1. Inv => PtyOutputComplete
  BY DEF Inv, Command, PtyOutputComplete
<1>2. QED
  BY <1>1, Invariance, PTL
==============================================================================

------------------------------ MODULE CopyConn -------------------------------
(***************************************************************************)
(* CopyConnWithOnClose and CopyBuffer of pkg/rio/io.go: two copiers move   *)
(* bytes between the connections 1 and 2, the first that ends closes both, *)
(* and a channel bw tells a consumer (the tunnel's metrics) what was       *)
(* written.  Bytes are counted, in abstract units.                         *)
(***************************************************************************)
EXTENDS Naturals

CONSTANTS Metrics,    \* the metrics argument
          MaxUnits    \* bound: how much each peer sends

ASSUME CopyAssumption == Metrics \in BOOLEAN /\ MaxUnits \in Nat

Sides == {1, 2}
Other(e) == 3 - e

VARIABLES
  sent,       \* what the peer of each connection has sent
  inbox,      \* the part of it that was not read yet
  peer,       \* the peer: "open", "closed" (no more data) or "reset" (data lost)
  closed,     \* the connections closed on this side
  cpc,        \* where copier d is, which reads Other(d) and writes d
  buf,        \* what its last Read returned
  nw,         \* what its last Write returned
  written,    \* what it has written in all
  eof,        \* its source ended without an error
  once,       \* the sync.Once: "new", "running" or "done"
  onCloses,   \* how often onClose was called
  wg,         \* the wait group of the copiers
  bw,         \* the channel: "nil" without metrics, "open" or "closed"
  closer,     \* the goroutine that closes bw: "waiting" or "done"
  consumer,   \* the reader of bw: "busy", "receiving" or "done"
  counted     \* the sum of what it received

netVars == <<sent, inbox, peer>>
bufVars == <<buf, nw, written, eof>>
closeVars == <<closed, once, onCloses, wg>>
metricVars == <<bw, closer, consumer, counted>>
copyConnVars == <<netVars, cpc, bufVars, closeVars, metricVars>>

CopyTypeOK ==
  /\ sent \in [Sides -> 0 .. MaxUnits]
  /\ inbox \in [Sides -> 0 .. MaxUnits]
  /\ peer \in [Sides -> {"open", "closed", "reset"}]
  /\ closed \subseteq Sides
  /\ cpc \in [Sides -> {"read", "write", "count", "once", "close1", "close2", "onclose",
                       "wgdone", "done"}]
  /\ buf \in [Sides -> 0 .. MaxUnits]
  /\ nw \in [Sides -> 0 .. MaxUnits]
  /\ written \in [Sides -> 0 .. MaxUnits]
  /\ eof \in [Sides -> BOOLEAN]
  /\ once \in {"new", "running", "done"}
  /\ onCloses \in Nat
  /\ wg \in 0 .. 2
  /\ bw \in {"nil", "open", "closed"}
  /\ closer \in {"waiting", "done"}
  /\ consumer \in {"busy", "receiving", "done"}
  /\ counted \in Nat

CopyInit ==
  /\ sent = [e \in Sides |-> 0]
  /\ inbox = [e \in Sides |-> 0]
  /\ peer = [e \in Sides |-> "open"]
  /\ closed = {}
  /\ cpc = [d \in Sides |-> "read"]
  /\ buf = [d \in Sides |-> 0]
  /\ nw = [d \in Sides |-> 0]
  /\ written = [d \in Sides |-> 0]
  /\ eof = [d \in Sides |-> FALSE]
  /\ once = "new" /\ onCloses = 0 /\ wg = 2
  /\ bw = IF Metrics THEN "open" ELSE "nil"
  /\ closer = "waiting" /\ consumer = "busy" /\ counted = 0

CopierGoto(d, from, to) == cpc[d] = from /\ cpc' = [cpc EXCEPT ![d] = to]

------------------------------------------------------------------------------
(* CopyBuffer(d, Other(d), bw) *)

ReadData(d) ==
  /\ CopierGoto(d, "read", "write")
  /\ Other(d) \notin closed /\ peer[Other(d)] # "reset"
  /\ \E n \in 1 .. inbox[Other(d)] :
       /\ buf' = [buf EXCEPT ![d] = n]
       /\ inbox' = [inbox EXCEPT ![Other(d)] = @ - n]
  /\ UNCHANGED <<sent, peer, nw, written, eof, closeVars, metricVars>>

\* Mutated: the end of the stream is taken before what is still buffered.
ReadEarlyEnd(d) ==
  /\ CopierGoto(d, "read", "once")
  /\ Other(d) \in closed \/ peer[Other(d)] # "open"
  /\ eof' = [eof EXCEPT ![d] = Other(d) \notin closed /\ peer[Other(d)] = "closed"]
  /\ UNCHANGED <<netVars, buf, nw, written, closeVars, metricVars>>

\* Read fails: the connection was closed on this side, or the peer reset it,
\* or it has ended and everything was read.
ReadEnds(d) ==
  /\ CopierGoto(d, "read", "once")
  /\ \/ Other(d) \in closed \/ peer[Other(d)] = "reset"
     \/ peer[Other(d)] = "closed" /\ inbox[Other(d)] = 0
  /\ eof' = [eof EXCEPT ![d] = Other(d) \notin closed /\ peer[Other(d)] = "closed"]
  /\ UNCHANGED <<netVars, buf, nw, written, closeVars, metricVars>>

\* Write is whole, or it fails half way on a connection that is gone.
WriteData(d) ==
  /\ CopierGoto(d, "write", "count")
  /\ \E n \in 0 .. buf[d] :
       /\ n < buf[d] => d \in closed \/ peer[d] # "open"
       /\ n = buf[d] => d \notin closed /\ peer[d] # "reset"
       /\ nw' = [nw EXCEPT ![d] = n]
       /\ written' = [written EXCEPT ![d] = @ + n]
  /\ UNCHANGED <<netVars, buf, eof, closeVars, metricVars>>

\* select { case wch <- int64(nw): default: }, then the checks of the errors:
\* the count is dropped unless the consumer is receiving at this moment.
CountWritten(d) ==
  /\ CopierGoto(d, "count", IF nw[d] = buf[d] THEN "read" ELSE "once")
  /\ IF bw = "open" /\ consumer = "receiving"
     THEN consumer' = "busy" /\ counted' = counted + nw[d]
     ELSE UNCHANGED <<consumer, counted>>
  /\ UNCHANGED <<netVars, bufVars, closeVars, bw, closer>>

------------------------------------------------------------------------------
(* once.Do(connClose); wg.Done() *)

\* The first copier runs connClose; the other blocks until it has returned.
OnceFirst(d) ==
  /\ CopierGoto(d, "once", "close1")
  /\ once = "new" /\ once' = "running"
  /\ UNCHANGED <<netVars, bufVars, closed, onCloses, wg, metricVars>>

\* Mutated: a flag in place of the sync.Once, so the second does not block.
OnceSecondFlag(d) ==
  /\ CopierGoto(d, "once", "wgdone")
  /\ once # "new"
  /\ UNCHANGED <<netVars, bufVars, closeVars, metricVars>>

OnceSecond(d) ==
  /\ CopierGoto(d, "once", "wgdone")
  /\ once = "done"
  /\ UNCHANGED <<netVars, bufVars, closeVars, metricVars>>

CloseFirst(d) ==
  /\ CopierGoto(d, "close1", "close2")
  /\ closed' = closed \cup {1}
  /\ UNCHANGED <<netVars, bufVars, once, onCloses, wg, metricVars>>

\* Mutated: c2 is not closed.
CloseSecondNot(d) ==
  /\ CopierGoto(d, "close2", "onclose")
  /\ UNCHANGED <<netVars, bufVars, closeVars, metricVars>>

CloseSecond(d) ==
  /\ CopierGoto(d, "close2", "onclose")
  /\ closed' = closed \cup {2}
  /\ UNCHANGED <<netVars, bufVars, once, onCloses, wg, metricVars>>

CallOnClose(d) ==
  /\ CopierGoto(d, "onclose", "wgdone")
  /\ onCloses' = onCloses + 1
  /\ once' = "done"
  /\ UNCHANGED <<netVars, bufVars, closed, wg, metricVars>>

CopierDone(d) ==
  /\ CopierGoto(d, "wgdone", "done")
  /\ wg' = wg - 1
  /\ UNCHANGED <<netVars, bufVars, closed, once, onCloses, metricVars>>

------------------------------------------------------------------------------
(* The goroutine that closes bw, and the consumer *)

\* Mutated: wg.Add(1) for two copiers.
CloseBwEarly ==
  /\ closer = "waiting" /\ wg <= 1
  /\ closer' = "done"
  /\ bw' = IF Metrics THEN "closed" ELSE bw
  /\ UNCHANGED <<netVars, cpc, bufVars, closeVars, consumer, counted>>

CloseBw ==
  /\ closer = "waiting" /\ wg = 0
  /\ closer' = "done"
  /\ bw' = IF Metrics THEN "closed" ELSE bw
  /\ UNCHANGED <<netVars, cpc, bufVars, closeVars, consumer, counted>>

\* range bw: the consumer comes back for the next value.
Receive ==
  /\ consumer = "busy" /\ bw = "open"
  /\ consumer' = "receiving"
  /\ UNCHANGED <<netVars, cpc, bufVars, closeVars, bw, closer, counted>>

ReceiveEnds ==
  /\ consumer # "done" /\ bw = "closed"
  /\ consumer' = "done"
  /\ UNCHANGED <<netVars, cpc, bufVars, closeVars, bw, closer, counted>>

------------------------------------------------------------------------------
(* The peers *)

PeerSends(e) ==
  /\ peer[e] = "open" /\ sent[e] < MaxUnits
  /\ sent' = [sent EXCEPT ![e] = @ + 1]
  /\ inbox' = [inbox EXCEPT ![e] = @ + 1]
  /\ UNCHANGED <<peer, cpc, bufVars, closeVars, metricVars>>

PeerCloses(e) ==
  /\ peer[e] = "open"
  /\ peer' = [peer EXCEPT ![e] = "closed"]
  /\ UNCHANGED <<sent, inbox, cpc, bufVars, closeVars, metricVars>>

PeerResets(e) ==
  /\ peer[e] # "reset"
  /\ peer' = [peer EXCEPT ![e] = "reset"]
  /\ UNCHANGED <<sent, inbox, cpc, bufVars, closeVars, metricVars>>

------------------------------------------------------------------------------
CopierStep(d) ==
  \/ ReadData(d) \/ ReadEnds(d) \/ WriteData(d) \/ CountWritten(d)
  \/ OnceFirst(d) \/ OnceSecond(d) \/ CloseFirst(d) \/ CloseSecond(d) \/ CallOnClose(d)
  \/ CopierDone(d)

PeerStep(e) == PeerSends(e) \/ PeerCloses(e) \/ PeerResets(e)

CopyNext ==
  \/ \E e \in Sides : CopierStep(e) \/ PeerStep(e)
  \/ CloseBw \/ Receive \/ ReceiveEnds

CopySpec == CopyInit /\ [][CopyNext]_copyConnVars

\* Goroutines are scheduled and a Write ends (the peer reads, or it is gone).
CopyFairness ==
  /\ \A d \in Sides : WF_copyConnVars(CopierStep(d))
  /\ WF_copyConnVars(CloseBw) /\ WF_copyConnVars(Receive \/ ReceiveEnds)

CopyFairSpec == CopySpec /\ CopyFairness

------------------------------------------------------------------------------
(* Safety *)

\* No copier sends on bw once it is closed, which would panic: it is closed
\* only after both copiers are through with CopyBuffer.
NoSendOnClosed == bw = "closed" => \A d \in Sides : cpc[d] \notin {"read", "write", "count"}

\* A copier ends only after both connections are closed and onClose has run,
\* whichever copier ran it, and onClose runs once: the tunnel never forgets a
\* connection that is up, nor deletes its entry twice.
ClosedTogether ==
  /\ onCloses <= 1
  /\ (\E d \in Sides : cpc[d] = "done") => closed = Sides /\ onCloses = 1

\* A direction whose source ended without an error has delivered all of it.
CleanEndDelivers ==
  \A d \in Sides : eof[d] /\ peer[Other(d)] = "closed" => written[d] = sent[Other(d)]

(* Liveness *)

\* When a peer leaves, both connections are closed, onClose runs and both
\* copiers and the closer of bw end.
TornDown == \A e \in Sides : peer[e] # "open" ~> closed = Sides /\ onCloses = 1 /\ closer = "done"
==============================================================================

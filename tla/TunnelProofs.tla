---------------------------- MODULE TunnelProofs -----------------------------
(***************************************************************************)
(* The safety of Tunnel for any number of connections, drops and failures, *)
(* and that of CopyConn, to which it hands each of them, whatever the      *)
(* peers send and however much of it.                                      *)
(***************************************************************************)
EXTENDS Tunnel, CopyConn, FiniteSetTheorems, TLAPS

\* No two connections have the same remote address.
OwnAddresses == \A c, d \in Conns : AddrOf[c] = AddrOf[d] => c = d

\* A connection is counted from its registration to the end of its onClose.
Counted(c) == st[c] \in {"mapped", "open", "closing"}

\* The connection in the hands of Start is the one its program counter says.
InHand ==
  /\ tpc \in {"register", "copy"} => accepted \in Conns
  /\ tpc = "register" => st[accepted] = "accepted"
  /\ tpc = "copy" => st[accepted] = "mapped"

\* clientsMap holds a connection under its own address, and until Stop clears
\* it the connections it holds are the counted ones.
MapExact ==
  /\ \A a \in Addrs : clientsMap[a] # NoConn => AddrOf[clientsMap[a]] = a
  /\ stop # "done" =>
       \A c \in Conns : clientsMap[AddrOf[c]] = IF Counted(c) THEN c ELSE NoConn

\* The inductive invariant without the map, and the map's part of it.
Inv == TypeOK /\ ListenerScoped /\ InHand

\* It holds of a new tunnel.
LEMMA InitInv == Init => Inv
<1> SUFFICES ASSUME Init PROVE Inv
  OBVIOUS
<1>1. LinkTypeOK
  BY DEF Init, LinkInit, LinkTypeOK
<1>2. /\ near \in [Conns -> Ends] /\ far \in [Conns -> Ends]
      /\ st \in [Conns -> {"new", "accepted", "mapped", "open", "closing", "done"}]
      /\ clientsMap \in [Addrs -> Conns \cup {NoConn}]
  BY DEF Init, Ends
<1>3. drops \in 0 .. MaxDrops /\ farFailures \in 0 .. MaxFarFailures
  BY TunnelAssumption DEF Init
<1>4. TypeOK
  BY <1>1, <1>2, <1>3 DEF Init, TypeOK, Ends, Serving
<1>5. QED
  BY <1>4 DEF Init, Inv, Serving, ListenerScoped, InHand

\* The goroutine of Start preserves it.
LEMMA StartInv == ASSUME Inv, StartStep PROVE Inv'
<1> USE TunnelAssumption
    DEF Inv, TypeOK, LinkTypeOK, Ends, Serving, ListenerScoped, InHand,
        Goto, linkVars, listenVars, copyVars, regVars, boundVars
<1>1. CASE RegistryAdd
  BY <1>1 DEF RegistryAdd
<1>2. CASE StoreID
  BY <1>2 DEF StoreID
<1>3. CASE WaitBegin
  BY <1>3 DEF WaitBegin
<1>4. CASE WaitReady
  BY <1>4 DEF WaitReady
<1>5. CASE WaitTerminated
  BY <1>5 DEF WaitTerminated
<1>6. CASE SleepEnds
  BY <1>6 DEF SleepEnds
<1>7. CASE ListenOk
  BY <1>7 DEF ListenOk
<1>8. CASE ListenFails
  BY <1>8 DEF ListenFails
<1>9. CASE PublishListener
  BY <1>9 DEF PublishListener
<1>10. CASE DialOk
  BY <1>10 DEF DialOk
<1>11. CASE DialFails
  BY <1>11 DEF DialFails
<1>12. CASE AcceptFails
  BY <1>12 DEF AcceptFails
<1>13. CASE RegisterClient
  BY <1>13 DEF RegisterClient
<1>14. CASE StartCopy
  BY <1>14 DEF StartCopy
<1>15. QED
  BY <1>1, <1>2, <1>3, <1>4, <1>5, <1>6, <1>7, <1>8, <1>9, <1>10, <1>11, <1>12, <1>13, <1>14
  DEF StartStep

\* So do a client that connects, the copiers and a client that leaves.
LEMMA ConnInv ==
  ASSUME Inv, NEW c \in Conns, Accept(c) \/ CopyStep(c) \/ ClientLeaves(c)
  PROVE  Inv'
<1> USE TunnelAssumption
    DEF Inv, TypeOK, LinkTypeOK, Ends, Serving, ListenerScoped, InHand,
        Goto, linkVars, listenVars, copyVars, regVars, boundVars
<1>1. CASE Accept(c)
  BY <1>1 DEF Accept
<1>2. CASE CloseConn(c)
  BY <1>2 DEF CloseConn
<1>3. CASE OnClose(c)
  BY <1>3 DEF OnClose
<1>4. CASE ClientLeaves(c)
  BY SMTT(30), <1>4 DEF ClientLeaves
<1>5. QED
  BY <1>1, <1>2, <1>3, <1>4 DEF CopyStep

\* So do the waiter, the sampler, Stop and the network.
LEMMA OthersInv ==
  ASSUME Inv,
         \/ WaiterCloses \/ SamplerEnds \/ StopSampler \/ StopGoesOn
         \/ LinkDrops \/ LinkStep \/ FarFails \/ UNCHANGED vars
  PROVE  Inv'
<1> USE TunnelAssumption
    DEF Inv, TypeOK, LinkTypeOK, Ends, Serving, ListenerScoped, InHand,
        StopStep, linkVars, listenVars, copyVars, regVars, boundVars
<1>1. CASE WaiterCloses
  BY <1>1 DEF WaiterCloses
<1>2. CASE SamplerEnds
  BY <1>2 DEF SamplerEnds
<1>3. CASE StopSampler
  BY <1>3 DEF StopSampler
<1>4. CASE StopDelete \/ StopTerminate
  <2>1. inRegistry' \in BOOLEAN
    BY <1>4, Zenon DEF StopDelete, StopTerminate
  <2>2. QED
    BY <1>4, <2>1 DEF StopDelete, StopTerminate
<1>5. CASE StopListener
  BY <1>5 DEF StopListener
<1>6. CASE StopClients
  BY <1>6 DEF StopClients
<1>7. CASE LinkDrops
  BY <1>7 DEF LinkDrops, Drop, Dead
<1>8. CASE LinkStep
  BY <1>8 DEF LinkStep, Replace, Announce, Retract, Halt
<1>9. CASE FarFails
  BY <1>9 DEF FarFails
<1>10. CASE UNCHANGED vars
  BY <1>10 DEF vars
<1>11. QED
  BY <1>1, <1>2, <1>3, <1>4, <1>5, <1>6, <1>7, <1>8, <1>9, <1>10 DEF StopGoesOn

\* Every reachable state satisfies the inductive invariant.
THEOREM Invariance == Spec => []Inv
<1>1. Inv /\ [Next]_vars => Inv'
  BY StartInv, ConnInv, OthersInv DEF Next
<1>2. QED
  BY InitInv, <1>1, PTL DEF Spec

\* Tunnel is type correct.
THEOREM TypeCorrect == Spec => []TypeOK
<1>1. Inv => TypeOK
  BY DEF Inv
<1>2. QED
  BY Invariance, <1>1, PTL

\* No listener outlives the listenLocal or listenRemote that opened it.
THEOREM ListenerScopedAlways == Spec => []ListenerScoped
<1>1. Inv => ListenerScoped
  BY DEF Inv
<1>2. QED
  BY Invariance, <1>1, PTL

------------------------------------------------------------------------------
(* The map of the clients, when no two of them have the same address *)

\* Every step preserves the exactness of the map.
LEMMA MapStep == ASSUME OwnAddresses, Inv, MapExact, [Next]_vars PROVE MapExact'
<1> USE TunnelAssumption
    DEF MapExact, Counted, Inv, TypeOK, copyVars, listenVars
<1>1. CASE RegisterClient
  <2>1. accepted \in Conns /\ st[accepted] = "accepted"
    BY <1>1 DEF RegisterClient, Goto, InHand
  <2>2. /\ clientsMap' = [clientsMap EXCEPT ![AddrOf[accepted]] = accepted]
        /\ st' = [st EXCEPT ![accepted] = "mapped"]
        /\ UNCHANGED stop
    BY <1>1 DEF RegisterClient
  <2>3. QED
    BY <2>1, <2>2 DEF OwnAddresses
<1>2. CASE StartCopy
  BY <1>2 DEF StartCopy, Goto, InHand
<1>3. ASSUME NEW c \in Conns, Accept(c) PROVE MapExact'
  BY <1>3 DEF Accept
<1>4. ASSUME NEW c \in Conns, CloseConn(c) PROVE MapExact'
  BY <1>4 DEF CloseConn
<1>5. ASSUME NEW c \in Conns, OnClose(c) PROVE MapExact'
  BY <1>5 DEF OnClose, OwnAddresses
<1>6. CASE StopClients
  BY <1>6 DEF StopClients, StopStep
<1>7. CASE StopSampler \/ StopDelete \/ StopTerminate \/ StopListener
  BY <1>7 DEF StopSampler, StopDelete, StopTerminate, StopListener, StopStep
<1>8. ASSUME UNCHANGED <<st, clientsMap, stop>> PROVE MapExact'
  BY SMTT(30), <1>8
<1>9. ASSUME StartStep, ~RegisterClient, ~StartCopy PROVE UNCHANGED <<st, clientsMap, stop>>
  BY SMTT(30), <1>9
  DEF StartStep, RegistryAdd, StoreID, WaitBegin, WaitReady, WaitTerminated, SleepEnds,
      ListenOk, ListenFails, PublishListener, DialOk, DialFails, AcceptFails
<1>10. ASSUME \/ WaiterCloses \/ SamplerEnds \/ LinkDrops \/ LinkStep \/ FarFails
              \/ (\E c \in Conns : ClientLeaves(c)) \/ UNCHANGED vars
       PROVE  UNCHANGED <<st, clientsMap, stop>>
  BY SMTT(30), <1>10 DEF WaiterCloses, SamplerEnds, LinkDrops, LinkStep, FarFails, ClientLeaves, vars
<1>11. QED
  BY <1>1, <1>2, <1>3, <1>4, <1>5, <1>6, <1>7, <1>8, <1>9, <1>10 DEF Next, CopyStep, StopGoesOn

\* An exact map has as many entries as there are counted connections.
LEMMA ExactCount == ASSUME OwnAddresses, Inv, MapExact PROVE CountIsExact
<1> DEFINE C == {c \in Conns : Counted(c)}
           A == {a \in Addrs : clientsMap[a] # NoConn}
           f == [c \in C |-> AddrOf[c]]
<1> SUFFICES ASSUME stop # "done" PROVE Cardinality(A) = Cardinality(C)
  BY DEF CountIsExact, GetActiveClientsCount, Counted
<1>1. clientsMap \in [Addrs -> Conns \cup {NoConn}]
  BY DEF Inv, TypeOK
<1>2. \A c \in C : f[c] \in A
  BY TunnelAssumption DEF MapExact
<1>3. \A c, d \in C : f[c] = f[d] => c = d
  BY DEF OwnAddresses
<1>4. \A a \in A : clientsMap[a] \in C /\ f[clientsMap[a]] = a
  BY <1>1, TunnelAssumption DEF MapExact
<1>5. f \in Bijection(C, A)
  BY <1>2, <1>3, <1>4 DEF Bijection, Injection, IsInjective, Surjection
<1>6. IsFiniteSet(C)
  BY FS_Subset, TunnelAssumption
<1>7. QED
  BY <1>5, <1>6, FS_Bijection DEF ExistsBijection

\* GetActiveClientsCount is exact, until Stop clears the map, if no two
\* clients have the same remote address.
THEOREM CountIsExactAlways == ASSUME OwnAddresses PROVE Spec => []CountIsExact
<1>1. Init => MapExact
  BY TunnelAssumption DEF Init, MapExact, Counted
<1>2. Inv /\ MapExact /\ [Next]_vars => MapExact'
  BY MapStep
<1>3. Inv /\ MapExact => CountIsExact
  BY ExactCount
<1>4. QED
  BY Invariance, <1>1, <1>2, <1>3, PTL DEF Spec

------------------------------------------------------------------------------
(* The teardown of the two copiers of a connection *)

\* Copier d runs the function given to once.Do.
Closing(d) == cpc[d] \in {"close1", "close2", "onclose"}

\* Copier d is past once.Do.
Past(d) == cpc[d] \in {"wgdone", "done"}

\* What the teardown is about: the variables it uses have their types.
TearTypes ==
  /\ closed \subseteq Sides
  /\ cpc \in [Sides -> {"read", "write", "count", "once", "close1", "close2", "onclose",
                       "wgdone", "done"}]
  /\ once \in {"new", "running", "done"}
  /\ onCloses \in Nat
  /\ wg \in Nat
  /\ bw \in {"nil", "open", "closed"}

\* The inductive invariant of the teardown.  The Once is what orders it: it is
\* running exactly while one copier is in connClose, it is done only when both
\* connections are closed and onClose has run, and nobody passes it before.
\* The counter of the wait group is the number of copiers that are not done.
TearInv ==
  /\ TearTypes
  /\ once = "running" <=> \E d \in Sides : Closing(d)
  /\ ~(Closing(1) /\ Closing(2))
  /\ (\E d \in Sides : Past(d)) => once = "done"
  /\ once = "done" => closed = Sides /\ onCloses = 1
  /\ once # "done" => onCloses = 0
  /\ \A d \in Sides : cpc[d] \in {"close2", "onclose"} => 1 \in closed
  /\ \A d \in Sides : cpc[d] = "onclose" => 2 \in closed
  /\ wg = (IF cpc[1] = "done" THEN 0 ELSE 1) + (IF cpc[2] = "done" THEN 0 ELSE 1)
  /\ bw = "closed" => cpc[1] = "done" /\ cpc[2] = "done"

\* It holds when the copiers start.
LEMMA TearInit == CopyInit => TearInv
  BY SMTT(30) DEF CopyInit, TearInv, TearTypes, Sides, Closing, Past

\* A step of a copier preserves it.
LEMMA TearCopier == ASSUME TearInv, NEW d \in Sides, CopierStep(d) PROVE TearInv'
<1> USE DEF TearInv, TearTypes, Sides, Closing, Past, CopierGoto, closeVars, metricVars
<1>1. CASE ReadData(d)
  BY <1>1 DEF ReadData
<1>2. CASE ReadEnds(d)
  BY <1>2 DEF ReadEnds
<1>3. CASE WriteData(d)
  BY <1>3 DEF WriteData
<1>4. CASE CountWritten(d)
  BY <1>4 DEF CountWritten
<1>5. CASE OnceFirst(d)
  BY <1>5 DEF OnceFirst
<1>6. CASE OnceSecond(d)
  BY <1>6 DEF OnceSecond
<1>7. CASE CloseFirst(d)
  BY <1>7 DEF CloseFirst
<1>8. CASE CloseSecond(d)
  BY <1>8 DEF CloseSecond
<1>9. CASE CallOnClose(d)
  <2>1. cpc[d] = "onclose" /\ cpc' = [cpc EXCEPT ![d] = "wgdone"] /\ once' = "done"
    BY <1>9 DEF CallOnClose
  <2>2. closed = Sides /\ closed' = Sides
    BY <1>9, <2>1 DEF CallOnClose
  <2>3. once = "running" /\ onCloses' = 1
    BY <1>9, <2>1 DEF CallOnClose
  <2>4. \A e \in Sides : ~Closing(e)'
    BY <2>1
  <2>5. UNCHANGED <<wg, bw>>
    BY <1>9 DEF CallOnClose
  <2>6. QED
    BY <2>1, <2>2, <2>3, <2>4, <2>5
<1>10. CASE CopierDone(d)
  BY <1>10 DEF CopierDone
<1>11. QED
  BY <1>1, <1>2, <1>3, <1>4, <1>5, <1>6, <1>7, <1>8, <1>9, <1>10 DEF CopierStep

\* The closer of bw, the consumer and the peers preserve it.
LEMMA TearOthers ==
  ASSUME TearInv,
         \/ \E e \in Sides : PeerStep(e)
         \/ CloseBw \/ Receive \/ ReceiveEnds
         \/ UNCHANGED copyConnVars
  PROVE  TearInv'
<1> USE DEF TearInv, TearTypes, Sides, Closing, Past, closeVars, metricVars
<1>1. CASE \E e \in Sides : PeerStep(e)
  BY <1>1 DEF PeerStep, PeerSends, PeerCloses, PeerResets
<1>2. CASE CloseBw
  BY <1>2 DEF CloseBw
<1>3. CASE Receive \/ ReceiveEnds
  BY <1>3 DEF Receive, ReceiveEnds
<1>4. CASE UNCHANGED copyConnVars
  BY <1>4 DEF copyConnVars
<1>5. QED
  BY <1>1, <1>2, <1>3, <1>4

\* Every reachable state satisfies the inductive invariant.
THEOREM TearInvariance == CopySpec => []TearInv
<1>1. TearInv /\ [CopyNext]_copyConnVars => TearInv'
  BY TearCopier, TearOthers DEF CopyNext
<1>2. QED
  BY TearInit, <1>1, PTL DEF CopySpec

\* No copier sends on bw once it is closed.
THEOREM NoSendOnClosedAlways == CopySpec => []NoSendOnClosed
<1>1. TearInv => NoSendOnClosed
  BY DEF TearInv, NoSendOnClosed, Sides
<1>2. QED
  BY TearInvariance, <1>1, PTL

\* Both connections are closed and onClose has run, once, before a copier ends.
THEOREM ClosedTogetherAlways == CopySpec => []ClosedTogether
<1>1. TearInv => ClosedTogether
  BY DEF TearInv, TearTypes, ClosedTogether, Past
<1>2. QED
  BY TearInvariance, <1>1, PTL

------------------------------------------------------------------------------
(* What is copied *)

\* What copier d has read and has still to write.
Buffered(d) == IF cpc[d] = "write" THEN buf[d] ELSE 0

\* Copier d has met no error so far.
Unbroken(d) == cpc[d] \in {"read", "write"} \/ (cpc[d] = "count" /\ nw[d] = buf[d])

\* The variables of the data have their types.
DataTypes ==
  /\ sent \in [Sides -> 0 .. MaxUnits]
  /\ inbox \in [Sides -> 0 .. MaxUnits]
  /\ peer \in [Sides -> {"open", "closed", "reset"}]
  /\ cpc \in [Sides -> {"read", "write", "count", "once", "close1", "close2", "onclose",
                       "wgdone", "done"}]
  /\ buf \in [Sides -> 0 .. MaxUnits]
  /\ nw \in [Sides -> 0 .. MaxUnits]
  /\ written \in [Sides -> 0 .. MaxUnits]
  /\ eof \in [Sides -> BOOLEAN]
  /\ closer \in {"waiting", "done"}
  /\ consumer \in {"busy", "receiving", "done"}
  /\ counted \in Nat

\* In direction d what was sent is written, in the hands of the copier or still
\* to be read, nothing twice, and nothing is missing until the copier meets an
\* error.  A clean end fixes both sides of it.
Lossless(d) ==
  /\ written[d] + Buffered(d) + inbox[Other(d)] <= sent[Other(d)]
  /\ Unbroken(d) => written[d] + Buffered(d) + inbox[Other(d)] = sent[Other(d)]
  /\ eof[d] => /\ peer[Other(d)] # "open"
               /\ written[d] = sent[Other(d)]
               /\ cpc[d] \notin {"read", "write", "count"}

\* The inductive invariant of the data.
Flow == DataTypes /\ \A d \in Sides : Lossless(d)

\* It holds when nothing was sent yet.
LEMMA InitFlow == CopyInit => Flow
  BY CopyAssumption DEF CopyInit, Flow, DataTypes, Lossless, Sides, Other, Buffered, Unbroken

\* The two connections are each other's other.
LEMMA OtherEnd == \A d \in Sides : /\ Other(d) \in Sides /\ Other(d) # d /\ Other(Other(d)) = d
                                 /\ \A e \in Sides : e # d => e = Other(d)
  BY DEF Sides, Other

\* A step that changes nothing of direction d leaves it lossless.
LEMMA SameDirection ==
  ASSUME NEW d \in Sides, Lossless(d),
         cpc'[d] = cpc[d], buf'[d] = buf[d], nw'[d] = nw[d], written'[d] = written[d],
         eof'[d] = eof[d], inbox'[Other(d)] = inbox[Other(d)], sent'[Other(d)] = sent[Other(d)],
         peer'[Other(d)] = peer[Other(d)]
  PROVE  Lossless(d)'
  BY DEF Lossless, Buffered, Unbroken

\* A step of a copier keeps it: the other direction shares no data with it.
LEMMA CopierFlow == ASSUME Flow, NEW d \in Sides, CopierStep(d) PROVE Flow'
<1> DEFINE o == Other(d)
<1>0. /\ DataTypes /\ Lossless(d) /\ Lossless(o)
      /\ o \in Sides /\ o # d /\ Other(o) = d /\ \A e \in Sides : e # d => e = o
  BY OtherEnd DEF Flow
<1> HIDE DEF o
<1> USE CopyAssumption DEF CopierGoto, netVars, bufVars, metricVars
<1>1. CASE ReadData(d)
  <2>1. PICK n \in 1 .. inbox[o] :
          buf' = [buf EXCEPT ![d] = n] /\ inbox' = [inbox EXCEPT ![o] = @ - n]
    BY <1>1 DEF ReadData, o
  <2>2. /\ cpc[d] = "read" /\ cpc' = [cpc EXCEPT ![d] = "write"]
        /\ UNCHANGED <<sent, peer, nw, written, eof, closer, consumer, counted>>
    BY <1>1 DEF ReadData
  <2>3. n \in Nat /\ n <= inbox[o] /\ inbox[o] \in 0 .. MaxUnits /\ n \in 0 .. MaxUnits
    BY <1>0, <2>1 DEF DataTypes
  <2>4. DataTypes'
    BY <1>0, <2>1, <2>2, <2>3 DEF DataTypes
  <2>5. Lossless(o)'
    BY <1>0, <2>1, <2>2, SameDirection DEF DataTypes
  <2>6. Lossless(d)'
    BY <1>0, <2>1, <2>2, <2>3 DEF DataTypes, Lossless, Buffered, Unbroken, o
  <2>7. QED
    BY <1>0, <2>4, <2>5, <2>6 DEF Flow
<1>2. CASE ReadEnds(d)
  <2>1. /\ cpc[d] = "read" /\ cpc' = [cpc EXCEPT ![d] = "once"]
        /\ eof' = [eof EXCEPT ![d] = o \notin closed /\ peer[o] = "closed"]
        /\ eof'[d] => peer[o] = "closed" /\ inbox[o] = 0
        /\ UNCHANGED <<sent, inbox, peer, buf, nw, written, closer, consumer, counted>>
    BY <1>0, <1>2 DEF ReadEnds, o, DataTypes
  <2>2. DataTypes'
    BY <1>0, <2>1 DEF DataTypes
  <2>3. Lossless(o)'
    BY <1>0, <2>1, SameDirection DEF DataTypes
  <2>4. Lossless(d)'
    BY <1>0, <2>1 DEF DataTypes, Lossless, Buffered, Unbroken, o
  <2>5. QED
    BY <1>0, <2>2, <2>3, <2>4 DEF Flow
<1>3. CASE WriteData(d)
  <2>1. PICK n \in 0 .. buf[d] :
          nw' = [nw EXCEPT ![d] = n] /\ written' = [written EXCEPT ![d] = @ + n]
    BY <1>3 DEF WriteData
  <2>2. /\ cpc[d] = "write" /\ cpc' = [cpc EXCEPT ![d] = "count"]
        /\ UNCHANGED <<sent, inbox, peer, buf, eof, closer, consumer, counted>>
    BY <1>3 DEF WriteData
  <2>3. /\ n \in Nat /\ n <= buf[d] /\ n \in 0 .. MaxUnits
        /\ written[d] + n \in 0 .. MaxUnits
    BY <1>0, <2>1, <2>2 DEF DataTypes, Lossless, Buffered, o
  <2>4. DataTypes'
    BY <1>0, <2>1, <2>2, <2>3 DEF DataTypes
  <2>5. Lossless(o)'
    BY SMTT(30), <1>0, <2>1, <2>2, SameDirection DEF DataTypes
  <2>6. Lossless(d)'
    BY <1>0, <2>1, <2>2, <2>3 DEF DataTypes, Lossless, Buffered, Unbroken, o
  <2>7. QED
    BY <1>0, <2>4, <2>5, <2>6 DEF Flow
<1>4. CASE CountWritten(d)
  <2>1. /\ cpc[d] = "count" /\ cpc' = [cpc EXCEPT ![d] = IF nw[d] = buf[d] THEN "read" ELSE "once"]
        /\ UNCHANGED <<sent, inbox, peer, buf, nw, written, eof, closer>>
        /\ consumer' \in {"busy", consumer} /\ counted' \in {counted, counted + nw[d]}
    BY <1>4 DEF CountWritten
  <2>2. DataTypes'
    BY <1>0, <2>1 DEF DataTypes
  <2>3. Lossless(o)'
    BY <1>0, <2>1, SameDirection DEF DataTypes
  <2>4. Lossless(d)'
    BY <1>0, <2>1 DEF DataTypes, Lossless, Buffered, Unbroken, o
  <2>5. QED
    BY SMTT(30), <1>0, <2>2, <2>3, <2>4 DEF Flow
<1>5. CASE \/ OnceFirst(d) \/ OnceSecond(d) \/ CloseFirst(d) \/ CloseSecond(d) \/ CallOnClose(d)
           \/ CopierDone(d)
  <2>1. PICK to \in {"close1", "close2", "onclose", "wgdone", "done"} :
          cpc' = [cpc EXCEPT ![d] = to]
    BY <1>5 DEF OnceFirst, OnceSecond, CloseFirst, CloseSecond, CallOnClose, CopierDone
  <2>2. UNCHANGED <<sent, inbox, peer, buf, nw, written, eof, closer, consumer, counted>>
    BY <1>5 DEF OnceFirst, OnceSecond, CloseFirst, CloseSecond, CallOnClose, CopierDone
  <2>3. cpc[d] \notin {"read", "write", "count"}
    BY <1>5 DEF OnceFirst, OnceSecond, CloseFirst, CloseSecond, CallOnClose, CopierDone
  <2>4. DataTypes'
    BY <1>0, <2>1, <2>2 DEF DataTypes
  <2>5. Lossless(o)'
    BY SMTT(30), <1>0, <2>1, <2>2, SameDirection DEF DataTypes
  <2>6. Lossless(d)'
    BY SMTT(30), <1>0, <2>1, <2>2, <2>3 DEF DataTypes, Lossless, Buffered, Unbroken, o
  <2>7. QED
    BY <1>0, <2>4, <2>5, <2>6 DEF Flow
<1>6. QED
  BY <1>1, <1>2, <1>3, <1>4, <1>5 DEF CopierStep

\* The peers, the closer of bw and the consumer keep it: a peer that has ended
\* sends nothing more.
LEMMA OthersFlow ==
  ASSUME Flow,
         \/ \E e \in Sides : PeerStep(e)
         \/ CloseBw \/ Receive \/ ReceiveEnds
         \/ UNCHANGED copyConnVars
  PROVE  Flow'
<1> USE CopyAssumption
    DEF Flow, DataTypes, Lossless, Sides, Other, Buffered, Unbroken, netVars, bufVars
<1>1. ASSUME NEW e \in Sides, PeerSends(e) PROVE Flow'
  BY SMTT(30), <1>1 DEF PeerSends, metricVars
<1>2. ASSUME NEW e \in Sides, PeerCloses(e) \/ PeerResets(e) PROVE Flow'
  BY SMTT(30), <1>2 DEF PeerCloses, PeerResets, metricVars
<1>3. CASE CloseBw
  BY SMTT(30), <1>3 DEF CloseBw
<1>4. CASE Receive \/ ReceiveEnds
  BY SMTT(30), <1>4 DEF Receive, ReceiveEnds
<1>5. CASE UNCHANGED copyConnVars
  BY <1>5 DEF copyConnVars, metricVars
<1>6. QED
  BY <1>1, <1>2, <1>3, <1>4, <1>5 DEF PeerStep

\* Every reachable state satisfies the invariant of the data.
THEOREM FlowAlways == CopySpec => []Flow
<1>1. Flow /\ [CopyNext]_copyConnVars => Flow'
  BY CopierFlow, OthersFlow DEF CopyNext
<1>2. QED
  BY InitFlow, <1>1, PTL DEF CopySpec

\* A direction of CopyBuffer that ends with io.EOF has written all that its
\* source ever sent, however the reads and the writes were cut.
THEOREM CleanEndDeliversAlways == CopySpec => []CleanEndDelivers
<1>1. Flow => CleanEndDelivers
  BY DEF Flow, Lossless, CleanEndDelivers
<1>2. QED
  BY FlowAlways, <1>1, PTL

\* Type correctness: no counter of CopyConnWithOnClose leaves its range, the
\* wait group's included, which Go would answer with a panic.
THEOREM CopyTypeCorrect == CopySpec => []CopyTypeOK
<1>1. TearInv /\ Flow => CopyTypeOK
  BY DEF TearInv, TearTypes, Flow, DataTypes, CopyTypeOK, Sides
<1>2. QED
  BY TearInvariance, FlowAlways, <1>1, PTL
==============================================================================

--------------------------- MODULE SshServerProofs ---------------------------
(***************************************************************************)
(* The safety of SshServer for any sessions, ports and tcp connections.    *)
(***************************************************************************)
EXTENDS SshServer, TLAPS

\* What tcpipForwardHandler is setting up, on a connection that was made.
Opening ==
  \A k \in Sessions :
    /\ hpc[k] \in {"reply", "spawn", "map"} => opening[k] \in Listeners /\ Owner(opening[k]) = k
    /\ conn[k] = "none" => hpc[k] = "none"

Inv == TypeOK /\ Opening /\ Watched

\* The parts of a listener.
LEMMA ListenerParts ==
  ASSUME NEW l \in Listeners PROVE Owner(l) \in Sessions /\ Port(l) \in Ports
  BY DEF Listeners, Owner, Port

\* An assignment to an entry of r.forwards keeps its type.
LEMMA ForwardsType ==
  ASSUME TypeOK, NEW k \in Sessions, NEW p \in Ports, NEW x \in Listeners \cup {None}
  PROVE  [forwards EXCEPT ![k][p] = x] \in [Sessions -> [Ports -> Listeners \cup {None}]]
<1>1. [forwards[k] EXCEPT ![p] = x] \in [Ports -> Listeners \cup {None}]
  BY DEF TypeOK
<1>2. QED
  BY <1>1 DEF TypeOK

\* It holds before the first connection.
LEMMA InitInv == Init => Inv
<1> SUFFICES ASSUME Init PROVE Inv
  OBVIOUS
<1>1. TypeOK
  BY ServerAssumption DEF Init, TypeOK
<1>2. QED
  BY <1>1, ListenerParts DEF Init, Inv, Opening, Watched

\* handleRequests preserves it.
LEMMA RequestInv == ASSUME Inv, NEW k \in Sessions, RequestStep(k) PROVE Inv'
<1> USE ServerAssumption, ListenerParts
    DEF Inv, TypeOK, Opening, Watched, Answered, lstVars, tcpVars
<1>1. CASE HandleSimple(k)
  BY <1>1 DEF HandleSimple
<1>2. CASE ListenOk(k)
  BY <1>2 DEF ListenOk
<1>3. CASE ListenFails(k)
  BY <1>3 DEF ListenFails
<1>4. CASE ReplyForward(k)
  BY <1>4 DEF ReplyForward
<1>5. CASE SpawnForward(k)
  BY <1>5 DEF SpawnForward
<1>6. CASE MapForward(k)
  <2>1. opening[k] \in Listeners /\ Port(opening[k]) \in Ports
    BY <1>6 DEF MapForward
  <2>2. forwards' \in [Sessions -> [Ports -> Listeners \cup {None}]]
    BY <1>6, <2>1, ForwardsType DEF MapForward
  <2>3. QED
    BY <1>6, <2>2 DEF MapForward
<1>7. CASE HandleCancel(k)
  <2>1. PICK l \in Listeners \cup {None} :
          lst' = IF l = None THEN lst ELSE [lst EXCEPT ![l] = "closed"]
    <3>1. req[k].port \in Ports
      BY <1>7 DEF HandleCancel, Requests
    <3>2. forwards[k][req[k].port] \in Listeners \cup {None}
      BY <3>1
    <3>3. QED
      BY <1>7, <3>2 DEF HandleCancel
  <2>2. lst' \in [Listeners -> {"none", "open", "closed"}]
    BY <2>1
  <2>3. \A m \in Listeners : lst'[m] = "open" => lst[m] = "open"
    BY <2>1
  <2>4. QED
    BY <1>7, <2>2, <2>3 DEF HandleCancel
<1>8. CASE RequestsEnd(k)
  BY <1>8 DEF RequestsEnd
<1>9. QED
  BY <1>1, <1>2, <1>3, <1>4, <1>5, <1>6, <1>7, <1>8 DEF RequestStep

\* So does checkAlive.
LEMMA CheckInv == ASSUME Inv, NEW l \in Listeners, CheckStep(l) PROVE Inv'
<1> USE ServerAssumption, ListenerParts
    DEF Inv, TypeOK, Opening, Watched, lstVars, tcpVars, reqVars
<1>1. CASE CheckFails(l)
  BY <1>1 DEF CheckFails
<1>2. CASE CheckDeletes(l)
  <2>1. forwards' \in [Sessions -> [Ports -> Listeners \cup {None}]]
    BY <1>2, ForwardsType DEF CheckDeletes
  <2>2. QED
    BY <1>2, <2>1 DEF CheckDeletes
<1>3. QED
  BY <1>1, <1>2 DEF CheckStep

\* So do the connections, the requests of the clients and the network.
LEMMA SessionInv ==
  ASSUME Inv, NEW k \in Sessions,
         \/ Serve(k) \/ AskOther(k) \/ ConnLost(k) \/ ServerNotices(k)
         \/ \E p \in Ports \cup {AnyPort} : AskForward(k, p)
         \/ \E p \in Ports : AskCancel(k, p)
  PROVE  Inv'
<1> USE ServerAssumption, ListenerParts
    DEF Inv, TypeOK, Opening, Watched, lstVars, tcpVars, reqVars
<1>1. CASE Serve(k)
  BY <1>1 DEF Serve
<1>2. ASSUME NEW r \in Requests, Ask(k, r), UNCHANGED <<conn, hpc, opening, lst, chk>>
      PROVE  req' \in [Sessions -> Requests \cup {None}] /\ Opening' /\ Watched'
  BY <1>2 DEF Ask
<1>3. CASE AskOther(k)
  BY <1>2, <1>3 DEF AskOther, Requests
<1>4. ASSUME NEW p \in Ports \cup {AnyPort}, AskForward(k, p) PROVE Inv'
  BY <1>2, <1>4 DEF AskForward, Requests
<1>5. ASSUME NEW p \in Ports, AskCancel(k, p) PROVE Inv'
  BY <1>2, <1>5 DEF AskCancel, Requests
<1>6. CASE ConnLost(k)
  BY <1>6 DEF ConnLost
<1>7. CASE ServerNotices(k)
  BY <1>7 DEF ServerNotices
<1>8. QED
  BY <1>1, <1>3, <1>4, <1>5, <1>6, <1>7

\* So do the tcp connections.
LEMMA TcpInv ==
  ASSUME Inv, NEW c \in Conns,
         \/ TcpStep(c) \/ PartyLeaves(c)
         \/ \E k \in Sessions : OpenDirect(k, c)
         \/ \E l \in Listeners : AcceptClient(l, c)
  PROVE  Inv'
<1> USE ListenerParts DEF Inv, TypeOK, Opening, Watched, lstVars, reqVars
<1>1. ASSUME NEW s \in {"dialling", "copying", "closed"}, cst' = [cst EXCEPT ![c] = s],
             UNCHANGED <<disableTunnelling, conn, reqVars, lstVars, via, fwdPort>>
      PROVE  Inv'
  BY <1>1
<1>2. CASE TcpStep(c) \/ PartyLeaves(c)
  BY <1>1, <1>2
  DEF TcpStep, OpenChannel, OpenChannelFails, CopyEnds, PartyLeaves, DirectAccept, DirectDial
<1>3. ASSUME NEW k \in Sessions, OpenDirect(k, c) PROVE Inv'
  BY <1>3 DEF OpenDirect
<1>4. ASSUME NEW l \in Listeners, AcceptClient(l, c) PROVE Inv'
  BY <1>4 DEF AcceptClient
<1>5. QED
  BY <1>2, <1>3, <1>4

\* Nothing happening preserves it.
LEMMA StutterInv == ASSUME Inv, UNCHANGED vars PROVE Inv'
  BY DEF Inv, TypeOK, Opening, Watched, vars, lstVars, tcpVars, reqVars

\* Every reachable state satisfies the inductive invariant.
THEOREM Invariance == Spec => []Inv
<1>1. Inv /\ [Next]_vars => Inv'
  BY RequestInv, CheckInv, SessionInv, TcpInv, StutterInv DEF Next
<1>2. QED
  BY InitInv, <1>1, PTL DEF Spec

\* SshServer is type correct.
THEOREM TypeCorrect == Spec => []TypeOK
<1>1. Inv => TypeOK
  BY DEF Inv
<1>2. QED
  BY Invariance, <1>1, PTL

\* Every open listener is being set up or has a checkAlive.
THEOREM WatchedAlways == Spec => []Watched
<1>1. Inv => Watched
  BY DEF Inv
<1>2. QED
  BY Invariance, <1>1, PTL

------------------------------------------------------------------------------
(* Client and server agree on the forwards *)

Open(l) == lst[l] = "open"

\* The server listens on p for k.
Holds(k, p) == \E l \in Listeners : Owner(l) = k /\ Port(l) = p /\ Open(l)

\* The port is not in the client's hands because its answer or its cancel is
\* under way.
UnderWay(k, p) ==
  \/ hpc[k] = "reply" /\ Port(opening[k]) = p
  \/ req[k] # None /\ req[k].op = "cancel" /\ req[k].port = p

\* A port has one listener, and a checkAlive gives up only on a connection that
\* is down.
Single ==
  /\ \A l, m \in Listeners : Open(l) /\ Open(m) /\ Port(l) = Port(m) => l = m
  /\ \A l \in Listeners : chk[l] \in {"closed", "done"} => conn[Owner(l)] = "down"
  /\ \A l \in Listeners : Open(l) => ~disableTunnelling

Fresh(k) ==
  /\ conn[k] = "none" => granted[k] = {} /\ req[k] = None
  /\ hpc[k] = "reply" => req[k] # None /\ req[k].op = "forward"
  /\ \A l \in Listeners : Owner(l) = k /\ conn[k] = "none" => lst[l] # "open"
  /\ \A p \in Ports : forwards[k][p] # None => Owner(forwards[k][p]) = k
  /\ req[k] # None /\ req[k].op = "cancel" => req[k].port \notin granted[k]

\* While the connection is up.
Agree(k) ==
  /\ \A p \in Ports : Holds(k, p) <=> p \in granted[k] \/ UnderWay(k, p)
  /\ \A l \in Listeners : Owner(l) = k /\ Open(l) =>
       \/ forwards[k][Port(l)] = l
       \/ opening[k] = l /\ hpc[k] \in {"reply", "spawn", "map"}
  /\ hpc[k] \in {"reply", "spawn", "map"} => Open(opening[k])

Views == Single /\ \A k \in Sessions : Fresh(k) /\ (conn[k] = "up" => Agree(k))

\* It holds before the first connection.
LEMMA InitViews == Init => Views
  BY ListenerParts DEF Init, Views, Single, Fresh, Open

\* It is enough that a step leaves alone what it does not change.
LEMMA SimpleViews ==
  ASSUME Inv, Views, NEW k \in Sessions, HandleSimple(k) \/ ListenFails(k) PROVE Views'
<1>1. req[k] # None /\ (req[k].op = "cancel" => disableTunnelling) /\ hpc[k] = "range"
  BY DEF HandleSimple, ListenFails, Inv, TypeOK, Requests
<1>2. /\ req' = [req EXCEPT ![k] = None]
      /\ UNCHANGED <<disableTunnelling, conn, hpc, opening, granted, forwards, lst, chk>>
  BY DEF HandleSimple, ListenFails, Answered, lstVars
<1>3. Single'
  BY <1>2 DEF Views, Single, Open
<1>4. ASSUME NEW j \in Sessions PROVE Fresh(j)'
  BY <1>1, <1>2 DEF Views, Fresh, Inv, TypeOK
<1>5. ASSUME NEW j \in Sessions, conn[j] = "up" PROVE Agree(j)'
  <2>1. Agree(j)
    BY <1>5 DEF Views
  <2>2. \A p \in Ports : Holds(j, p)' <=> Holds(j, p)
    BY <1>2 DEF Holds, Open
  <2>3. \A p \in Ports : Holds(j, p) => ~disableTunnelling
    BY DEF Views, Single, Holds
  <2>4. \A p \in Ports : UnderWay(j, p)' => UnderWay(j, p)
    BY <1>1, <1>2 DEF UnderWay, Inv, TypeOK
  <2>5. \A p \in Ports : UnderWay(j, p) /\ ~disableTunnelling => UnderWay(j, p)'
    BY <1>1, <1>2 DEF UnderWay, Inv, TypeOK
  <2>6. \A p \in Ports : Holds(j, p)' <=> p \in granted'[j] \/ UnderWay(j, p)'
    BY <1>2, <2>1, <2>2, <2>3, <2>4, <2>5 DEF Agree
  <2>7. QED
    BY <1>2, <2>1, <2>6 DEF Agree, Open
<1>6. QED
  BY <1>2, <1>3, <1>4, <1>5 DEF Views

\* A session that a step does not touch.
LEMMA OthersViews ==
  ASSUME Inv, Views, NEW j \in Sessions,
         \A l \in Listeners : Owner(l) = j => lst'[l] = lst[l],
         conn'[j] = conn[j], hpc'[j] = hpc[j], opening'[j] = opening[j], req'[j] = req[j],
         granted'[j] = granted[j], forwards'[j] = forwards[j]
  PROVE  Fresh(j)' /\ (conn'[j] = "up" => Agree(j)')
<1>1. Fresh(j)'
  BY DEF Views, Fresh
<1>2. ASSUME conn'[j] = "up" PROVE Agree(j)'
  <2>1. Agree(j)
    BY <1>2 DEF Views
  <2>2. \A p \in Ports : (Holds(j, p)' <=> Holds(j, p)) /\ (UnderWay(j, p)' <=> UnderWay(j, p))
    BY DEF Holds, Open, UnderWay
  <2>3. hpc[j] \in {"reply", "spawn", "map"} => opening[j] \in Listeners /\ Owner(opening[j]) = j
    BY DEF Inv, Opening
  <2>4. QED
    BY <2>1, <2>2, <2>3 DEF Agree, Open
<1>3. QED
  BY <1>1, <1>2

\* net.Listen gives a port that nobody listens on.
LEMMA ListenViews == ASSUME Inv, Views, NEW k \in Sessions, ListenOk(k) PROVE Views'
<1> USE DEF Inv, TypeOK
<1>1. PICK l \in Listeners :
        /\ Owner(l) = k /\ lst[l] = "none" /\ ~InUse(Port(l))
        /\ lst' = [lst EXCEPT ![l] = "open"]
        /\ opening' = [opening EXCEPT ![k] = l]
  BY DEF ListenOk
<1>2. /\ hpc[k] = "range" /\ req[k] # None /\ req[k].op = "forward" /\ ~disableTunnelling
      /\ hpc' = [hpc EXCEPT ![k] = "reply"]
      /\ UNCHANGED <<disableTunnelling, conn, req, granted, forwards, chk>>
  BY DEF ListenOk
<1>3. \A m \in Listeners : lst[m] = "open" => Port(m) # Port(l)
  BY <1>1 DEF InUse
<1>4. Single'
  BY <1>1, <1>2, <1>3 DEF Views, Single, Open
<1>5. Fresh(k)'
  BY <1>1, <1>2 DEF Views, Fresh, Opening
<1>6. ASSUME conn[k] = "up" PROVE Agree(k)'
  <2>1. Agree(k)
    BY <1>6 DEF Views
  <2>2. \A p \in Ports : Holds(k, p)' <=> Holds(k, p) \/ p = Port(l)
    BY <1>1 DEF Holds, Open
  <2>3. \A p \in Ports : UnderWay(k, p)' <=> p = Port(l)
    BY <1>1, <1>2 DEF UnderWay
  <2>4. \A p \in Ports : ~UnderWay(k, p)
    BY <1>2 DEF UnderWay
  <2>5. \A p \in Ports : Holds(k, p)' <=> p \in granted'[k] \/ UnderWay(k, p)'
    BY <1>2, <2>1, <2>2, <2>3, <2>4 DEF Agree
  <2>6. \A m \in Listeners : Owner(m) = k /\ Open(m)' =>
          \/ forwards'[k][Port(m)] = m
          \/ opening'[k] = m /\ hpc'[k] \in {"reply", "spawn", "map"}
    BY <1>1, <1>2, <2>1 DEF Agree, Open
  <2>7. Open(opening[k])'
    BY <1>1 DEF Open
  <2>8. QED
    BY <2>5, <2>6, <2>7 DEF Agree
<1>7. ASSUME NEW j \in Sessions \ {k} PROVE Fresh(j)' /\ (conn'[j] = "up" => Agree(j)')
  BY <1>1, <1>2, OthersViews
<1>8. QED
  BY <1>2, <1>4, <1>5, <1>6, <1>7 DEF Views

\* The answer, and what follows it.
LEMMA ForwardViews ==
  ASSUME Inv, Views, NEW k \in Sessions, ReplyForward(k) \/ SpawnForward(k) \/ MapForward(k)
  PROVE  Views'
<1> USE DEF Inv, TypeOK
<1>1. opening[k] \in Listeners /\ Owner(opening[k]) = k /\ hpc[k] \in {"reply", "spawn", "map"}
  BY DEF ReplyForward, SpawnForward, MapForward, Opening
<1>2. /\ UNCHANGED <<disableTunnelling, conn, lst>>
      /\ hpc'[k] \in {"spawn", "map", "range"} /\ hpc' = [hpc EXCEPT ![k] = hpc'[k]]
      /\ \A m \in Listeners : chk'[m] \in {chk[m], "ticking"}
  BY <1>1 DEF ReplyForward, SpawnForward, MapForward, lstVars
<1>3. Single'
  BY <1>2 DEF Views, Single, Open
<1>4. Fresh(k)'
  <2>1. conn[k] # "none" /\ Fresh(k)
    BY SMTT(60), <1>1 DEF Opening, Views
  <2>2. CASE ReplyForward(k)
    BY <1>2, <2>1, <2>2 DEF ReplyForward, Answered, Fresh
  <2>3. CASE SpawnForward(k)
    BY SMTT(30), <1>2, <2>1, <2>3 DEF SpawnForward, Fresh
  <2>4. CASE MapForward(k)
    <3>1. \A p \in Ports : forwards'[k][p] # None => Owner(forwards'[k][p]) = k
      BY <1>1, <2>1, <2>4 DEF MapForward, Fresh
    <3>2. QED
      BY <1>2, <2>1, <2>4, <3>1 DEF MapForward, Fresh
  <2>5. QED
    BY <2>2, <2>3, <2>4
<1>5. \A p \in Ports : Holds(k, p)' <=> Holds(k, p)
  BY <1>2 DEF Holds, Open
<1>6. ASSUME conn[k] = "up" PROVE Agree(k)'
  <2>1. Agree(k)
    BY <1>6 DEF Views
  <2>2. CASE ReplyForward(k)
    <3>1. \A p \in Ports : ~UnderWay(k, p)'
      BY <2>2 DEF ReplyForward, Answered, UnderWay
    <3>2. \A p \in Ports : UnderWay(k, p) <=> p = Port(opening[k])
      BY <2>2 DEF ReplyForward, UnderWay, Views, Fresh
    <3>3. granted'[k] = granted[k] \cup {Port(opening[k])}
      BY SMTT(30), <2>2, <1>6 DEF ReplyForward
    <3>4. \A p \in Ports : Holds(k, p)' <=> p \in granted'[k] \/ UnderWay(k, p)'
      BY <1>5, <2>1, <3>1, <3>2, <3>3 DEF Agree
    <3>5. QED
      BY <1>2, <2>1, <2>2, <3>4 DEF Agree, Open, ReplyForward
  <2>3. CASE SpawnForward(k)
    <3>1. \A p \in Ports : UnderWay(k, p)' <=> UnderWay(k, p)
      BY <2>3 DEF SpawnForward, UnderWay
    <3>2. \A p \in Ports : Holds(k, p)' <=> p \in granted'[k] \/ UnderWay(k, p)'
      BY SMTT(60), <1>5, <2>1, <2>3, <3>1 DEF Agree, SpawnForward
    <3>3. QED
      BY <1>2, <2>1, <2>3, <3>2 DEF Agree, Open, SpawnForward
  <2>4. CASE MapForward(k)
    <3>1. \A p \in Ports : UnderWay(k, p)' <=> UnderWay(k, p)
      BY <2>4 DEF MapForward, UnderWay
    <3>2. \A p \in Ports : Holds(k, p)' <=> p \in granted'[k] \/ UnderWay(k, p)'
      BY SMTT(30), <1>5, <2>1, <2>4, <3>1 DEF Agree, MapForward
    <3>3. ASSUME NEW m \in Listeners, Owner(m) = k, Open(m)' PROVE forwards'[k][Port(m)] = m
      <4>1. Open(m) /\ Open(opening[k])
        BY <1>1, <1>2, <2>1, <3>3 DEF Agree, Open
      <4>2. CASE m = opening[k]
        BY <2>4, <4>2, <1>1, ListenerParts DEF MapForward
      <4>3. CASE m # opening[k]
        <5>1. Port(m) # Port(opening[k])
          BY <1>1, <4>1, <4>3 DEF Views, Single
        <5>2. forwards[k][Port(m)] = m
          BY <2>1, <3>3, <4>1, <4>3 DEF Agree
        <5>3. QED
          BY <2>4, <5>1, <5>2, ListenerParts DEF MapForward
      <4>4. QED
        BY <4>2, <4>3
    <3>4. hpc'[k] = "range"
      BY <2>4 DEF MapForward
    <3>5. QED
      BY <3>2, <3>3, <3>4 DEF Agree
  <2>5. QED
    BY <2>2, <2>3, <2>4
<1>7. ASSUME NEW j \in Sessions \ {k} PROVE Fresh(j)' /\ (conn'[j] = "up" => Agree(j)')
  BY <1>2, OthersViews DEF ReplyForward, SpawnForward, MapForward, Answered
<1>8. QED
  BY <1>2, <1>3, <1>4, <1>6, <1>7 DEF Views

\* A cancel closes the one listener of its port.
LEMMA CancelViews == ASSUME Inv, Views, NEW k \in Sessions, HandleCancel(k) PROVE Views'
<1> USE DEF Inv, TypeOK
<1> DEFINE p == req[k].port
           l == forwards[k][p]
<1>1. /\ hpc[k] = "range" /\ req[k] # None /\ req[k].op = "cancel" /\ p \in Ports
      /\ req' = [req EXCEPT ![k] = None]
      /\ UNCHANGED <<disableTunnelling, conn, hpc, opening, granted, forwards, chk>>
  BY SMTT(60) DEF HandleCancel, Answered, Requests
<1>2. l \in Listeners \cup {None} /\ lst' = IF l = None THEN lst ELSE [lst EXCEPT ![l] = "closed"]
  BY <1>1 DEF HandleCancel
<1> HIDE DEF p, l
<1>3. \A m \in Listeners : Open(m)' <=> Open(m) /\ m # l
  BY <1>2, NoneAssumption DEF Open
<1>4. Single'
  BY SMTT(30), <1>1, <1>3 DEF Views, Single
<1>5. Fresh(k)'
  BY <1>1, <1>3 DEF Views, Fresh, Open
<1>6. ASSUME conn[k] = "up" PROVE Agree(k)'
  <2>1. Agree(k)
    BY <1>6 DEF Views
  <2>2. PICK m \in Listeners : Owner(m) = k /\ Port(m) = p /\ Open(m)
    BY <1>1, <2>1 DEF Agree, UnderWay, Holds, p
  <2>3. l = m
    BY <1>1, <2>1, <2>2 DEF Agree, l
  <2>4. \A q \in Ports : Holds(k, q)' <=> Holds(k, q) /\ q # p
    BY <1>3, <2>2, <2>3 DEF Holds, Views, Single
  <2>5. \A q \in Ports : (UnderWay(k, q) <=> q = p) /\ ~UnderWay(k, q)'
    BY <1>1 DEF UnderWay, p
  <2>6. p \notin granted[k]
    BY <1>1 DEF Views, Fresh, p
  <2>7. \A q \in Ports : Holds(k, q)' <=> q \in granted'[k] \/ UnderWay(k, q)'
    BY SMTT(60), <1>1, <2>1, <2>4, <2>5, <2>6 DEF Agree
  <2>8. QED
    BY <1>1, <1>3, <2>1, <2>7 DEF Agree
<1>7. ASSUME NEW j \in Sessions \ {k} PROVE Fresh(j)' /\ (conn'[j] = "up" => Agree(j)')
  <2>1. l \in Listeners => Owner(l) = k
    BY SMTT(60), <1>1, NoneAssumption DEF Views, Fresh, l
  <2>2. \A m \in Listeners : Owner(m) = j => lst'[m] = lst[m]
    BY <1>2, <2>1
  <2>3. QED
    BY <1>1, <2>2, OthersViews
<1>8. QED
  BY <1>1, <1>4, <1>5, <1>6, <1>7 DEF Views

\* The rest of handleRequests, checkAlive, the clients and the network.
LEMMA SessionViews ==
  ASSUME Inv, Views, NEW k \in Sessions,
         \/ RequestsEnd(k) \/ Serve(k) \/ AskOther(k) \/ ConnLost(k) \/ ServerNotices(k)
         \/ \E p \in Ports \cup {AnyPort} : AskForward(k, p)
         \/ \E p \in Ports : AskCancel(k, p)
  PROVE  Views'
<1> USE DEF Inv, TypeOK
<1>1. UNCHANGED <<disableTunnelling, opening, forwards, lst, chk>>
  BY DEF RequestsEnd, Serve, AskOther, ConnLost, ServerNotices, AskForward, AskCancel, lstVars,
         reqVars
<1>2. \A j \in Sessions : conn[j] = "down" => conn'[j] = "down"
  BY DEF RequestsEnd, Serve, AskOther, ConnLost, ServerNotices, AskForward, AskCancel
<1>3. Single'
  BY <1>1, <1>2, ListenerParts DEF Views, Single, Open
<1>4. ASSUME NEW j \in Sessions \ {k} PROVE Fresh(j)' /\ (conn'[j] = "up" => Agree(j)')
  <2>1. /\ conn'[j] = conn[j] /\ hpc'[j] = hpc[j] /\ req'[j] = req[j] /\ granted'[j] = granted[j]
    BY DEF RequestsEnd, Serve, AskOther, ConnLost, ServerNotices, AskForward, AskCancel, Ask,
           reqVars
  <2>2. QED
    BY <1>1, <2>1, OthersViews
<1>5. Fresh(k) /\ (conn[k] = "up" => Agree(k)) /\ Opening
  BY DEF Views
<1>6. \A p \in Ports : Holds(k, p)' <=> Holds(k, p)
  BY <1>1 DEF Holds, Open
<1>7. CASE RequestsEnd(k) \/ ConnLost(k) \/ ServerNotices(k)
  <2>1. Fresh(k)' /\ conn'[k] # "up"
    BY <1>1, <1>5, <1>7 DEF RequestsEnd, ConnLost, ServerNotices, Fresh, reqVars
  <2>2. QED
    BY SMTT(30), <1>3, <1>4, <2>1 DEF Views
<1>8. CASE Serve(k)
  <2>1. Fresh(k)'
    BY <1>1, <1>5, <1>8 DEF Serve, Fresh
  <2>2. \A p \in Ports : ~Holds(k, p) /\ p \notin granted'[k] /\ ~UnderWay(k, p)'
    BY SMTT(30), <1>5, <1>8 DEF Serve, Fresh, Holds, Open, UnderWay
  <2>3. Agree(k)'
    BY <1>1, <1>5, <1>6, <1>8, <2>2 DEF Agree, Serve, Fresh, Open
  <2>4. QED
    BY SMTT(30), <1>3, <1>4, <2>1, <2>3 DEF Views
<1>9. ASSUME NEW r \in Requests, Ask(k, r), UNCHANGED <<conn, hpc>>,
             r.op # "cancel" => UNCHANGED granted,
             r.op = "cancel" => r.port \in granted[k]
                                /\ granted' = [granted EXCEPT ![k] = @ \ {r.port}]
      PROVE  Views'
  <2>1. conn[k] = "up" /\ req[k] = None /\ req'[k] = r /\ r # None
    BY SMTT(60), <1>9, NoneAssumption DEF Ask
  <2>2. Fresh(k)' /\ hpc[k] # "reply"
    BY ZenonT(40), <1>1, <1>5, <1>9, <2>1 DEF Fresh
  <2>3. \A p \in Ports : ~UnderWay(k, p)
    BY ZenonT(40), <2>1, <2>2 DEF UnderWay
  <2>4. \A p \in Ports : UnderWay(k, p)' <=> r.op = "cancel" /\ r.port = p
    BY <1>9, <2>1, <2>2 DEF UnderWay
  <2>5. \A p \in Ports : p \in granted[k] <=> p \in granted'[k] \/ UnderWay(k, p)'
    BY SMTT(60), <1>9, <2>4
  <2>6. \A p \in Ports : Holds(k, p)' <=> p \in granted'[k] \/ UnderWay(k, p)'
    BY ZenonT(40), <1>5, <1>6, <2>1, <2>3, <2>5 DEF Agree
  <2>7. Agree(k)'
    BY <1>1, <1>5, <1>9, <2>1, <2>6 DEF Agree, Open
  <2>8. QED
    BY <1>3, <1>4, <2>2, <2>7 DEF Views
<1>10. CASE AskOther(k)
  BY SMTT(30), <1>9, <1>10 DEF AskOther, Requests
<1>11. ASSUME NEW p \in Ports \cup {AnyPort}, AskForward(k, p) PROVE Views'
  BY SMTT(30), <1>9, <1>11 DEF AskForward, Requests
<1>12. ASSUME NEW p \in Ports, AskCancel(k, p) PROVE Views'
  BY <1>9, <1>12 DEF AskCancel, Requests
<1>13. QED
  BY <1>7, <1>8, <1>10, <1>11, <1>12

\* checkAlive acts only for a connection that is down.
LEMMA CheckViews == ASSUME Inv, Views, NEW l \in Listeners, CheckStep(l) PROVE Views'
<1> USE DEF Inv, TypeOK
<1>1. /\ conn[Owner(l)] = "down" /\ Owner(l) \in Sessions
      /\ UNCHANGED <<disableTunnelling, conn, hpc, opening, req, granted>>
  BY ListenerParts DEF CheckStep, CheckFails, CheckDeletes, reqVars, Views, Single
<1>2. /\ lst' \in {lst, [lst EXCEPT ![l] = "closed"]}
      /\ chk' = [chk EXCEPT ![l] = chk'[l]]
      /\ forwards' \in {forwards, [forwards EXCEPT ![Owner(l)][Port(l)] = None]}
  BY DEF CheckStep, CheckFails, CheckDeletes, reqVars
<1>3. Single'
  BY SMTT(30), <1>1, <1>2 DEF Views, Single, Open
<1>4. ASSUME NEW j \in Sessions, j # Owner(l)
      PROVE  Fresh(j)' /\ (conn'[j] = "up" => Agree(j)')
  BY SMTT(30), <1>1, <1>2, <1>4, OthersViews
<1>5. Fresh(Owner(l))'
  BY <1>1, <1>2, ListenerParts DEF Views, Fresh
<1>6. QED
  BY <1>1, <1>3, <1>4, <1>5 DEF Views

\* The tcp connections, and nothing happening, change none of it.
LEMMA IdleViews ==
  ASSUME Inv, Views, UNCHANGED <<disableTunnelling, conn, reqVars, lstVars>> PROVE Views'
<1>1. Single'
  BY SMTT(60) DEF Views, Single, Open, lstVars
<1>2. \A j \in Sessions : Fresh(j)' /\ (conn'[j] = "up" => Agree(j)')
  BY OthersViews DEF reqVars, lstVars
<1>3. QED
  BY <1>1, <1>2 DEF Views

\* Whenever no request is under way, the ports a client holds are those on which
\* the server listens for it, and a cancel finds the listener.
THEOREM ViewsAgreeAlways == Spec => []ViewsAgree
<1>1. Inv /\ Views /\ [Next]_vars => Views'
  <2> SUFFICES ASSUME Inv, Views, [Next]_vars PROVE Views'
    OBVIOUS
  <2>1. ASSUME NEW k \in Sessions, RequestStep(k) PROVE Views'
    BY SMTT(60), <2>1, SimpleViews, ListenViews, ForwardViews, CancelViews, SessionViews
    DEF RequestStep
  <2>2. ASSUME NEW c \in Conns,
               \/ TcpStep(c) \/ PartyLeaves(c)
               \/ \E k \in Sessions : OpenDirect(k, c)
               \/ \E l \in Listeners : AcceptClient(l, c)
        PROVE  Views'
    BY <2>2, IdleViews
    DEF TcpStep, OpenChannel, OpenChannelFails, DirectAccept, DirectDial, CopyEnds, PartyLeaves,
        OpenDirect, AcceptClient
  <2>3. CASE UNCHANGED vars
    BY SMTT(30), <2>3, IdleViews DEF vars
  <2>4. QED
    BY <2>1, <2>2, <2>3, SessionViews, CheckViews DEF Next
<1>2. Inv /\ Views => ViewsAgree
  <2> SUFFICES ASSUME Inv, Views, NEW k \in Sessions, conn[k] = "up", hpc[k] = "range",
                      req[k] = None
               PROVE  /\ granted[k] = {Port(l) : l \in {m \in Listeners : Owner(m) = k
                                                                         /\ lst[m] = "open"}}
                      /\ \A p \in granted[k] : forwards[k][p] # None
                                               /\ lst[forwards[k][p]] = "open"
    BY DEF ViewsAgree
  <2>1. Agree(k) /\ granted[k] \subseteq Ports
    BY SMTT(60) DEF Views, Inv, TypeOK
  <2>2. \A p \in Ports : p \in granted[k] <=> Holds(k, p)
    BY <2>1 DEF Agree, UnderWay
  <2>3. granted[k] = {Port(l) : l \in {m \in Listeners : Owner(m) = k /\ lst[m] = "open"}}
    BY <2>1, <2>2, ListenerParts DEF Holds, Open
  <2>4. ASSUME NEW p \in granted[k]
        PROVE  forwards[k][p] # None /\ lst[forwards[k][p]] = "open"
    BY <2>1, <2>2, NoneAssumption DEF Agree, Holds, Open
  <2>5. QED
    BY SMTT(60), <2>3, <2>4
<1>3. QED
  BY Invariance, InitViews, <1>1, <1>2, PTL DEF Spec
==============================================================================

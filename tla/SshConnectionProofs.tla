------------------------- MODULE SshConnectionProofs -------------------------
(***************************************************************************)
(* The safety of SshConnection for any number of jump hosts, stoppers and  *)
(* users, and that it implements Link.                                     *)
(***************************************************************************)
EXTENDS SshConnection, TLAPS

\* Where Start is while ReadyWait lets users through.
Serving == {"setstatus", "keepalive", "reset", "closed", "rearm"}

\* The inductive invariant.  The counter, the client and the status are each
\* tied to the position of Start; a user that was released, even if it has
\* not run since, has seen a client; a client was only assigned over a chain
\* that was verified host by host.
Inv ==
  /\ TypeOK
  /\ connected.n = IF pc \in Serving THEN 0 ELSE 1
  /\ pc \in Serving \cup {"release"} => client # "nil"
  /\ pc \notin {"release", "setstatus", "keepalive", "reset"} => client # "open"
  /\ pc = "reset" => client = "closed"
  /\ status = "CONNECTED" => pc \in {"keepalive", "reset", "closed"}
  /\ connected.woken # {} => client # "nil"
  /\ (\E u \in Users : upc[u] = "ready") => client # "nil"
  /\ pc = "assign" => reached = Server
  /\ ~Insecure /\ pc \in {"dial", "assign"} =>
       \A h \in Hosts : h <= reached => known[h] = "match"
  /\ ~Insecure /\ client # "nil" => \A h \in Hosts : known[h] = "match"
  /\ pc = "new" => client = "nil"

\* NewSshConnection establishes the invariant.
LEMMA InitInv == Init => Inv
  BY SMTT(30), ConnectionAssumption
  DEF Init, Inv, TypeOK, PCs, Serving, NewWaitGroup, WaitGroups, Hosts, Server, JumpHosts

\* The goroutine of Start preserves the invariant.
LEMMA StartInv == Inv /\ StartStep => Inv'
<1> SUFFICES ASSUME Inv, StartStep PROVE Inv'
  OBVIOUS
<1> USE ConnectionAssumption DEF Inv, TypeOK, PCs, Serving, WaitGroups, Hosts, Server,
        JumpHosts, connVars, hostVars, Goto
<1>1. CASE StartCall
  BY <1>1 DEF StartCall
<1>2. CASE CheckStopped
  BY <1>2 DEF CheckStopped
<1>3. CASE SetConnecting
  BY <1>3 DEF SetConnecting
<1>4. ASSUME NEW h \in Hosts, ReachHost(h) PROVE Inv'
  <2>1. ~Insecure => known[h] = "match"
    BY <1>4 DEF ReachHost, Verdict
  <2>2. TypeOK'
    BY <1>4 DEF ReachHost, CreateKnownHosts
  <2>3. QED
    BY <1>4, <2>1, <2>2 DEF ReachHost
<1>5. CASE DialFails
  BY <1>5 DEF DialFails
<1>6. CASE DialFatal
  BY <1>6 DEF DialFatal, CreateKnownHosts
<1>7. CASE SleepEnds
  BY <1>7 DEF SleepEnds
<1>8. CASE AssignClient
  BY <1>8 DEF AssignClient
<1>9. CASE ConnectedDone
  BY <1>9 DEF ConnectedDone, WGAdd
<1>10. CASE SetConnected
  BY <1>10 DEF SetConnected
<1>11. CASE KeepAliveFails
  BY <1>11 DEF KeepAliveFails
<1>12. CASE ResetClose
  BY <1>12 DEF ResetClose, CloseClient
<1>13. CASE ResetStatus
  BY <1>13 DEF ResetStatus
<1>14. CASE ConnectedAdd
  BY <1>14 DEF ConnectedAdd, WGAdd
<1>15. QED
  BY <1>1, <1>2, <1>3, <1>4, <1>5, <1>6, <1>7, <1>8, <1>9, <1>10, <1>11, <1>12,
     <1>13, <1>14 DEF StartStep

\* The callers of Stop, the users, GrabPubKey and the network preserve it.
LEMMA OthersInv ==
  /\ Inv
  /\ \/ GrabPubKey
     \/ \E s \in Stoppers : StopStep(s)
     \/ \E u \in Users : UserStep(u)
     \/ ServerFails
     \/ \E h \in JumpHosts : JumpHostFails(h)
  => Inv'
<1> SUFFICES ASSUME Inv,
                    \/ GrabPubKey
                    \/ \E s \in Stoppers : StopStep(s)
                    \/ \E u \in Users : UserStep(u)
                    \/ ServerFails
                    \/ \E h \in JumpHosts : JumpHostFails(h)
             PROVE Inv'
  OBVIOUS
<1> USE ConnectionAssumption DEF Inv, TypeOK, PCs, Serving, WaitGroups, Hosts, Server,
        JumpHosts, connVars, hostVars
<1>1. CASE GrabPubKey
  BY <1>1 DEF GrabPubKey, CreateKnownHosts
<1>2. ASSUME NEW s \in Stoppers, StopFlag(s) PROVE Inv'
  BY <1>2 DEF StopFlag
<1>3. ASSUME NEW s \in Stoppers, StopClose(s) PROVE Inv'
  BY <1>3 DEF StopClose, CloseClient
<1>4. ASSUME NEW s \in Stoppers, StopStatus(s) PROVE Inv'
  BY <1>4 DEF StopStatus
<1>5. ASSUME NEW u \in Users, ReadyWait(u) PROVE Inv'
  BY <1>5 DEF ReadyWait, WGBlock
<1>6. ASSUME NEW u \in Users, WaitReturns(u) PROVE Inv'
  BY <1>6 DEF WaitReturns, WGReturn, WGReused
<1>7. ASSUME NEW u \in Users, UseClient(u) PROVE Inv'
  BY <1>7 DEF UseClient
<1>8. CASE ServerFails
  BY <1>8 DEF ServerFails
<1>9. ASSUME NEW h \in JumpHosts, JumpHostFails(h) PROVE Inv'
  <2>1. jumpOpen' \in SUBSET JumpHosts
    BY <1>9 DEF JumpHostFails
  <2>2. client' = IF client = "open" THEN "closed" ELSE client
    BY <1>9 DEF JumpHostFails
  <2>3. UNCHANGED <<pc, reached, connected, status, isStopped, hostVars, spc, upc, halted>>
    BY <1>9 DEF JumpHostFails
  <2>4. QED
    BY <2>1, <2>2, <2>3
<1>10. QED
  BY <1>1, <1>2, <1>3, <1>4, <1>5, <1>6, <1>7, <1>8, <1>9 DEF StopStep, UserStep

\* A step that changes nothing preserves it.
LEMMA StutterInv == Inv /\ UNCHANGED vars => Inv'
  BY DEF Inv, TypeOK, vars, connVars, hostVars

\* Every reachable state satisfies the inductive invariant.
THEOREM Invariance == Spec => []Inv
<1>1. Inv /\ [Next]_vars => Inv'
  BY StartInv, OthersInv, StutterInv DEF Next
<1>2. QED
  BY InitInv, <1>1, PTL DEF Spec

\* The variables keep their types.
THEOREM TypeCorrect == Spec => []TypeOK
<1>1. Inv => TypeOK
  BY DEF Inv
<1>2. QED
  BY Invariance, <1>1, PTL

\* ReadyWait lets a user through, now or earlier, only if s.Client is set.
THEOREM ReadyHasClientAlways == Spec => []ReadyHasClient
<1>1. Inv => ReadyHasClient
  BY DEF Inv, ReadyHasClient, Serving
<1>2. QED
  BY Invariance, <1>1, PTL

\* The wait group's counter, the status and the client that Start leaves
\* behind agree, whatever Stop and the network do between the steps.
THEOREM SignalsAgreeAlways == Spec => []SignalsAgree
<1>1. Inv => SignalsAgree
  BY DEF Inv, SignalsAgree, Serving
<1>2. QED
  BY Invariance, <1>1, PTL

\* Unless host checking is off, s.Client is only set over verified hosts.
THEOREM TrustedChainAlways == Spec => []TrustedChain
<1>1. Inv => TrustedChain
  BY DEF Inv, TrustedChain
<1>2. QED
  BY Invariance, <1>1, PTL

\* The connection implements the link its users rely on: every step is a step
\* of Link or leaves its state alone.
THEOREM Refinement == Spec => ImplementsLink
<1> USE DEF AbstractLink!LinkInit, AbstractLink!LinkNext, AbstractLink!linkVars,
            AbstractLink!Replace, AbstractLink!Announce, AbstractLink!Drop,
            AbstractLink!Retract, AbstractLink!Halt
<1>1. Init => AbstractLink!LinkInit
  BY DEF Init, NewWaitGroup
<1>2. ASSUME Inv, [Next]_vars
      PROVE  [AbstractLink!LinkNext]_(AbstractLink!linkVars)
  <2> USE ConnectionAssumption DEF Inv, TypeOK, WaitGroups, Serving, connVars, Goto
  <2>1. CASE StartStep
    <3>1. CASE StartCall \/ CheckStopped \/ SetConnecting \/ DialFails \/ SleepEnds
               \/ SetConnected \/ KeepAliveFails \/ ResetStatus
      BY <1>2, <3>1 DEF StartCall, CheckStopped, SetConnecting, DialFails, SleepEnds,
                  SetConnected, KeepAliveFails, ResetStatus
    <3>2. CASE \E h \in Hosts : ReachHost(h)
      BY <1>2, <3>2 DEF ReachHost
    <3>3. CASE DialFatal
      BY <1>2, <3>3 DEF DialFatal
    <3>4. CASE AssignClient
      BY <1>2, <3>4 DEF AssignClient
    <3>5. CASE ConnectedDone
      BY <1>2, <3>5 DEF ConnectedDone, WGAdd
    <3>6. CASE ResetClose
      BY <1>2, <3>6 DEF ResetClose, CloseClient
    <3>7. CASE ConnectedAdd
      BY <1>2, <3>7 DEF ConnectedAdd, WGAdd
    <3>8. QED
      BY <2>1, <3>1, <3>2, <3>3, <3>4, <3>5, <3>6, <3>7 DEF StartStep
  <2>2. CASE GrabPubKey
    BY <1>2, <2>2 DEF GrabPubKey
  <2>3. CASE \E s \in Stoppers : StopStep(s)
    BY <1>2, <2>3 DEF StopStep, StopFlag, StopClose, StopStatus, CloseClient
  <2>4. CASE \E u \in Users : UserStep(u)
    BY <1>2, <2>4 DEF UserStep, ReadyWait, WaitReturns, UseClient, WGBlock, WGReturn
  <2>5. CASE ServerFails \/ \E h \in JumpHosts : JumpHostFails(h)
    BY <1>2, <2>5 DEF ServerFails, JumpHostFails
  <2>6. CASE UNCHANGED vars
    BY <1>2, <2>6 DEF vars
  <2>7. QED
    BY <1>2, <2>1, <2>2, <2>3, <2>4, <2>5, <2>6 DEF Next
<1>3. QED
  BY <1>1, <1>2, Invariance, PTL DEF Spec, ImplementsLink, AbstractLink!LinkSpec
==============================================================================

-------------------------- MODULE ServerLoginProofs --------------------------
(***************************************************************************)
(* The safety of ServerLogin for any sources, edits, clients and crashes.  *)
(***************************************************************************)
EXTENDS ServerLogin, FiniteSetTheorems, TLAPS

\* What any source may add.
AnyKeys == UNION {KeysOf(t) : t \in Texts \cup {Unreadable}}

\* The types the proof needs.
Types ==
  /\ cpc \in [Conns -> {"new", "handshake", "auth", "keyauth", "in", "failed", "over"}]
  /\ tried \in [Conns -> Nat] /\ failures \in [Conns -> Nat]
  /\ offer \in [Conns -> ClientKinds \cup {NoOffer}]
  /\ dropped \in [Conns -> BOOLEAN]
  /\ load \in [Loaders -> [at : Nat \ {0}, res : SUBSET AnyKeys]]
  /\ seen \in [Conns -> [once : SUBSET SourceIds, always : SUBSET SourceIds]]
  /\ text \in [SourceIds -> Texts \cup {Unreadable}]
  /\ keyFile \in [is : {"none", "partial", "key"}, key : Nat]
  /\ hostKey \in Nat /\ generated \in Nat

\* The key in memory is the one in the file before anybody is served, and a
\* key that was shown stays in the file if the file is never misread.
Identity ==
  /\ spc = "write" /\ ~misread => keyFile.is = "none"
  /\ spc = "writing" => keyFile.is = "partial"
  /\ spc \in {"load", "listen", "serving"} => keyFile = [is |-> "key", key |-> hostKey]
  /\ ~misread => \A i \in presented : keyFile = [is |-> "key", key |-> i]
  /\ \A c \in Conns : cpc[c] \notin {"new", "over"} => spc = "serving"

\* What keyAuth of c has found so far, against what the sources said meanwhile.
Attempt(c) ==
  /\ \A i \in SourceIds : KeyOf(c) \in KeysOf(text[i]) => i \in seen[c].once
  /\ \A i \in seen[c].always : KeyOf(c) \in KeysOf(text[i])
  /\ KeyOf(c) \in load[c].res => seen[c].once # {}
  /\ \A i \in seen[c].always : i < load[c].at => KeyOf(c) \in load[c].res

Attempts ==
  \A c \in Conns : IF cpc[c] = "keyauth" THEN Attempt(c) ELSE load[c] = NotLoading

\* A client that knows the password has failed only with the keys it tried.
Tally(c) ==
  /\ cpc[c] \in {"new", "handshake"} => tried[c] = 0 /\ failures[c] = 0 /\ ~dropped[c]
  /\ tried[c] <= Len(offer[c].keys)
  /\ offer[c].password = "right" =>
       /\ cpc[c] = "auth" => failures[c] = tried[c]
       /\ cpc[c] = "keyauth" => failures[c] + 1 = tried[c]

Tallies == \A c \in Conns : Tally(c)

Inv == Types /\ Identity /\ Attempts /\ Tallies /\ PasswordIsReached

\* The keys a client may have.
LEMMA OfferKeys ==
  ASSUME NEW o \in ClientKinds \cup {NoOffer} PROVE o.keys \in Seq(Keys)
<1>1. CASE o \in ClientKinds
  BY <1>1, LoginAssumption DEF ClientKinds
<1>2. CASE o = NoOffer
  BY <1>2 DEF NoOffer
<1>3. QED
  BY <1>1, <1>2

\* A client that is not there yet has nothing.
LEMMA NoOfferFacts == NoOffer.keys = <<>> /\ NoOffer.password = "none"
  BY DEF NoOffer

\* Nor has a load that has not begun.
LEMMA NotLoadingType ==
  /\ NotLoading \in [at : Nat \ {0}, res : SUBSET AnyKeys]
  /\ NotLoading.at = 1 /\ NotLoading.res = {}
  BY DEF NotLoading

\* It holds before the process starts.
LEMMA InitInv == Init => Inv
<1> SUFFICES ASSUME Init PROVE Inv
  OBVIOUS
<1>1. Types
  <2>1. load \in [Loaders -> [at : Nat \ {0}, res : SUBSET AnyKeys]]
    BY DEF Init, NotLoading
  <2>2. seen \in [Conns -> [once : SUBSET SourceIds, always : SUBSET SourceIds]]
    BY DEF Init, NotSeen
  <2>3. QED
    BY <2>1, <2>2 DEF Init, Types
<1>2. Identity
  BY DEF Init, Identity
<1>3. Attempts
  BY DEF Init, Attempts, Loaders
<1>4. Tallies /\ PasswordIsReached
  BY NoOfferFacts DEF Init, Tallies, Tally, PasswordIsReached
<1>5. QED
  BY <1>1, <1>2, <1>3, <1>4 DEF Inv

\* Reading a source keeps the type of what was loaded.
LEMMA LoadSourceType ==
  ASSUME Inv, NEW x \in Loaders, LoadSource(x)
  PROVE  /\ load' \in [Loaders -> [at : Nat \ {0}, res : SUBSET AnyKeys]]
         /\ load' = [load EXCEPT ![x] = [at |-> load[x].at + 1,
                                         res |-> load[x].res \cup KeysOf(text[load[x].at])]]
         /\ load[x].at \in SourceIds
<1>1. load[x].at \in Nat \ {0} /\ load[x].res \in SUBSET AnyKeys
  BY DEF Inv, Types
<1>2. load[x].at \in SourceIds
  BY <1>1, LoginAssumption DEF LoadSource, Loaded, SourceIds
<1>3. KeysOf(text[load[x].at]) \in SUBSET AnyKeys
  BY <1>2 DEF Inv, Types, AnyKeys
<1>4. QED
  BY <1>1, <1>2, <1>3 DEF LoadSource, Inv, Types

\* The end of the process forgets the connections.
LEMMA EndsInv ==
  ASSUME Inv, ProcessEnds,
         UNCHANGED keyFile
  PROVE  Inv'
<1>1. Types'
  <2>1. cpc' \in [Conns -> {"new", "handshake", "auth", "keyauth", "in", "failed", "over"}]
    BY DEF Inv, Types, ProcessEnds
  <2>2. load' \in [Loaders -> [at : Nat \ {0}, res : SUBSET AnyKeys]]
    BY DEF ProcessEnds, NotLoading
  <2>3. seen' \in [Conns -> [once : SUBSET SourceIds, always : SUBSET SourceIds]]
    BY DEF ProcessEnds, NotSeen
  <2>4. QED
    BY <2>1, <2>2, <2>3 DEF Inv, Types, ProcessEnds
<1>2. Identity'
  BY DEF Inv, Types, Identity, ProcessEnds
<1>3. Attempts'
  BY DEF Inv, Types, Attempts, Loaders, ProcessEnds
<1>4. Tallies' /\ PasswordIsReached'
  BY NoOfferFacts DEF Tallies, Tally, PasswordIsReached, ProcessEnds
<1>5. QED
  BY <1>1, <1>2, <1>3, <1>4 DEF Inv

\* NewSshServer and Start preserve it.
LEMMA BootInv ==
  ASSUME Inv, BootStep \/ ReadKeyFails \/ WriteKeyFails \/ ListenFails \/ Crash PROVE Inv'
<1>1. CASE ParseKeyFails \/ NoAuthorizedKeys \/ WriteKeyFails \/ ListenFails \/ Crash
  BY <1>1, EndsInv DEF ParseKeyFails, NoAuthorizedKeys, WriteKeyFails, ListenFails, Crash
<1>2. ASSUME UNCHANGED <<connVars, text, password>>,
             keyFile' \in [is : {"none", "partial", "key"}, key : Nat],
             hostKey' \in Nat, generated' \in Nat,
             \A c \in Conns : load'[c] = load[c],
             load' \in [Loaders -> [at : Nat \ {0}, res : SUBSET AnyKeys]],
             Identity'
      PROVE  Inv'
  BY <1>2 DEF Inv, Types, Attempts, Attempt, KeyOf, Tallies, Tally, PasswordIsReached, connVars
<1>3. ASSUME UNCHANGED <<connVars, text, password, load>>, Identity',
             keyFile' \in [is : {"none", "partial", "key"}, key : Nat],
             hostKey' \in Nat, generated' \in Nat
      PROVE  Inv'
  BY <1>2, <1>3 DEF Inv, Types
<1>4. CASE StartProcess
  BY <1>3, <1>4 DEF StartProcess, Inv, Types, Identity, connVars
<1>5. CASE ReadKey
  <2>1. Identity'
    BY <1>5 DEF ReadKey, Inv, Types, Identity, connVars
  <2>2. QED
    BY <1>3, <1>5, <2>1 DEF ReadKey, Inv, Types
<1>6. CASE WriteKeyBegin
  BY <1>3, <1>6 DEF WriteKeyBegin, Inv, Types, Identity, connVars
<1>7. CASE WriteKeyEnd
  BY <1>3, <1>7 DEF WriteKeyEnd, Inv, Types, Identity, connVars
<1>8. CASE LoadSource(Boot)
  <2>1. Identity'
    BY <1>8 DEF LoadSource, Inv, Identity, connVars, bootVars
  <2>2. \A c \in Conns : load'[c] = load[c]
    BY <1>8, LoadSourceType, LoginAssumption DEF Inv, Types, Loaders
  <2>3. QED
    BY <1>2, <1>8, <2>1, <2>2, LoadSourceType DEF LoadSource, Loaders, bootVars, Inv, Types
<1>9. CASE ServerBuilt
  <2>1. Identity'
    BY <1>9 DEF ServerBuilt, Inv, Identity, connVars
  <2>2. load' \in [Loaders -> [at : Nat \ {0}, res : SUBSET AnyKeys]]
    BY <1>9, NotLoadingType DEF ServerBuilt, Inv, Types
  <2>3. \A c \in Conns : load'[c] = load[c]
    BY <1>9, LoginAssumption DEF ServerBuilt, Inv, Types, Loaders
  <2>4. QED
    BY <1>2, <1>9, <2>1, <2>2, <2>3 DEF ServerBuilt, Inv, Types
<1>10. CASE ListenOk
  BY <1>3, <1>10 DEF ListenOk, Inv, Types, Identity, connVars
<1>11. CASE ReadKeyFails
  <2>1. Identity'
    BY <1>11 DEF ReadKeyFails, Inv, Types, Identity, connVars
  <2>2. QED
    BY <1>3, <1>11, <2>1 DEF ReadKeyFails, Inv, Types
<1>12. QED
  BY <1>1, <1>4, <1>5, <1>6, <1>7, <1>8, <1>9, <1>10, <1>11 DEF BootStep

\* A connection that is not in keyAuth before or after moves on.
LEMMA MoveInv ==
  ASSUME Inv, NEW c \in Conns, cpc[c] # "keyauth",
         NEW s \in {"handshake", "auth", "in", "failed", "over"},
         cpc' = [cpc EXCEPT ![c] = s],
         s # "over" => spc = "serving",
         UNCHANGED <<password, text, keyFile, hostKey, generated, misread, spc, load, seen>>,
         presented' \in {presented, presented \cup {hostKey}},
         presented' = presented \/ spc = "serving",
         tried' \in [Conns -> Nat], failures' \in [Conns -> Nat],
         offer' \in [Conns -> ClientKinds \cup {NoOffer}], dropped' \in [Conns -> BOOLEAN],
         \A d \in Conns \ {c} :
           /\ tried'[d] = tried[d] /\ failures'[d] = failures[d]
           /\ offer'[d] = offer[d] /\ dropped'[d] = dropped[d],
         Tally(c)',
         password /\ offer'[c].password = "right" /\ Len(offer'[c].keys) <= 2 => ~dropped'[c]
  PROVE  Inv'
<1>1. Types'
  BY DEF Inv, Types
<1>2. Identity'
  BY DEF Inv, Types, Identity
<1>3. Attempts'
  BY DEF Inv, Types, Attempts, Attempt, KeyOf
<1>4. Tallies'
  BY DEF Inv, Types, Tallies, Tally
<1>5. PasswordIsReached'
  BY DEF Inv, Types, PasswordIsReached
<1>6. QED
  BY <1>1, <1>2, <1>3, <1>4, <1>5 DEF Inv

\* The steps outside keyAuth preserve it.
LEMMA ConnInv ==
  ASSUME Inv, NEW c \in Conns,
         \/ Accept(c) \/ Handshake(c) \/ PasswordTaken(c) \/ PasswordRefused(c)
         \/ LoginFails(c) \/ SessionEnds(c) \/ ClientLeaves(c)
  PROVE  Inv'
<1> USE DEF Inv, Types
<1>a. offer[c] \in ClientKinds \cup {NoOffer} /\ Tally(c)
  BY DEF Tallies
<1>b. offer[c].keys \in Seq(Keys) /\ Len(offer[c].keys) \in Nat
  BY <1>a, OfferKeys
<1>1. CASE Accept(c)
  <2>1. PICK o \in ClientKinds : offer' = [offer EXCEPT ![c] = o]
    BY <1>1 DEF Accept
  <2>2. o.keys \in Seq(Keys) /\ Len(o.keys) \in Nat
    BY OfferKeys
  <2>3. Tally(c)'
    BY <1>1, <1>a, <2>1, <2>2 DEF Accept, Tally
  <2>4. ~dropped'[c]
    BY <1>1, <1>a DEF Accept, Tally
  <2>5. QED
    BY <1>1, <2>1, <2>3, <2>4, MoveInv DEF Accept, bootVars
<1>2. ASSUME NEW s \in {"auth", "in", "failed"}, cpc' = [cpc EXCEPT ![c] = s],
             cpc[c] \notin {"new", "keyauth", "over"},
             presented' \in {presented, presented \cup {hostKey}},
             s = "auth" => cpc[c] = "handshake",
             UNCHANGED <<password, text, keyFile, hostKey, generated, misread, spc, load, seen, tried,
                         failures, offer, dropped>>
      PROVE  Inv'
  <2>1. spc = "serving"
    BY <1>2 DEF Identity
  <2>2. Tally(c)'
    BY <1>2, <1>a DEF Tally
  <2>3. password /\ offer[c].password = "right" /\ Len(offer[c].keys) <= 2 => ~dropped[c]
    BY DEF PasswordIsReached
  <2>4. QED
    BY <1>2, <2>1, <2>2, <2>3, MoveInv
<1>3. CASE Handshake(c)
  BY <1>2, <1>3 DEF Handshake
<1>4. CASE PasswordTaken(c) \/ LoginFails(c)
  BY <1>2, <1>4 DEF PasswordTaken, LoginFails, bootVars
<1>5. CASE PasswordRefused(c)
  <2>1. PICK s \in {"auth", "failed"} : cpc' = [cpc EXCEPT ![c] = s]
    BY <1>5 DEF PasswordRefused, AttemptFails
  <2>2. spc = "serving"
    BY <1>5 DEF PasswordRefused, Identity
  <2>3. Tally(c)' /\ failures' \in [Conns -> Nat]
    BY <1>5, <1>a, <2>1 DEF PasswordRefused, AttemptFails, Tally
  <2>4. dropped' \in [Conns -> BOOLEAN]
    BY SMTT(60), <1>5 DEF PasswordRefused, AttemptFails
  <2>5. QED
    BY <1>5, <2>1, <2>2, <2>3, <2>4, MoveInv DEF PasswordRefused, AttemptFails, bootVars
<1>6. CASE SessionEnds(c)
  <2>1. cpc' = [cpc EXCEPT ![c] = "over"] /\ cpc[c] # "keyauth"
    BY SMTT(30), <1>6 DEF SessionEnds
  <2>2. Tally(c)'
    <3>1. cpc'[c] = "over" /\ offer'[c] = NoOffer /\ tried'[c] = 0
      BY SMTT(30), <1>6, <2>1 DEF SessionEnds, Forgotten
    <3>2. offer'[c].keys = <<>> /\ offer'[c].password = "none"
      BY SMTT(30), <3>1, NoOfferFacts
    <3>3. tried'[c] <= Len(offer'[c].keys)
      BY <3>1, <3>2
    <3>4. QED
      BY <3>1, <3>2, <3>3 DEF Tally
  <2>3. ~dropped'[c]
    BY SMTT(60), <1>6 DEF SessionEnds, Forgotten
  <2>4. QED
    BY <1>6, <2>1, <2>2, <2>3, MoveInv DEF SessionEnds, Forgotten, bootVars
<1>7. CASE ClientLeaves(c)
  BY ZenonT(40), <1>7
  DEF ClientLeaves, bootVars, Identity, Attempts, Attempt, KeyOf, Tallies, Tally, PasswordIsReached
<1>8. QED
  BY <1>1, <1>3, <1>4, <1>5, <1>6, <1>7

\* keyAuth begins with what the sources list now.
LEMMA OfferKeyInv == ASSUME Inv, NEW c \in Conns, OfferKey(c) PROVE Inv'
<1> DEFINE k == offer[c].keys[tried[c] + 1]
<1>1. /\ cpc[c] = "auth" /\ tried[c] < Len(offer[c].keys)
      /\ tried' = [tried EXCEPT ![c] = @ + 1]
      /\ cpc' = [cpc EXCEPT ![c] = "keyauth"]
      /\ seen' = [seen EXCEPT ![c] = [once |-> Listing(k), always |-> Listing(k)]]
      /\ UNCHANGED <<password, text, keyFile, hostKey, generated, misread, presented, spc, offer,
                     failures, dropped, load>>
  BY DEF OfferKey, bootVars
<1>2. /\ tried \in [Conns -> Nat] /\ failures \in [Conns -> Nat] /\ DOMAIN cpc = Conns
      /\ DOMAIN seen = Conns /\ offer[c] \in ClientKinds \cup {NoOffer}
  BY SMTT(60) DEF Inv, Types
<1>3. Tally(c) /\ load[c] = NotLoading
  BY SMTT(30), <1>1 DEF Inv, Tallies, Attempts
<1>4. Len(offer[c].keys) \in Nat
  BY <1>2, OfferKeys
<1>5. KeyOf(c)' = k
  BY <1>1, <1>2 DEF KeyOf
<1> HIDE DEF k
<1>6. /\ tried'[c] = tried[c] + 1 /\ cpc'[c] = "keyauth" /\ tried[c] \in Nat /\ failures[c] \in Nat
      /\ seen'[c] = [once |-> Listing(k), always |-> Listing(k)]
  BY <1>1, <1>2
<1>7. ASSUME NEW d \in Conns \ {c}
      PROVE  tried'[d] = tried[d] /\ cpc'[d] = cpc[d] /\ seen'[d] = seen[d]
  BY <1>1, <1>2
<1>8. Types'
  <2>1. Listing(k) \in SUBSET SourceIds
    BY SMTT(30) DEF Listing
  <2>2. QED
    BY <1>1, <2>1, SMTT(30) DEF Inv, Types
<1>9. Identity'
  BY <1>1, <1>6, <1>7, SMTT(30) DEF Inv, Identity
<1>10. Attempts'
  <2>1. Attempt(c)'
    BY <1>1, <1>3, <1>5, <1>6, NotLoadingType, SMTT(30) DEF Attempt, Listing, SourceIds
  <2>2. ASSUME NEW d \in Conns \ {c}, cpc[d] = "keyauth" PROVE Attempt(d)'
    <3>1. Attempt(d)
      BY SMTT(60), <2>2 DEF Inv, Attempts
    <3>2. QED
      BY <1>1, <1>7, <2>2, <3>1 DEF Attempt, KeyOf
  <2>3. ASSUME NEW d \in Conns \ {c}, cpc[d] # "keyauth" PROVE load'[d] = NotLoading
    BY <1>1, <2>3 DEF Inv, Attempts
  <2>4. QED
    BY SMTT(30), <1>6, <1>7, <2>1, <2>2, <2>3 DEF Attempts
<1>11. Tallies'
  <2>1. tried'[c] <= Len(offer'[c].keys)
    BY SMTT(30), <1>1, <1>4, <1>6
  <2>2. offer[c].password = "right" => failures'[c] + 1 = tried'[c]
    BY SMTT(30), <1>1, <1>3, <1>6 DEF Tally
  <2>3. Tally(c)'
    BY SMTT(30), <1>1, <1>6, <2>1, <2>2 DEF Tally
  <2>4. ASSUME NEW d \in Conns \ {c} PROVE Tally(d)'
    <3>1. Tally(d)
      BY SMTT(60), <2>4 DEF Inv, Tallies
    <3>2. QED
      BY <1>1, <1>7, <2>4, <3>1 DEF Tally
  <2>5. QED
    BY <2>3, <2>4 DEF Tallies
<1>12. PasswordIsReached'
  BY <1>1 DEF Inv, PasswordIsReached
<1>13. QED
  BY <1>8, <1>9, <1>10, <1>11, <1>12 DEF Inv

\* It reads source by source.
LEMMA KeyLoadInv == ASSUME Inv, NEW c \in Conns, LoadSource(c) PROVE Inv'
<1>1. c \in Loaders
  BY DEF Loaders
<1>2. cpc[c] = "keyauth" /\ UNCHANGED <<text, seen, tried, offer, cpc>>
  BY LoginAssumption DEF LoadSource, Loading, connVars
<1>3. Attempt(c) /\ load \in [Loaders -> [at : Nat \ {0}, res : SUBSET AnyKeys]]
  BY <1>2 DEF Inv, Attempts, Types
<1>4. /\ load' = [load EXCEPT ![c] = [at |-> load[c].at + 1,
                                      res |-> load[c].res \cup KeysOf(text[load[c].at])]]
      /\ load[c].at \in SourceIds
  BY <1>1, LoadSourceType
<1>5. load'[c] = [at |-> load[c].at + 1, res |-> load[c].res \cup KeysOf(text[load[c].at])]
  BY <1>1, <1>3, <1>4
<1>6. \A d \in Conns \ {c} : load'[d] = load[d]
  BY <1>3, <1>4 DEF Loaders
<1>7. seen \in [Conns -> [once : SUBSET SourceIds, always : SUBSET SourceIds]]
  BY SMTT(30) DEF Inv, Types
<1>8. Attempt(c)'
  BY <1>2, <1>3, <1>4, <1>5, <1>7, SMTT(30) DEF Attempt, KeyOf, SourceIds
<1>9. Attempts'
  <2>1. ASSUME NEW d \in Conns \ {c}, cpc[d] = "keyauth" PROVE Attempt(d)'
    <3>1. Attempt(d)
      BY <2>1 DEF Inv, Attempts
    <3>2. QED
      BY <1>2, <1>6, <2>1, <3>1 DEF Attempt, KeyOf
  <2>2. ASSUME NEW d \in Conns \ {c}, cpc[d] # "keyauth" PROVE load'[d] = NotLoading
    BY SMTT(30), <1>6, <2>2 DEF Inv, Attempts
  <2>3. QED
    BY SMTT(30), <1>2, <1>8, <2>1, <2>2 DEF Attempts
<1>10. Types'
  BY <1>1, LoadSourceType DEF LoadSource, connVars, bootVars, Inv, Types
<1>11. Identity' /\ Tallies' /\ PasswordIsReached'
  BY DEF LoadSource, connVars, bootVars, Inv, Identity, Tallies, Tally, PasswordIsReached
<1>12. QED
  BY <1>9, <1>10, <1>11 DEF Inv

\* It ends, and forgets what it has loaded.
LEMMA KeyAuthEnds ==
  ASSUME Inv, NEW c \in Conns, cpc[c] = "keyauth", KeyAuthReturns(c),
         NEW s \in {"in", "auth", "failed"}, cpc' = [cpc EXCEPT ![c] = s],
         UNCHANGED <<text, tried, offer, bootVars>>
  PROVE  /\ Attempts' /\ Identity'
         /\ load' \in [Loaders -> [at : Nat \ {0}, res : SUBSET AnyKeys]]
         /\ seen' \in [Conns -> [once : SUBSET SourceIds, always : SUBSET SourceIds]]
<1>1. /\ c \in Loaders /\ Conns \subseteq Loaders /\ DOMAIN cpc = Conns
      /\ load \in [Loaders -> [at : Nat \ {0}, res : SUBSET AnyKeys]]
      /\ seen \in [Conns -> [once : SUBSET SourceIds, always : SUBSET SourceIds]]
  BY DEF Loaders, Inv, Types
<1>2. load' = [load EXCEPT ![c] = NotLoading] /\ seen' = [seen EXCEPT ![c] = NotSeen]
  BY DEF KeyAuthReturns
<1>3. load' \in [Loaders -> [at : Nat \ {0}, res : SUBSET AnyKeys]]
  BY <1>1, <1>2, NotLoadingType, Zenon
<1>4. seen' \in [Conns -> [once : SUBSET SourceIds, always : SUBSET SourceIds]]
  <2>1. NotSeen \in [once : SUBSET SourceIds, always : SUBSET SourceIds]
    BY DEF NotSeen
  <2>2. QED
    BY <1>1, <1>2, <2>1, ZenonT(40)
<1>5. cpc'[c] = s /\ load'[c] = NotLoading
  BY <1>1, <1>2
<1>6. ASSUME NEW d \in Conns \ {c}
      PROVE  cpc'[d] = cpc[d] /\ load'[d] = load[d] /\ seen'[d] = seen[d]
  BY <1>1, <1>2
<1>7. Attempts'
  <2>1. ASSUME NEW d \in Conns \ {c}, cpc[d] = "keyauth" PROVE Attempt(d)'
    <3>1. Attempt(d)
      BY <2>1 DEF Inv, Attempts
    <3>2. QED
      BY SMTT(30), <1>6, <2>1, <3>1 DEF Attempt, KeyOf
  <2>2. ASSUME NEW d \in Conns \ {c}, cpc[d] # "keyauth" PROVE load'[d] = NotLoading
    BY SMTT(30), <1>6, <2>2 DEF Inv, Attempts
  <2>3. QED
    BY SMTT(30), <1>5, <1>6, <2>1, <2>2 DEF Attempts
<1>8. Identity'
  <2>1. \A d \in Conns : cpc'[d] \notin {"new", "over"} => cpc[d] \notin {"new", "over"}
    BY SMTT(30), <1>5, <1>6
  <2>2. QED
    BY <2>1 DEF Inv, Identity, bootVars
<1>9. QED
  BY <1>3, <1>4, <1>7, <1>8

\* So do the steps of keyAuth.
LEMMA KeyAuthInv ==
  ASSUME Inv, NEW c \in Conns,
         OfferKey(c) \/ LoadSource(c) \/ KeyTaken(c) \/ KeyRefused(c)
  PROVE  Inv'
<1> USE DEF Inv, Types
<1>a. offer[c] \in ClientKinds \cup {NoOffer} /\ Tally(c)
  BY DEF Tallies
<1>b. offer[c].keys \in Seq(Keys) /\ Len(offer[c].keys) \in Nat
  BY SMTT(30), <1>a, OfferKeys
<1>1. CASE OfferKey(c)
  BY <1>1, OfferKeyInv
<1>2. CASE LoadSource(c)
  BY SMTT(30), <1>2, KeyLoadInv
<1>3. CASE KeyTaken(c)
  <2>1. Attempts' /\ Identity' /\ Types'
    BY <1>3, KeyAuthEnds DEF KeyTaken, bootVars
  <2>2. QED
    BY SMTT(30), <1>3, <2>1 DEF KeyTaken, Tallies, Tally, PasswordIsReached
<1>4. CASE KeyRefused(c)
  <2>1. PICK s \in {"auth", "failed"} : cpc' = [cpc EXCEPT ![c] = s]
    BY <1>4 DEF KeyRefused, AttemptFails
  <2>2. failures' \in [Conns -> Nat] /\ dropped' \in [Conns -> BOOLEAN]
    BY <1>4 DEF KeyRefused, AttemptFails
  <2>3. Attempts' /\ Identity' /\ Types'
    BY <1>4, <2>1, <2>2, KeyAuthEnds DEF KeyRefused, bootVars
  <2>4. Tallies'
    BY <1>4, <1>a, <2>1 DEF KeyRefused, AttemptFails, Tallies, Tally
  <2>5. password /\ offer[c].password = "right" /\ Len(offer[c].keys) <= 2 => ~dropped'[c]
    <3>1. password /\ offer[c].password = "right" /\ Len(offer[c].keys) <= 2
            => ~(failures[c] + 1 >= MaxAuthTries)
      BY <1>4, <1>a, <1>b DEF KeyRefused, Tally, MaxAuthTries
    <3>2. dropped'[c] = (failures[c] + 1 >= MaxAuthTries)
      BY <1>4 DEF KeyRefused, AttemptFails
    <3>3. QED
      BY <3>1, <3>2
  <2>6. PasswordIsReached'
    BY <1>4, <2>5 DEF KeyRefused, AttemptFails, PasswordIsReached
  <2>7. QED
    BY <2>3, <2>4, <2>6
<1>5. QED
  BY <1>1, <1>2, <1>3, <1>4

\* So does an edit.
LEMMA EditInv == ASSUME Inv, NEW i \in SourceIds, Edit(i) PROVE Inv'
<1> USE DEF Inv, Types
<1>1. PICK t \in Texts \cup {Unreadable} :
        /\ text' = [text EXCEPT ![i] = t]
        /\ seen' = [c \in Conns |->
             IF cpc[c] # "keyauth" THEN seen[c]
             ELSE IF KeyOf(c) \in KeysOf(t) THEN [seen[c] EXCEPT !.once = @ \cup {i}]
             ELSE [seen[c] EXCEPT !.always = @ \ {i}]]
  BY DEF Edit
<1>2. seen' \in [Conns -> [once : SUBSET SourceIds, always : SUBSET SourceIds]]
  BY <1>1
<1>3. ASSUME NEW c \in Conns, cpc[c] = "keyauth" PROVE Attempt(c)'
  <2>1. Attempt(c) /\ KeyOf(c)' = KeyOf(c) /\ load'[c] = load[c]
    BY <1>3 DEF Attempts, Edit, KeyOf
  <2>2. CASE KeyOf(c) \in KeysOf(t)
    BY <1>1, <1>3, <2>1, <2>2 DEF Attempt
  <2>3. CASE KeyOf(c) \notin KeysOf(t)
    BY <1>1, <1>3, <2>1, <2>3 DEF Attempt
  <2>4. QED
    BY <2>2, <2>3
<1>4. Attempts'
  BY SMTT(60), <1>3 DEF Edit, Attempts
<1>5. QED
  BY <1>1, <1>2, <1>4 DEF Edit, Identity, Tallies, Tally, PasswordIsReached, bootVars

\* Nothing happening preserves it.
LEMMA StutterInv == ASSUME Inv, UNCHANGED vars PROVE Inv'
  BY DEF Inv, Types, Identity, Attempts, Attempt, KeyOf, Tallies, Tally, PasswordIsReached, vars,
         bootVars, connVars

\* Every reachable state satisfies the inductive invariant.
THEOREM Invariance == Spec => []Inv
<1>1. Inv /\ [Next]_vars => Inv'
  BY BootInv, ConnInv, KeyAuthInv, EditInv, StutterInv DEF Next, ConnStep, ClientStep
<1>2. QED
  BY InitInv, <1>1, PTL DEF Spec

\* No client is ever shown another host key than the clients before it, unless
\* the key file was there and could not be read.
THEOREM IdentityKeptAlways == Spec => []IdentityKept
<1>1. Inv => IdentityKept
  BY DEF Inv, Identity, IdentityKept
<1>2. QED
  BY Invariance, <1>1, PTL

\* keyAuth takes a key only if a source listed it during the attempt.
THEOREM NoStaleKeyAlways == Spec => NoStaleKey
<1>1. Inv /\ [Next]_vars => [\A c \in Conns : KeyTaken(c) => seen[c].once # {}]_vars
  BY DEF Inv, Attempts, Attempt, KeyTaken
<1>2. QED
  BY Invariance, <1>1, PTL DEF Spec, NoStaleKey

\* keyAuth does not refuse a key that a source listed all through the attempt.
THEOREM OtherSourcesCountAlways == Spec => OtherSourcesCount
<1>1. Inv /\ [Next]_vars => [\A c \in Conns : KeyRefused(c) => seen[c].always = {}]_vars
  <2> SUFFICES ASSUME Inv, NEW c \in Conns, KeyRefused(c) PROVE seen[c].always = {}
    OBVIOUS
  <2>1. \A i \in SourceIds : i < load[c].at
    BY LoginAssumption DEF KeyRefused, Loaded, SourceIds, Inv, Types, Loaders
  <2>2. QED
    BY <2>1 DEF KeyRefused, Inv, Types, Attempts, Attempt
<1>2. QED
  BY Invariance, <1>1, PTL DEF Spec, OtherSourcesCount

\* A client that knows the password is not disconnected for its keys.
THEOREM PasswordIsReachedAlways == Spec => []PasswordIsReached
<1>1. Inv => PasswordIsReached
  BY DEF Inv
<1>2. QED
  BY Invariance, <1>1, PTL

------------------------------------------------------------------------------
(* The count of sessions *)

\* The connections that are in serveConnection.
Served == {c \in Conns : cpc[c] \notin {"new", "over"}}

\* GetActiveSessionsCount is their number: each is counted once, and uncounted
\* once however its login and its session end.
SessionsCounted == IsFiniteSet(Served) /\ activeSessions = Cardinality(Served)

\* A step of a connection that neither begins nor ends there.
LEMMA ServedOn ==
  ASSUME Inv, SessionsCounted, UNCHANGED activeSessions,
         \/ UNCHANGED cpc
         \/ \E c \in Conns : /\ cpc[c] \notin {"new", "over"}
                              /\ \E to \in {"auth", "keyauth", "in", "failed"} :
                                   cpc' = [cpc EXCEPT ![c] = to]
  PROVE  SessionsCounted'
<1>1. Served' = Served
  BY SMTT(30) DEF Served, Inv, Types
<1>2. QED
  BY <1>1 DEF SessionsCounted

\* The server and its process.
LEMMA BootCounted ==
  ASSUME Inv, SessionsCounted, BootStep \/ ReadKeyFails \/ WriteKeyFails \/ ListenFails \/ Crash
  PROVE  SessionsCounted'
<1>1. CASE UNCHANGED <<activeSessions, cpc>>
  BY <1>1, ServedOn
<1>2. CASE ProcessEnds
  <2>1. activeSessions' = 0 /\ Served' = {}
    BY <1>2 DEF ProcessEnds, Served
  <2>2. QED
    BY <2>1, FS_EmptySet DEF SessionsCounted
<1>3. QED
  BY <1>1, <1>2 DEF BootStep, ReadKeyFails, WriteKeyFails, ListenFails, Crash, StartProcess, ReadKey,
     ParseKeyFails, WriteKeyBegin, WriteKeyEnd, LoadSource, NoAuthorizedKeys, ServerBuilt, ListenOk,
     connVars

\* The beginning and the end of serveConnection.
LEMMA EndsCounted ==
  ASSUME Inv, SessionsCounted, NEW c \in Conns, Accept(c) \/ SessionEnds(c)
  PROVE  SessionsCounted'
<1>1. IsFiniteSet(Served) /\ activeSessions = Cardinality(Served) /\ Cardinality(Served) \in Nat
  BY FS_CardinalityType DEF SessionsCounted
<1>2. CASE Accept(c)
  <2>1. Served' = Served \cup {c} /\ c \notin Served /\ activeSessions' = activeSessions + 1
    BY <1>2 DEF Accept, Served, Inv, Types
  <2>2. QED
    BY SMTT(30), <1>1, <2>1, FS_AddElement DEF SessionsCounted
<1>3. CASE SessionEnds(c)
  <2>1. Served' = Served \ {c} /\ c \in Served /\ activeSessions' = activeSessions - 1
    BY <1>3 DEF SessionEnds, Served, Inv, Types
  <2>2. QED
    BY <1>1, <2>1, FS_RemoveElement DEF SessionsCounted
<1>4. QED
  BY <1>2, <1>3

\* The login.
LEMMA LoginCounted ==
  ASSUME Inv, SessionsCounted, NEW c \in Conns,
         LoadSource(c) \/ KeyTaken(c) \/ KeyRefused(c) \/ LoginFails(c) \/ ClientStep(c)
           \/ ClientLeaves(c)
  PROVE  SessionsCounted'
<1>1. CASE LoadSource(c) \/ ClientLeaves(c)
  <2>1. UNCHANGED <<activeSessions, cpc>>
    BY <1>1 DEF LoadSource, ClientLeaves, connVars
  <2>2. QED
    BY SMTT(30), <2>1, ServedOn
<1>2. CASE KeyTaken(c) \/ KeyRefused(c) \/ LoginFails(c) \/ ClientStep(c)
  <2>1. UNCHANGED activeSessions /\ cpc[c] \notin {"new", "over"}
    BY <1>2 DEF KeyTaken, KeyRefused, LoginFails, ClientStep, Handshake, OfferKey, PasswordTaken,
                PasswordRefused
  <2>2. \E to \in {"auth", "keyauth", "in", "failed"} : cpc' = [cpc EXCEPT ![c] = to]
    BY <1>2 DEF KeyTaken, KeyRefused, LoginFails, ClientStep, Handshake, OfferKey, PasswordTaken,
                PasswordRefused, AttemptFails
  <2>3. QED
    BY ZenonT(40), <2>1, <2>2, ServedOn
<1>3. QED
  BY <1>1, <1>2

\* The count of active sessions that serveConnection keeps and
\* GetActiveSessionsCount returns is exact at every moment, whether logins
\* succeed, fail, are cut off or abandoned.
THEOREM SessionsCountedAlways == Spec => []SessionsCounted
<1>1. Init => SessionsCounted
  <2>1. Init => Served = {} /\ activeSessions = 0
    BY DEF Init, Served
  <2>2. QED
    BY <2>1, FS_EmptySet DEF SessionsCounted
<1>2. Inv /\ SessionsCounted /\ [Next]_vars => SessionsCounted'
  <2> SUFFICES ASSUME Inv, SessionsCounted, [Next]_vars PROVE SessionsCounted'
    OBVIOUS
  <2>1. CASE BootStep \/ ReadKeyFails \/ WriteKeyFails \/ ListenFails \/ Crash
    BY <2>1, BootCounted
  <2>2. ASSUME NEW c \in Conns, Accept(c) \/ ConnStep(c) \/ ClientStep(c) \/ ClientLeaves(c)
        PROVE  SessionsCounted'
    BY <2>2, EndsCounted, LoginCounted DEF ConnStep
  <2>3. CASE (\E i \in SourceIds : Edit(i)) \/ UNCHANGED vars
    <3>1. UNCHANGED <<activeSessions, cpc>>
      BY <2>3 DEF Edit, vars, connVars
    <3>2. QED
      BY <3>1, ServedOn
  <2>4. QED
    BY <2>1, <2>2, <2>3 DEF Next
<1>3. QED
  BY <1>1, <1>2, Invariance, PTL DEF Spec
==============================================================================

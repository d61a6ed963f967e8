----------------------------- MODULE ServerLogin -----------------------------
(***************************************************************************)
(* pkg/sshd/server.go: how the server comes up and how a client logs in.   *)
(* NewSshServer finds its own key or makes one, and looks whether anybody  *)
(* could log in; Start listens; serveConnection counts a connection and    *)
(* logs it in, with keys that loadAuthorizedKeys reads again for every     *)
(* attempt, source by source, while somebody edits the sources.  The       *)
(* process may crash and is started again.  What x/crypto/ssh does between *)
(* the callbacks is modelled from how Start configures it.                 *)
(***************************************************************************)
EXTENDS Naturals, Sequences, FiniteSets

CONSTANTS Conns,       \* the tcp connections, each accepted once
          Keys,        \* public keys of users
          Junk,        \* a blank line, a comment or a line that is no key
          Texts,       \* what a source may hold: sequences of keys and Junk
          Unreadable,  \* no such file, no answer
          NSources,    \* Len(s.authorizedKeysURI)
          Offers,      \* the sequences of keys a client may have
          Boot,        \* NewSshServer, as one that loads the keys
          MaxEdits,    \* bound: how often a source changes
          MaxCrashes   \* bound: how often the process is killed or panics

ASSUME LoginAssumption ==
  /\ Junk \notin Keys /\ Boot \notin Conns
  /\ Texts \subseteq Seq(Keys \cup {Junk}) /\ Unreadable \notin Texts
  /\ Offers \subseteq Seq(Keys)
  /\ NSources \in Nat /\ MaxEdits \in Nat /\ MaxCrashes \in Nat

SourceIds == 1 .. NSources
ClientKinds == [keys : Offers, password : {"right", "wrong"}]
NoOffer == [keys |-> <<>>, password |-> "none"]
Loaders == Conns \cup {Boot}
NotLoading == [at |-> 1, res |-> {}]
NotSeen == [once |-> {}, always |-> {}]
Identities == 1 .. MaxCrashes + 2

VARIABLES
  password,        \* s.password # ""
  disableAuth,     \* s.disableAuth
  text,            \* what each source holds
  edits, crashes,
  keyFile,         \* the file conf.Key: "none", "partial" or "key", and which
  hostKey,         \* s.hostPrivateKey: 0 before there is one
  generated,       \* how many keys were generated
  misread,         \* history: the key file was there and os.ReadFile failed
  presented,       \* history: the host keys that clients were shown
  spc,             \* where the server process is
  activeSessions,  \* s.activeSessions
  cpc,             \* where each serveConnection is
  offer,           \* what its client has: keys and whether it knows the password
  tried,           \* how many of the keys it has offered
  failures,        \* the failed attempts x/crypto/ssh has counted
  alive,           \* the client is still there
  dropped,         \* history: disconnected for too many failures
  load,            \* each loadAuthorizedKeys: the source it is at and res
  seen             \* history: the sources that listed the key under way at some
                   \* moment of this attempt, and those that did all along

bootVars == <<keyFile, hostKey, generated, misread, presented, spc, crashes>>
connVars == <<activeSessions, cpc, offer, tried, failures, alive, dropped, seen>>
vars == <<password, disableAuth, text, edits, bootVars, connVars, load>>

TypeOK ==
  /\ password \in BOOLEAN /\ disableAuth \in BOOLEAN
  /\ text \in [SourceIds -> Texts \cup {Unreadable}]
  /\ edits \in 0 .. MaxEdits /\ crashes \in 0 .. MaxCrashes
  /\ keyFile \in [is : {"none", "partial", "key"}, key : Identities \cup {0}]
  /\ hostKey \in Identities \cup {0} /\ generated \in Identities \cup {0}
  /\ misread \in BOOLEAN /\ presented \subseteq Identities
  /\ spc \in {"down", "readkey", "write", "writing", "load", "listen", "serving"}
  /\ activeSessions \in 0 .. Cardinality(Conns)
  /\ cpc \in [Conns -> {"new", "handshake", "auth", "keyauth", "in", "failed", "over"}]
  /\ offer \in [Conns -> ClientKinds \cup {NoOffer}]
  /\ tried \in [Conns -> Nat] /\ failures \in [Conns -> Nat]
  /\ alive \in [Conns -> BOOLEAN] /\ dropped \in [Conns -> BOOLEAN]
  /\ load \in [Loaders -> [at : 1 .. NSources + 1, res : SUBSET Keys]]
  /\ seen \in [Conns -> [once : SUBSET SourceIds, always : SUBSET SourceIds]]

Init ==
  /\ password \in BOOLEAN /\ disableAuth \in BOOLEAN
  /\ text \in [SourceIds -> Texts \cup {Unreadable}]
  /\ edits = 0 /\ crashes = 0
  /\ keyFile = [is |-> "none", key |-> 0] /\ hostKey = 0 /\ generated = 0 /\ misread = FALSE
  /\ presented = {}
  /\ spc = "down"
  /\ activeSessions = 0
  /\ cpc = [c \in Conns |-> "new"]
  /\ offer = [c \in Conns |-> NoOffer]
  /\ tried = [c \in Conns |-> 0]
  /\ failures = [c \in Conns |-> 0]
  /\ alive = [c \in Conns |-> TRUE]
  /\ dropped = [c \in Conns |-> FALSE]
  /\ load = [x \in Loaders |-> NotLoading]
  /\ seen = [c \in Conns |-> NotSeen]

------------------------------------------------------------------------------
(* parseAuthorizedKeysBytes and loadAuthorizedKeys *)

\* The lines from n on at which ssh.ParseAuthorizedKey may find a key, past junk.
KeysFrom(bytes, n) == {i \in n .. Len(bytes) : bytes[i] # Junk}

\* The loop of parseAuthorizedKeysBytes, from line n on: it takes one key after
\* the other and fails if what is left has none.
parseAuthorizedKeysBytes(bytes) ==
  LET first(n) == CHOOSE i \in KeysFrom(bytes, n) : \A j \in KeysFrom(bytes, n) : i <= j
      parse[n \in 1 .. Len(bytes) + 1] ==
        IF n > Len(bytes) THEN [err |-> FALSE, keys |-> {}]
        ELSE IF KeysFrom(bytes, n) = {} THEN [err |-> TRUE, keys |-> {}]
        ELSE [parse[first(n) + 1] EXCEPT !.keys = @ \cup {bytes[first(n)]}]
  IN parse[1]

\* The keys a source adds: none if it cannot be read or parsed.
KeysOf(t) ==
  IF t = Unreadable THEN {}
  ELSE LET result == parseAuthorizedKeysBytes(t)
       IN IF result.err THEN {} ELSE result.keys

Loading(x) == IF x = Boot THEN spc = "load" /\ ~disableAuth ELSE cpc[x] = "keyauth"
Loaded(x) == load[x].at > NSources

\* Mutated: a source that fails ends the load.
LoadSourceAborts(x) ==
  /\ Loading(x) /\ ~Loaded(x)
  /\ load' = [load EXCEPT ![x] =
       IF text[@.at] = Unreadable THEN [@ EXCEPT !.at = NSources + 1]
       ELSE [at |-> @.at + 1, res |-> @.res \cup KeysOf(text[@.at])]]
  /\ UNCHANGED <<password, disableAuth, text, edits, bootVars, connVars>>

\* The next of s.authorizedKeysURI is read and merged.
LoadSource(x) ==
  /\ Loading(x) /\ ~Loaded(x)
  /\ load' = [load EXCEPT ![x] = [at |-> @.at + 1, res |-> @.res \cup KeysOf(text[@.at])]]
  /\ UNCHANGED <<password, disableAuth, text, edits, bootVars, connVars>>

------------------------------------------------------------------------------
(* NewSshServer and Start *)

\* The process ends: killed, by a panic or by log.Fatal.  Its connections end
\* with it.
ProcessEnds ==
  /\ spc' = "down"
  /\ hostKey' = 0
  /\ activeSessions' = 0
  /\ cpc' = [c \in Conns |-> IF cpc[c] = "new" THEN "new" ELSE "over"]
  /\ load' = [x \in Loaders |-> NotLoading]
  /\ seen' = [c \in Conns |-> NotSeen]
  /\ offer' = [c \in Conns |-> NoOffer]
  /\ tried' = [c \in Conns |-> 0]
  /\ failures' = [c \in Conns |-> 0]
  /\ alive' = [c \in Conns |-> TRUE]
  /\ dropped' = [c \in Conns |-> FALSE]
  /\ UNCHANGED <<password, disableAuth, text, edits, presented, generated, misread>>

StartProcess ==
  /\ spc = "down"
  /\ spc' = "readkey"
  /\ UNCHANGED <<password, disableAuth, text, edits, keyFile, hostKey, generated, misread,
                 presented, crashes, connVars, load>>

\* os.ReadFile(keyPath): there is a key, or there is no file and one is made.
ReadKey ==
  /\ spc = "readkey" /\ keyFile.is # "partial"
  /\ IF keyFile.is = "none"
     THEN hostKey' = generated + 1 /\ generated' = generated + 1 /\ spc' = "write"
     ELSE hostKey' = keyFile.key /\ UNCHANGED generated /\ spc' = "load"
  /\ UNCHANGED <<password, disableAuth, text, edits, keyFile, misread, presented, crashes,
                 connVars, load>>

\* os.ReadFile fails although the file is there: any error is taken for a
\* missing file, and a key is made in place of the old one.  (Bound: once.)
ReadKeyFails ==
  /\ spc = "readkey" /\ keyFile.is # "none"
  /\ ~misread /\ misread' = TRUE
  /\ hostKey' = generated + 1 /\ generated' = generated + 1
  /\ spc' = "write"
  /\ UNCHANGED <<password, disableAuth, text, edits, keyFile, presented, crashes, connVars,
                 load>>

\* ssh.ParsePrivateKey fails on what an interrupted write left: log.Fatalln
ParseKeyFails ==
  /\ spc = "readkey" /\ keyFile.is = "partial"
  /\ ProcessEnds
  /\ UNCHANGED <<keyFile, crashes>>

\* Mutated: the new key is not saved.
KeyNotSaved ==
  /\ spc = "write"
  /\ spc' = "load"
  /\ UNCHANGED <<password, disableAuth, text, edits, keyFile, hostKey, generated, misread,
                 presented, crashes, connVars, load>>

\* utils.WriteKeyToFile creates the file, then writes it.
WriteKeyBegin ==
  /\ spc = "write"
  /\ keyFile' = [is |-> "partial", key |-> 0]
  /\ spc' = "writing"
  /\ UNCHANGED <<password, disableAuth, text, edits, hostKey, generated, misread, presented,
                 crashes, connVars, load>>

WriteKeyEnd ==
  /\ spc = "writing"
  /\ keyFile' = [is |-> "key", key |-> hostKey]
  /\ spc' = "load"
  /\ UNCHANGED <<password, disableAuth, text, edits, hostKey, generated, misread, presented,
                 crashes, connVars, load>>

\* It returns an error before the file is there, or halfway: panic(err)
WriteKeyFails ==
  /\ spc \in {"write", "writing"}
  /\ crashes < MaxCrashes /\ crashes' = crashes + 1
  /\ ProcessEnds
  /\ UNCHANGED keyFile

\* Nobody could log in: log.Fatalf
NoAuthorizedKeys ==
  /\ spc = "load" /\ ~disableAuth
  /\ Loaded(Boot) /\ load[Boot].res = {} /\ ~password
  /\ ProcessEnds
  /\ UNCHANGED <<keyFile, crashes>>

ServerBuilt ==
  /\ spc = "load"
  /\ \/ disableAuth
     \/ Loaded(Boot) /\ (load[Boot].res # {} \/ password)
  /\ spc' = "listen"
  /\ load' = [load EXCEPT ![Boot] = NotLoading]
  /\ UNCHANGED <<password, disableAuth, text, edits, keyFile, hostKey, generated, misread,
                 presented, crashes, connVars>>

ListenOk ==
  /\ spc = "listen"
  /\ spc' = "serving"
  /\ UNCHANGED <<password, disableAuth, text, edits, keyFile, hostKey, generated, misread,
                 presented, crashes, connVars, load>>

\* net.Listen fails: log.Fatal(err)
ListenFails ==
  /\ spc = "listen"
  /\ crashes < MaxCrashes /\ crashes' = crashes + 1
  /\ ProcessEnds
  /\ UNCHANGED keyFile

Crash ==
  /\ spc # "down"
  /\ crashes < MaxCrashes /\ crashes' = crashes + 1
  /\ ProcessEnds
  /\ UNCHANGED keyFile

------------------------------------------------------------------------------
(* serveConnection *)

Accept(c) ==
  /\ spc = "serving" /\ cpc[c] = "new"
  /\ cpc' = [cpc EXCEPT ![c] = "handshake"]
  /\ activeSessions' = activeSessions + 1
  /\ \E o \in ClientKinds : offer' = [offer EXCEPT ![c] = o]
  /\ UNCHANGED <<password, disableAuth, text, edits, bootVars, tried, failures, alive, dropped,
                 load, seen>>

\* ssh.NewServerConn: the client is shown the host key and asks for "none",
\* which is enough with NoClientAuth and costs nothing otherwise.
Handshake(c) ==
  /\ cpc[c] = "handshake" /\ alive[c]
  /\ presented' = presented \cup {hostKey}
  /\ cpc' = [cpc EXCEPT ![c] = IF disableAuth THEN "in" ELSE "auth"]
  /\ UNCHANGED <<password, disableAuth, text, edits, keyFile, hostKey, generated, misread, spc,
                 crashes, activeSessions, offer, tried, failures, alive, dropped, load, seen>>

Listing(k) == {i \in SourceIds : k \in KeysOf(text[i])}

\* The key that client c offers.
KeyOf(c) == offer[c].keys[tried[c]]

\* The client offers its next key: keyAuth begins.
OfferKey(c) ==
  /\ cpc[c] = "auth" /\ alive[c] /\ tried[c] < Len(offer[c].keys)
  /\ tried' = [tried EXCEPT ![c] = @ + 1]
  /\ cpc' = [cpc EXCEPT ![c] = "keyauth"]
  /\ LET now == Listing(offer[c].keys[tried[c] + 1])
     IN seen' = [seen EXCEPT ![c] = [once |-> now, always |-> now]]
  /\ UNCHANGED <<password, disableAuth, text, edits, bootVars, activeSessions, offer, failures,
                 alive, dropped, load>>

\* Mutated: one try for everybody.
OneTry == 1

\* config.MaxAuthTries
MaxAuthTries == IF password THEN 3 ELSE 1

\* An attempt failed: the next method, or the connection is given up.
AttemptFails(c) ==
  /\ failures' = [failures EXCEPT ![c] = @ + 1]
  /\ dropped' = [dropped EXCEPT ![c] = failures[c] + 1 >= MaxAuthTries]
  /\ cpc' = [cpc EXCEPT ![c] = IF failures[c] + 1 >= MaxAuthTries THEN "failed" ELSE "auth"]

\* Mutated: the connection keeps the keys it loaded.
KeyAuthKeeps(c) ==
  /\ UNCHANGED load
  /\ seen' = [seen EXCEPT ![c] = NotSeen]

\* authorizedKeysMap is local to the call.
KeyAuthReturns(c) ==
  /\ load' = [load EXCEPT ![c] = NotLoading]
  /\ seen' = [seen EXCEPT ![c] = NotSeen]

\* keyAuth returns.  A key that it takes is proved with a signature, for which
\* x/crypto/ssh remembers this answer.
KeyTaken(c) ==
  /\ cpc[c] = "keyauth" /\ Loaded(c) /\ KeyOf(c) \in load[c].res
  /\ cpc' = [cpc EXCEPT ![c] = "in"]
  /\ KeyAuthReturns(c)
  /\ UNCHANGED <<password, disableAuth, text, edits, bootVars, activeSessions, offer, tried,
                 failures, alive, dropped>>

KeyRefused(c) ==
  /\ cpc[c] = "keyauth" /\ Loaded(c) /\ KeyOf(c) \notin load[c].res
  /\ AttemptFails(c)
  /\ KeyAuthReturns(c)
  /\ UNCHANGED <<password, disableAuth, text, edits, bootVars, activeSessions, offer, tried,
                 alive>>

\* Its keys used up, the client sends its password, if the server takes one:
\* passwordAuth
PasswordTaken(c) ==
  /\ cpc[c] = "auth" /\ alive[c] /\ tried[c] = Len(offer[c].keys)
  /\ password /\ offer[c].password = "right"
  /\ cpc' = [cpc EXCEPT ![c] = "in"]
  /\ UNCHANGED <<password, disableAuth, text, edits, bootVars, activeSessions, offer, tried,
                 failures, alive, dropped, load, seen>>

PasswordRefused(c) ==
  /\ cpc[c] = "auth" /\ alive[c] /\ tried[c] = Len(offer[c].keys)
  /\ password /\ offer[c].password = "wrong"
  /\ AttemptFails(c)
  /\ UNCHANGED <<password, disableAuth, text, edits, bootVars, activeSessions, offer, tried,
                 alive, load, seen>>

\* The client, out of methods or at any time, or the network.
ClientLeaves(c) ==
  /\ cpc[c] \in {"handshake", "auth", "keyauth", "in"} /\ alive[c]
  /\ alive' = [alive EXCEPT ![c] = FALSE]
  /\ UNCHANGED <<password, disableAuth, text, edits, bootVars, activeSessions, cpc, offer,
                 tried, failures, dropped, load, seen>>

\* NewServerConn returns an error.
LoginFails(c) ==
  /\ cpc[c] \in {"handshake", "auth"} /\ ~alive[c]
  /\ cpc' = [cpc EXCEPT ![c] = "failed"]
  /\ UNCHANGED <<password, disableAuth, text, edits, bootVars, activeSessions, offer, tried,
                 failures, alive, dropped, load, seen>>

\* Nothing is left of the connection.
Forgotten(c) ==
  /\ offer' = [offer EXCEPT ![c] = NoOffer]
  /\ tried' = [tried EXCEPT ![c] = 0]
  /\ failures' = [failures EXCEPT ![c] = 0]
  /\ alive' = [alive EXCEPT ![c] = TRUE]
  /\ dropped' = [dropped EXCEPT ![c] = FALSE]

\* Mutated: a login that failed is not uncounted.
SessionEndsUncounted(c) ==
  /\ \/ cpc[c] = "failed"
     \/ cpc[c] = "in" /\ ~alive[c]
  /\ cpc' = [cpc EXCEPT ![c] = "over"]
  /\ activeSessions' = IF cpc[c] = "failed" THEN activeSessions ELSE activeSessions - 1
  /\ Forgotten(c)
  /\ UNCHANGED <<password, disableAuth, text, edits, bootVars, load, seen>>

\* serveConnection returns, also when handleChannels does: the deferred
\* function uncounts the session.
SessionEnds(c) ==
  /\ \/ cpc[c] = "failed"
     \/ cpc[c] = "in" /\ ~alive[c]
  /\ cpc' = [cpc EXCEPT ![c] = "over"]
  /\ activeSessions' = activeSessions - 1
  /\ Forgotten(c)
  /\ UNCHANGED <<password, disableAuth, text, edits, bootVars, load, seen>>

------------------------------------------------------------------------------
\* Somebody edits a source, or it cannot be reached any more.
Edit(i) ==
  /\ edits < MaxEdits /\ edits' = edits + 1
  /\ \E t \in Texts \cup {Unreadable} :
       /\ text' = [text EXCEPT ![i] = t]
       /\ seen' = [c \in Conns |->
            IF cpc[c] # "keyauth" THEN seen[c]
            ELSE IF KeyOf(c) \in KeysOf(t) THEN [seen[c] EXCEPT !.once = @ \cup {i}]
            ELSE [seen[c] EXCEPT !.always = @ \ {i}]]
  /\ UNCHANGED <<password, disableAuth, bootVars, activeSessions, cpc, offer, tried, failures,
                 alive, dropped, load>>

BootStep ==
  \/ StartProcess \/ ReadKey \/ ParseKeyFails \/ WriteKeyBegin \/ WriteKeyEnd \/ LoadSource(Boot)
  \/ NoAuthorizedKeys \/ ServerBuilt \/ ListenOk

ConnStep(c) ==
  \/ LoadSource(c) \/ KeyTaken(c) \/ KeyRefused(c) \/ LoginFails(c) \/ SessionEnds(c)

ClientStep(c) == Handshake(c) \/ OfferKey(c) \/ PasswordTaken(c) \/ PasswordRefused(c)

Next ==
  \/ BootStep \/ ReadKeyFails \/ WriteKeyFails \/ ListenFails \/ Crash
  \/ \E c \in Conns : Accept(c) \/ ConnStep(c) \/ ClientStep(c) \/ ClientLeaves(c)
  \/ \E i \in SourceIds : Edit(i)

Spec == Init /\ [][Next]_vars

\* The process runs and its goroutines are scheduled: a source is read or fails
\* to be read.  No client has to say anything.
Fairness == WF_vars(BootStep) /\ \A c \in Conns : WF_vars(ConnStep(c))

FairSpec == Spec /\ Fairness

------------------------------------------------------------------------------
(* Safety *)

\* The server keeps its identity: whatever is killed or fails on the way up, no
\* client is ever shown another host key than the clients before it, unless the
\* key file was there and could not be read.
IdentityKept == ~misread => \A i, j \in presented : i = j

\* keyAuth goes by what the sources say now: it takes a key only if a source
\* listed it at some moment of this very attempt, so a key that was removed
\* before is refused.
NoStaleKey ==
  [][\A c \in Conns : KeyTaken(c) => seen[c].once # {}]_vars

\* A source that cannot be read or parsed costs the others nothing: a key that
\* one source listed all through the attempt is not refused.
OtherSourcesCount ==
  [][\A c \in Conns : KeyRefused(c) => seen[c].always = {}]_vars

\* A client that knows the password gets to use it although its keys, one or
\* two, are refused before: it is not disconnected for too many failures.
PasswordIsReached ==
  \A c \in Conns :
    password /\ offer[c].password = "right" /\ Len(offer[c].keys) <= 2 => ~dropped[c]

(* Liveness *)

\* GetActiveSessionsCount comes down again: once their clients have left, no
\* matter how far the login was, only the sessions that are served are counted.
SessionsUncounted ==
  []<>(activeSessions <=
         Cardinality({c \in Conns : cpc[c] \notin {"new", "over"} /\ alive[c] /\ ~dropped[c]}))
==============================================================================

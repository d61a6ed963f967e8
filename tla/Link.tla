-------------------------------- MODULE Link ---------------------------------
(***************************************************************************)
(* What an SshConnection promises the components that use it (tunnels,     *)
(* proxies, SFTP clients): they block in ReadyWait until the link is       *)
(* ready, then call methods of s.Client, which may have failed meanwhile.  *)
(***************************************************************************)

VARIABLES gate,     \* ReadyWait: "shut" (it blocks) or "open"
          client,   \* s.Client: "nil", or an ssh client that is "open" or "closed"
          halted    \* "no", or "gone" with the process

linkVars == <<gate, client, halted>>

LinkTypeOK ==
  /\ gate \in {"shut", "open"}
  /\ client \in {"nil", "open", "closed"}
  /\ halted \in {"no", "gone"}

LinkInit ==
  /\ gate = "shut"
  /\ client = "nil"
  /\ halted = "no"

\* A new client replaces the old one.  Only while nobody is let through, and
\* only once the old one is closed; it may fail before it is announced.
Replace ==
  /\ halted = "no" /\ gate = "shut" /\ client # "open"
  /\ client' \in {"open", "closed"}
  /\ UNCHANGED <<gate, halted>>

Announce ==
  /\ halted = "no" /\ gate = "shut" /\ client # "nil"
  /\ gate' = "open"
  /\ UNCHANGED <<client, halted>>

\* The transport fails or the client is closed.
Drop ==
  /\ halted = "no" /\ client = "open"
  /\ client' = "closed"
  /\ UNCHANGED <<gate, halted>>

\* The gate shuts, only after its client is closed.
Retract ==
  /\ halted = "no" /\ gate = "open" /\ client = "closed"
  /\ gate' = "shut"
  /\ UNCHANGED <<client, halted>>

\* log.Fatal or a panic ends the process.
Halt ==
  /\ halted = "no"
  /\ halted' = "gone"
  /\ UNCHANGED <<gate, client>>

LinkNext == Replace \/ Announce \/ Drop \/ Retract \/ Halt

LinkSpec == LinkInit /\ [][LinkNext]_linkVars
==============================================================================

------------------------------ MODULE WaitGroup ------------------------------
(***************************************************************************)
(* sync.WaitGroup of the Go runtime, as the connection and the SFTP client *)
(* use it: a counter that blocks Wait while it is not zero.  External code *)
(* (it is not part of rospo).  A goroutine that Wait has blocked is        *)
(* released when the counter falls to zero, but it returns from Wait at a  *)
(* later moment; the runtime panics if the group is in use again by then.  *)
(***************************************************************************)
EXTENDS Integers

\* n: the counter; blocked: the goroutines asleep in Wait; woken: those the
\* fall to zero has released and that have not returned from Wait yet.
WaitGroups(G) == [n : Int, blocked : SUBSET G, woken : SUBSET G]

NewWaitGroup(n) == [n |-> n, blocked |-> {}, woken |-> {}]

\* Add(d); Done is Add(-1).
WGAdd(wg, d) ==
  IF wg.n + d = 0
  THEN [n |-> 0, blocked |-> {}, woken |-> wg.woken \cup wg.blocked]
  ELSE [wg EXCEPT !.n = @ + d]

\* Wait called while the counter is not zero.
WGBlock(wg, g) == [wg EXCEPT !.blocked = @ \cup {g}]

\* A released goroutine runs again.
WGReturn(wg, g) == [wg EXCEPT !.woken = @ \ {g}]

\* What a released goroutine checks when it runs again: "WaitGroup is reused
\* before previous Wait has returned".
WGReused(wg) == wg.n # 0 \/ wg.blocked # {}
==============================================================================

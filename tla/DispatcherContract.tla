------------------------- MODULE DispatcherContract -------------------------
(***************************************************************************)
(* What a dispatcher promises to the driver that owns it, without locks,   *)
(* queues, timers or threads of the loop: a request it accepts while open  *)
(* is begun once or withdrawn, callbacks of a serial dispatcher exclude    *)
(* each other, and once the dispatcher drains (calls the remaining         *)
(* callbacks with ZX_ERR_CANCELED) callbacks exclude each other on every   *)
(* dispatcher; it closes when nothing is left.                             *)
(***************************************************************************)
EXTENDS FiniteSets

CONSTANTS Requests, Actors, Serial

VARIABLES
  phase,      \* "open", "closing", "draining", "closed"
  pending,    \* requests accepted and not yet begun
  running     \* actors inside a callback

vars == <<phase, pending, running>>

Init == phase = "open" /\ pending = {} /\ running = {}

Accept(r) ==
  /\ phase = "open" /\ r \notin pending
  /\ pending' = pending \cup {r}
  /\ UNCHANGED <<phase, running>>

\* The driver cancels a request: its callback will not be called.
Withdraw(r) ==
  /\ r \in pending
  /\ pending' = pending \ {r}
  /\ UNCHANGED <<phase, running>>

Begin(a, r) ==
  /\ phase # "closed" /\ r \in pending /\ a \notin running
  /\ Serial \/ phase = "draining" => running = {}
  /\ pending' = pending \ {r}
  /\ running' = running \cup {a}
  /\ UNCHANGED phase

End(a) ==
  /\ a \in running
  /\ running' = running \ {a}
  /\ UNCHANGED <<phase, pending>>

Close == phase = "open" /\ phase' = "closing" /\ UNCHANGED <<pending, running>>
Drain == phase = "closing" /\ running = {} /\ phase' = "draining" /\ UNCHANGED <<pending, running>>
Finish ==
  /\ phase = "draining" /\ pending = {} /\ running = {}
  /\ phase' = "closed"
  /\ UNCHANGED <<pending, running>>

Next ==
  \/ \E r \in Requests : Accept(r) \/ Withdraw(r) \/ \E a \in Actors : Begin(a, r)
  \/ \E a \in Actors : End(a)
  \/ Close \/ Drain \/ Finish

Spec == Init /\ [][Next]_vars
=============================================================================

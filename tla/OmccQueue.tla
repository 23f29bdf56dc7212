------------------------------ MODULE OmccQueue ------------------------------
(***************************************************************************)
(* What the transaction scheduler promises its only consumer, the daemon's *)
(* main loop: a bounded session-scoped queue.  Frames wait in a SET, so    *)
(* the promise says nothing about how they are stored; the order is in     *)
(* Deliver.  A baseline high-priority frame always leaves before any other *)
(* frame, and frames of one class leave in the order they were received    *)
(* (ids are handed out in receive order).  A frame leaves at most once; a  *)
(* session reset forgets what waits; a queue that overflows closes.        *)
(***************************************************************************)
EXTENDS Naturals, FiniteSets

CONSTANT Capacity     \* most frames that may wait

VARIABLES pending,   \* frames (records with the fields id and prio) accepted and not yet delivered
          delivered, \* frames handed to the main loop
          open       \* FALSE once the scheduler has ended

vars == <<pending, delivered, open>>

Init ==
  /\ pending = {}
  /\ delivered = {}
  /\ open = TRUE

\* f leaves no later than g.
Before(f, g) ==
  \/ f.prio = "high" /\ g.prio # "high"
  \/ f.prio = g.prio /\ f.id <= g.id

Accept(f) ==
  /\ open
  /\ Cardinality(pending) < Capacity
  /\ \A g \in pending \cup delivered : g.id < f.id
  /\ pending' = pending \cup {f}
  /\ UNCHANGED <<delivered, open>>

Deliver(f) ==
  /\ open
  /\ f \in pending
  /\ \A g \in pending : Before(f, g)
  /\ pending' = pending \ {f}
  /\ delivered' = delivered \cup {f}
  /\ UNCHANGED open

Forget ==
  /\ open
  /\ pending' = {}
  /\ UNCHANGED <<delivered, open>>

Close ==
  /\ open
  /\ open' = FALSE
  /\ UNCHANGED <<pending, delivered>>

Next ==
  \/ \E f \in pending' : Accept(f)
  \/ \E f \in pending : Deliver(f)
  \/ Forget
  \/ Close

Spec == Init /\ [][Next]_vars
=============================================================================

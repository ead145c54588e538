---------------------------- MODULE AtLeastOnce -----------------------------
(***************************************************************************)
(* What the outbox promises to the modules of the worker, without queue,   *)
(* claims or invocations: a side effect happens only for a row somebody    *)
(* inserted, a handler inserts only the delivery rows of its own event,    *)
(* and its effect counts as applied only once they are all inserted.       *)
(***************************************************************************)
CONSTANTS
  Events,    \* identities of outbox rows
  Roots,     \* rows inserted by business transactions
  Children   \* [Events -> SUBSET Events]: rows the handler of a row inserts

VARIABLES
  owed,      \* rows that are in the table
  applied    \* rows whose handler has done its work at least once

promise == <<owed, applied>>

Init == owed = {} /\ applied = {}

\* A business transaction inserts a row.
Owe(e) ==
  /\ e \in Roots
  /\ owed' = owed \cup {e}
  /\ UNCHANGED applied

\* The handler of an inserted row inserts some of its delivery rows.
Spawn(e) ==
  /\ e \in owed
  /\ \E S \in SUBSET Children[e] : owed' = owed \cup S
  /\ UNCHANGED applied

\* The handler of an inserted row is through.
Apply(e) ==
  /\ e \in owed
  /\ owed' = owed \cup Children[e]
  /\ applied' = applied \cup {e}

Next == \E e \in Events : Owe(e) \/ Spawn(e) \/ Apply(e)

Spec == Init /\ [][Next]_promise
=============================================================================

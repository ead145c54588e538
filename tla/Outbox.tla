------------------------------- MODULE Outbox -------------------------------
(***************************************************************************)
(* The transactional outbox of the worker: the rows of outbox_events, the  *)
(* Cloudflare queue JOBS, and the invocations that claim rows, enqueue     *)
(* them and run their handlers (apps/worker/src/outbox.ts, index.ts).      *)
(*                                                                         *)
(* An invocation is a Worker of this model: a request's waitUntil claim, a *)
(* cron run, or the consumption of one queue message.  Every await on the  *)
(* database or on the queue is a step boundary, so invocations interleave  *)
(* there and may die there.                                                *)
(***************************************************************************)
EXTENDS Naturals

CONSTANTS
  Events,       \* identities of outbox rows
  Workers,      \* concurrent invocations of the Worker script
  Roots,        \* rows inserted by business transactions
  Children,     \* [Events -> SUBSET Events]: delivery rows a handler inserts
  Fanouts,      \* rows whose handler inserts its children one by one
  None,         \* "no job"
  MaxFailures,  \* bound on handler errors and failed sends
  MaxDups,      \* bound on duplicated messages
  MaxCrashes    \* bound on invocations cut off

ASSUME OutboxAssumption ==
  /\ None \notin Events
  /\ Roots \subseteq Events
  /\ Fanouts \subseteq Events
  /\ Children \in [Events -> SUBSET Events]
  /\ MaxFailures \in Nat /\ MaxDups \in Nat /\ MaxCrashes \in Nat

VARIABLES
  row,       \* outbox_events.status, "absent" before the insert
  due,       \* available_at <= now()
  queue,     \* messages of each event waiting in JOBS
  pc,        \* where each invocation is
  job,       \* the message a consumer holds and has not acknowledged
  rest,      \* placements the calendar loop has still to visit
  request,   \* requestedIds of the nested claim
  todo,      \* rows claimed by this invocation and not yet sent
  applied,   \* history: rows whose handler committed its whole effect
  lost,      \* history: rows whose claimant ended before sending them
  faults     \* how often each bounded fault has happened

vars == <<row, due, queue, pc, job, rest, request, todo, applied, lost, faults>>
local == <<pc, job, rest, request, todo>>

Status == {"absent", "pending", "claimed", "dispatched", "failed"}

\* An invocation that holds a message and may still write its row.
Busy == {"read", "apply", "settle", "claim", "send", "fail"}

Init ==
  /\ row = [e \in Events |-> "absent"]
  /\ due = [e \in Events |-> TRUE]
  /\ queue = [e \in Events |-> 0]
  /\ pc = [w \in Workers |-> "idle"]
  /\ job = [w \in Workers |-> None]
  /\ rest = [w \in Workers |-> {}]
  /\ request = [w \in Workers |-> {}]
  /\ todo = [w \in Workers |-> {}]
  /\ applied = {}
  /\ lost = {}
  /\ faults = [failures |-> 0, dups |-> 0, crashes |-> 0]

-----------------------------------------------------------------------------
(* Helpers that mirror single statements of the code.                      *)

Goto(w, label) == pc' = [pc EXCEPT ![w] = label]

\* INSERT ... ON CONFLICT DO NOTHING on the idempotency key.
Inserted(S) ==
  [e \in Events |-> IF e \in S /\ row[e] = "absent" THEN "pending" ELSE row[e]]

\* The WHERE clause of the claiming UPDATE.
Claimable(S) == {e \in S : row[e] \in {"pending", "failed"} /\ due[e]}

\* SET status = 'claimed' for every row the UPDATE returns.
Claimed(S) == [e \in Events |-> IF e \in Claimable(S) THEN "claimed" ELSE row[e]]

\* SET status = 'failed', available_at = now() + 60 s: no status guard.
MarkOutboxFailed(e) ==
  /\ row' = [row EXCEPT ![e] = "failed"]
  /\ due' = [due EXCEPT ![e] = FALSE]

Count(kind) == faults' = [faults EXCEPT ![kind] = @ + 1]

MayFail == faults.failures < MaxFailures

-----------------------------------------------------------------------------
(* Producers: business transactions, the clock, cron and waitUntil.        *)

\* A business transaction commits its change together with the outbox row.
InsertRow(e) ==
  /\ e \in Roots /\ row[e] = "absent"
  /\ row' = Inserted({e})
  /\ UNCHANGED <<due, queue, local, applied, lost, faults>>

\* Sixty seconds pass for a row that failed.
BecomeDue(e) ==
  /\ ~due[e]
  /\ due' = [due EXCEPT ![e] = TRUE]
  /\ UNCHANGED <<row, queue, local, applied, lost, faults>>

\* One UPDATE ... RETURNING: the row locks make the claim atomic.
StartClaim(w, ids) ==
  /\ pc[w] = "idle" /\ Claimable(ids) # {}
  /\ row' = Claimed(ids)
  /\ todo' = [todo EXCEPT ![w] = Claimable(ids)]
  /\ Goto(w, "send")
  /\ UNCHANGED <<due, queue, job, rest, request, applied, lost, faults>>

\* The scheduled handler claims every due row.
CronClaim(w) == StartClaim(w, Events)

\* A request handler claims the row it inserted, in waitUntil.
RequestClaim(w) == \E e \in Roots : StartClaim(w, {e})

-----------------------------------------------------------------------------
(* The send loop of claimAndEnqueueOutbox.                                 *)

SendOk(w) ==
  /\ pc[w] = "send"
  /\ \E e \in todo[w] :
       /\ queue' = [queue EXCEPT ![e] = @ + 1]
       /\ todo' = [todo EXCEPT ![w] = @ \ {e}]
  /\ UNCHANGED <<row, due, pc, job, rest, request, applied, lost, faults>>

\* JOBS.send rejects: the row goes back to failed and the loop continues.
SendFails(w) ==
  /\ pc[w] = "send" /\ MayFail
  /\ \E e \in todo[w] :
       /\ MarkOutboxFailed(e)
       /\ todo' = [todo EXCEPT ![w] = @ \ {e}]
  /\ Count("failures")
  /\ UNCHANGED <<queue, pc, job, rest, request, applied, lost>>

\* JOBS.send rejects although the queue took the message.
SendAmbiguous(w) ==
  /\ pc[w] = "send" /\ faults.dups < MaxDups
  /\ \E e \in todo[w] :
       /\ MarkOutboxFailed(e)
       /\ queue' = [queue EXCEPT ![e] = @ + 1]
       /\ todo' = [todo EXCEPT ![w] = @ \ {e}]
  /\ Count("dups")
  /\ UNCHANGED <<pc, job, rest, request, applied, lost>>

\* markOutboxFailed throws inside the loop's catch: the remaining claimed
\* rows are never sent; a consumer goes to its own catch.
SendAborts(w) ==
  /\ pc[w] = "send" /\ todo[w] # {} /\ faults.crashes < MaxCrashes
  /\ lost' = lost \cup todo[w]
  /\ todo' = [todo EXCEPT ![w] = {}]
  /\ Goto(w, IF job[w] = None THEN "idle" ELSE "fail")
  /\ Count("crashes")
  /\ UNCHANGED <<row, due, queue, job, rest, request, applied>>

\* Where the caller of claimAndEnqueueOutbox continues.
AfterSend(w) ==
  IF job[w] = None THEN "idle"
  ELSE IF job[w] \in Fanouts THEN "apply" ELSE "ack"

SendDone(w) ==
  /\ pc[w] = "send" /\ todo[w] = {}
  /\ Goto(w, AfterSend(w))
  /\ UNCHANGED <<row, due, queue, job, rest, request, todo, applied, lost, faults>>

-----------------------------------------------------------------------------
(* The queue consumer: queue() and processOutboxJob.                       *)

Receive(w, e) ==
  /\ pc[w] = "idle" /\ queue[e] > 0
  /\ queue' = [queue EXCEPT ![e] = @ - 1]
  /\ job' = [job EXCEPT ![w] = e]
  /\ Goto(w, "read")
  /\ UNCHANGED <<row, due, rest, request, todo, applied, lost, faults>>

\* SELECT the row without a lock; a dispatched row is acknowledged at once.
ReadRow(w) ==
  /\ pc[w] = "read"
  /\ LET settled == row[job[w]] \in {"absent", "dispatched"} IN
       /\ Goto(w, IF settled THEN "ack" ELSE "apply")
       /\ rest' = [rest EXCEPT ![w] = IF settled THEN {} ELSE Children[job[w]]]
  /\ UNCHANGED <<row, due, queue, job, request, todo, applied, lost, faults>>

\* One transaction inserts every child row (queueCommunication); a handler
\* without children commits its own idempotent effect.
ApplyAtOnce(w) ==
  /\ pc[w] = "apply" /\ job[w] \notin Fanouts
  /\ row' = Inserted(rest[w])
  /\ request' = [request EXCEPT ![w] = rest[w]]
  /\ rest' = [rest EXCEPT ![w] = {}]
  /\ applied' = applied \cup {job[w]}
  /\ Goto(w, "settle")
  /\ UNCHANGED <<due, queue, job, todo, lost, faults>>

\* consumePublicationCalendarHandoff: one transaction per placement, then a
\* nested claim of what it queued.
ApplyPlacement(w) ==
  /\ pc[w] = "apply" /\ job[w] \in Fanouts
  /\ \E c \in rest[w] :
       /\ row' = Inserted({c})
       /\ rest' = [rest EXCEPT ![w] = @ \ {c}]
       /\ request' = [request EXCEPT ![w] = {c}]
  /\ Goto(w, "claim")
  /\ UNCHANGED <<due, queue, job, todo, applied, lost, faults>>

\* Bug: the loop stops at the first placement.
BugStopsEarly(w) ==
  /\ pc[w] = "apply" /\ job[w] \in Fanouts
  /\ applied' = applied \cup {job[w]}
  /\ rest' = [rest EXCEPT ![w] = {}]
  /\ request' = [request EXCEPT ![w] = {}]
  /\ Goto(w, "settle")
  /\ UNCHANGED <<row, due, queue, job, todo, lost, faults>>

FinishPlacements(w) ==
  /\ pc[w] = "apply" /\ job[w] \in Fanouts /\ rest[w] = {}
  /\ applied' = applied \cup {job[w]}
  /\ request' = [request EXCEPT ![w] = {}]
  /\ Goto(w, "settle")
  /\ UNCHANGED <<row, due, queue, job, rest, todo, lost, faults>>

\* UPDATE ... SET status = 'dispatched': no status guard.
Settle(w) ==
  /\ pc[w] = "settle"
  /\ row' = [row EXCEPT ![job[w]] = "dispatched"]
  /\ Goto(w, IF request[w] = {} THEN "ack" ELSE "claim")
  /\ UNCHANGED <<due, queue, job, rest, request, todo, applied, lost, faults>>

\* claimAndEnqueueOutbox(environment, outboxEventIds) inside a handler.
NestedClaim(w) ==
  /\ pc[w] = "claim"
  /\ row' = Claimed(request[w])
  /\ todo' = [todo EXCEPT ![w] = Claimable(request[w])]
  /\ request' = [request EXCEPT ![w] = {}]
  /\ Goto(w, "send")
  /\ UNCHANGED <<due, queue, job, rest, applied, lost, faults>>

\* Bug: the error is swallowed and the message acknowledged.
BugSwallowsError(w) ==
  /\ pc[w] \in {"read", "apply", "settle", "claim"} /\ MayFail
  /\ Goto(w, "ack")
  /\ rest' = [rest EXCEPT ![w] = {}]
  /\ request' = [request EXCEPT ![w] = {}]
  /\ Count("failures")
  /\ UNCHANGED <<row, due, queue, job, todo, applied, lost>>
\* Bug: the row is settled in a finally block.
BugSettlesInFinally(w) ==
  /\ pc[w] \in {"read", "apply", "settle", "claim"} /\ MayFail
  /\ Goto(w, "settle")
  /\ rest' = [rest EXCEPT ![w] = {}]
  /\ request' = [request EXCEPT ![w] = {}]
  /\ Count("failures")
  /\ UNCHANGED <<row, due, queue, job, todo, applied, lost>>

\* An await of the handler throws; queue() catches it.
HandlerFails(w) ==
  /\ pc[w] \in {"read", "apply", "settle", "claim"} /\ MayFail
  /\ Goto(w, "fail")
  /\ rest' = [rest EXCEPT ![w] = {}]
  /\ request' = [request EXCEPT ![w] = {}]
  /\ Count("failures")
  /\ UNCHANGED <<row, due, queue, job, todo, applied, lost>>

MarkFailed(w) ==
  /\ pc[w] = "fail"
  /\ MarkOutboxFailed(job[w])
  /\ rest' = [rest EXCEPT ![w] = {}]
  /\ Goto(w, "ack")
  /\ UNCHANGED <<queue, job, request, todo, applied, lost, faults>>

Ack(w) ==
  /\ pc[w] = "ack"
  /\ job' = [job EXCEPT ![w] = None]
  /\ Goto(w, "idle")
  /\ UNCHANGED <<row, due, queue, rest, request, todo, applied, lost, faults>>

-----------------------------------------------------------------------------
(* The platform: redelivery, duplication and invocations cut off.          *)

\* The queue is at-least-once: a waiting message may be delivered twice.
Duplicate(e) ==
  /\ queue[e] > 0 /\ faults.dups < MaxDups
  /\ queue' = [queue EXCEPT ![e] = @ + 1]
  /\ Count("dups")
  /\ UNCHANGED <<row, due, local, applied, lost>>

\* An invocation ends between two awaits.  An unacknowledged message returns
\* to the queue; claimed rows it had not sent have no message at all.
Crash(w) ==
  /\ pc[w] # "idle" /\ faults.crashes < MaxCrashes
  /\ queue' = IF job[w] = None THEN queue ELSE [queue EXCEPT ![job[w]] = @ + 1]
  /\ lost' = lost \cup todo[w]
  /\ job' = [job EXCEPT ![w] = None]
  /\ rest' = [rest EXCEPT ![w] = {}]
  /\ request' = [request EXCEPT ![w] = {}]
  /\ todo' = [todo EXCEPT ![w] = {}]
  /\ Goto(w, "idle")
  /\ Count("crashes")
  /\ UNCHANGED <<row, due, applied>>

\* The steps an invocation takes on its own once it has started.
Step(w) ==
  \/ SendOk(w) \/ SendDone(w)
  \/ ReadRow(w) \/ ApplyAtOnce(w) \/ ApplyPlacement(w) \/ FinishPlacements(w)
  \/ Settle(w) \/ NestedClaim(w) \/ MarkFailed(w) \/ Ack(w)

Fault(w) ==
  \/ SendFails(w) \/ SendAmbiguous(w) \/ SendAborts(w)
  \/ HandlerFails(w) \/ Crash(w)

Next ==
  \/ \E e \in Events : InsertRow(e) \/ BecomeDue(e) \/ Duplicate(e)
  \/ \E w \in Workers : CronClaim(w) \/ RequestClaim(w) \/ Step(w) \/ Fault(w)
  \/ \E w \in Workers, e \in Events : Receive(w, e)

Spec == Init /\ [][Next]_vars

(***************************************************************************)
(* Fairness.  An invocation that has started keeps running unless it is    *)
(* cut off; the clock advances; the queue delivers each message it holds   *)
(* whenever a consumer can be started; cron fires every five minutes, so a *)
(* due row that keeps waiting is eventually claimed.  Business requests,   *)
(* waitUntil claims and faults are not fair.                               *)
(***************************************************************************)
Fairness ==
  /\ \A w \in Workers : WF_vars(Step(w))
  /\ \A e \in Events : WF_vars(BecomeDue(e))
  /\ \A e \in Events : SF_vars(\E w \in Workers : Receive(w, e))
  /\ SF_vars(\E w \in Workers : CronClaim(w))

FairSpec == Spec /\ Fairness

-----------------------------------------------------------------------------
(* Properties.                                                             *)

TypeOK ==
  /\ row \in [Events -> Status]
  /\ due \in [Events -> BOOLEAN]
  /\ queue \in [Events -> Nat]
  /\ pc \in [Workers -> Busy \cup {"idle", "ack"}]
  /\ job \in [Workers -> Events \cup {None}]
  /\ rest \in [Workers -> SUBSET Events]
  /\ request \in [Workers -> SUBSET Events]
  /\ todo \in [Workers -> SUBSET Events]
  /\ applied \subseteq Events
  /\ lost \subseteq Events
  /\ faults \in [failures : Nat, dups : Nat, crashes : Nat]

\* Some invocation or message will still write the status of row e.
Handling(w, e) == job[w] = e /\ pc[w] \in Busy
InFlight(e) ==
  \/ queue[e] > 0
  \/ \E w \in Workers : e \in todo[w] \/ Handling(w, e)

\* A claimed row always has a message, a claimant about to send it or a
\* consumer about to settle it; only an invocation that ended between
\* claiming and sending leaves one behind.
ClaimedInFlight == \A e \in Events : row[e] = "claimed" => InFlight(e) \/ e \in lost

\* A row is marked dispatched only after its handler committed its whole
\* effect, and every delivery row that effect owes is in the table: nothing
\* a business transaction promised disappears behind a "dispatched".
DispatchedIsApplied ==
  \A e \in Events : row[e] = "dispatched" =>
    /\ e \in applied
    /\ \A c \in Children[e] : row[c] # "absent"

\* While the platform has neither duplicated a message nor cut off an
\* invocation, each row has at most one message, claimant or consumer: no
\* two invocations run the same handler at the same time.
SingleCopy ==
  faults.dups = 0 /\ faults.crashes = 0 =>
    \A e \in Events :
      /\ queue[e] <= 1
      /\ queue[e] = 1 => \A w \in Workers : e \notin todo[w] /\ ~Handling(w, e)
      /\ \A v, w \in Workers :
           (e \in todo[v] \/ Handling(v, e)) /\ (e \in todo[w] \/ Handling(w, e)) => v = w

\* The outbox implements AtLeastOnce: whatever is claimed, sent, duplicated,
\* cut off or tried again, a handler works only for a row that was inserted,
\* inserts only that row's delivery rows, and is through only with all of them.
Owed == {e \in Events : row[e] # "absent"}
Promise == INSTANCE AtLeastOnce WITH owed <- Owed
KeepsPromise == Promise!Spec

\* Every row that is in the table is eventually applied: the docs' claim that
\* side effects survive and that cron recovers stranded rows.
EventuallyApplied == \A e \in Events : row[e] # "absent" ~> e \in applied

\* What the code achieves when invocations may be cut off: a row of a business
\* transaction, and every delivery row it leads to, is applied unless a
\* claimant ended between claiming and sending it.
AppliedUnlessLost ==
  \A e \in Roots : row[e] # "absent" ~>
    e \in lost \/ {e} \cup Children[e] \subseteq applied \cup lost

-----------------------------------------------------------------------------
(* The inductive invariant behind the safety properties.                   *)

\* An invocation beyond "idle" that is not just claiming holds a message, and
\* only a sending one has claimed rows at hand.
Placed ==
  \A w \in Workers :
    /\ pc[w] = "idle" => job[w] = None
    /\ pc[w] \notin {"idle", "send"} => job[w] # None
    /\ todo[w] # {} => pc[w] = "send"

\* What waits in the queue, is held or claimed, or was applied was inserted.
InTable ==
  /\ \A e \in Events : queue[e] > 0 \/ e \in applied => row[e] # "absent"
  /\ \A w \in Workers :
       /\ job[w] # None => row[job[w]] # "absent"
       /\ \A e \in todo[w] : row[e] # "absent"

\* A consumer owes the status of its row until it has settled it; the
\* handler of a publication claims and sends before it settles.
Owes(w, e) ==
  /\ job[w] = e
  /\ \/ pc[w] \in {"read", "apply", "settle", "fail"}
     \/ pc[w] \in {"claim", "send"} /\ e \in Fanouts

ClaimedIsOwed ==
  \A e \in Events : row[e] = "claimed" =>
    \/ queue[e] > 0 \/ e \in lost
    \/ \E w \in Workers : e \in todo[w] \/ Owes(w, e)

\* How far each consumer is with the delivery rows of its event, and what
\* that means for the rows it has applied and dispatched.
Progress ==
  \A w \in Workers :
    /\ rest[w] # {} =>
         /\ job[w] # None /\ rest[w] \subseteq Children[job[w]]
         /\ \/ pc[w] \in {"apply", "fail"}
            \/ pc[w] \in {"claim", "send"} /\ job[w] \in Fanouts
    /\ pc[w] = "apply" /\ job[w] \notin Fanouts => rest[w] = Children[job[w]]
    /\ pc[w] \in {"apply", "claim", "send"} /\ job[w] \in Fanouts =>
         \A c \in Children[job[w]] : row[c] # "absent" \/ c \in rest[w]
    /\ pc[w] = "settle" => job[w] \in applied

Effects ==
  /\ Progress
  /\ \A e \in applied : \A c \in Children[e] : row[c] # "absent"
  /\ \A e \in Events : row[e] = "dispatched" => e \in applied

\* A row that may be claimed has no message, claimant or consumer as long as
\* nothing was duplicated or cut off.
Holds(w, e) == e \in todo[w] \/ Handling(w, e)
Exclusive ==
  faults.dups = 0 /\ faults.crashes = 0 =>
    \A e \in Events :
      /\ row[e] \in {"absent", "pending", "failed"} =>
           queue[e] = 0 /\ \A w \in Workers : ~Holds(w, e)
      /\ \A w \in Workers : e \in todo[w] => ~Handling(w, e)

Inductive ==
  /\ TypeOK /\ Placed /\ InTable /\ ClaimedIsOwed
  /\ Effects /\ Exclusive /\ SingleCopy
=============================================================================

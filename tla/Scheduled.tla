----------------------------- MODULE Scheduled -----------------------------
(***************************************************************************)
(* The scheduled handler of the worker (index.ts, outbox.ts): it hands the *)
(* CRM's outreach requests to the communications, queues the day's         *)
(* reminder of overdue speaker tasks, and claims what waits in the outbox  *)
(* (module Outbox).  Invocations may overlap, fail and be cut off.         *)
(***************************************************************************)
EXTENDS Naturals

CONSTANTS Outreaches, Crons, Assignees, MaxErrors

ASSUME ScheduledAssumption == MaxErrors \in Nat

VARIABLES
  outreach,  \* crm_outreach_requests, and whether their communication exists
  cron,      \* the invocations
  overdue,   \* speakers with a pending task whose due date has passed
  day,       \* the parity of the date
  reminder,  \* the audience of the reminder of today and of yesterday
  errors     \* errors and cut-offs so far

scheduledVars == <<outreach, cron, overdue, day, reminder, errors>>

Off == [at |-> "off", left |-> {}]
Unsent == {}

ScheduledInit ==
  /\ outreach = [o \in Outreaches |-> [status |-> "none", queued |-> FALSE]]
  /\ cron = [i \in Crons |-> Off]
  /\ overdue = {} /\ day = 0 /\ reminder = [d \in 0..1 |-> Unsent] /\ errors = 0

\* createCrmOutreachHandoff: a key has one request.
CreateOutreach(o) ==
  /\ outreach[o].status = "none"
  /\ outreach' = [outreach EXCEPT ![o].status = "pending"]
  /\ UNCHANGED <<cron, overdue, day, reminder, errors>>

\* A due date passes, or the last overdue task of a speaker is completed.
TaskTurns(s) ==
  /\ overdue' = IF s \in overdue THEN overdue \ {s} ELSE overdue \cup {s}
  /\ UNCHANGED <<outreach, cron, day, reminder, errors>>

\* Bug: the key of the reminder does not contain the date.
BugFreshKey(d) == reminder

\* The key of the reminder contains the date, so a new day has none.
FreshKey(d) == [reminder EXCEPT ![d] = Unsent]

\* No invocation lasts for more than a day.
Midnight ==
  /\ \A i \in Crons : cron[i] # Off => cron[i].day = day
  /\ day' = 1 - day /\ reminder' = FreshKey(1 - day)
  /\ UNCHANGED <<outreach, cron, overdue, errors>>

-----------------------------------------------------------------------------
(* consumeCrmOutreachHandoffs                                              *)

ListPending(i) ==
  /\ cron[i] = Off
  /\ cron' = [cron EXCEPT ![i] =
       [at |-> "next", day |-> day,
        left |-> {o \in Outreaches : outreach[o].status = "pending"}]]
  /\ UNCHANGED <<outreach, overdue, day, reminder, errors>>

Moves(i, at) == cron' = [cron EXCEPT ![i].at = at]

\* Bug: a request whose communication exists is passed over, not marked.
BugSkipsQueued(i, o) ==
  /\ cron[i].at = "next" /\ o \in cron[i].left
  /\ cron' = [cron EXCEPT ![i] =
       [at |-> IF outreach[o].queued THEN "next" ELSE "insert", day |-> @.day,
        of |-> o, left |-> @.left \ {o}]]
  /\ UNCHANGED <<outreach, overdue, day, reminder, errors>>

\* queueCommunication looks for the key of a request, then inserts.
LookForKey(i, o) ==
  /\ cron[i].at = "next" /\ o \in cron[i].left
  /\ cron' = [cron EXCEPT ![i] =
       [at |-> IF outreach[o].queued THEN "mark" ELSE "insert", day |-> @.day,
        of |-> o, left |-> @.left \ {o}]]
  /\ UNCHANGED <<outreach, overdue, day, reminder, errors>>

\* The key is unique: the invocation that loses the race fails the request.
InsertCommunication(i) ==
  /\ cron[i].at = "insert"
  /\ outreach' = [outreach EXCEPT ![cron[i].of].queued = TRUE]
  /\ Moves(i, IF outreach[cron[i].of].queued THEN "fail" ELSE "mark")
  /\ UNCHANGED <<overdue, day, reminder, errors>>

\* Bug: a request is marked before its communication is queued.
BugMarkConsumed(i) ==
  /\ cron[i].at \in {"insert", "mark"}
  /\ outreach' = [outreach EXCEPT ![cron[i].of].status = "consumed"]
  /\ Moves(i, "next")
  /\ UNCHANGED <<overdue, day, reminder, errors>>

MarkConsumed(i) ==
  /\ cron[i].at = "mark"
  /\ outreach' = [outreach EXCEPT ![cron[i].of].status = "consumed"]
  /\ Moves(i, "enqueue")
  /\ UNCHANGED <<overdue, day, reminder, errors>>

\* claimAndEnqueueOutbox for the new rows; its errors are caught too.
Enqueue(i) ==
  /\ cron[i].at = "enqueue" /\ Moves(i, "next")
  /\ UNCHANGED <<outreach, overdue, day, reminder, errors>>

HandoffError(i) ==
  /\ cron[i].at \in {"insert", "mark", "enqueue"} /\ errors < MaxErrors
  /\ Moves(i, "fail") /\ errors' = errors + 1
  /\ UNCHANGED <<outreach, overdue, day, reminder>>

MarkRequestFailed(i) ==
  /\ cron[i].at = "fail"
  /\ outreach' = [outreach EXCEPT ![cron[i].of].status = "failed"]
  /\ Moves(i, "next")
  /\ UNCHANGED <<overdue, day, reminder, errors>>

-----------------------------------------------------------------------------
(* queueScheduledTaskReminders, then claimAndEnqueueOutbox                 *)

\* queueDueTaskReminders
ReadOverdue(i) ==
  /\ cron[i].at = "next" /\ cron[i].left = {}
  /\ cron' = [cron EXCEPT ![i] =
       [at |-> "remind", day |-> @.day, left |-> {}, audience |-> overdue]]
  /\ UNCHANGED <<outreach, overdue, day, reminder, errors>>

\* A key that is taken returns its communication, or conflicts because the
\* audience changed: either way nobody else is reminded that day.
Remind(i) ==
  /\ cron[i].at = "remind"
  /\ reminder' = IF reminder[cron[i].day] = Unsent
                 THEN [reminder EXCEPT ![cron[i].day] = cron[i].audience] ELSE reminder
  /\ cron' = [cron EXCEPT ![i] = Off]
  /\ UNCHANGED <<outreach, overdue, day, errors>>

\* An error outside the handlers' try, or the platform, ends the invocation.
CutOff(i) ==
  /\ cron[i] # Off /\ errors < MaxErrors
  /\ cron' = [cron EXCEPT ![i] = Off] /\ errors' = errors + 1
  /\ UNCHANGED <<outreach, overdue, day, reminder>>

Proceeds(i) ==
  \/ ListPending(i) \/ InsertCommunication(i) \/ MarkConsumed(i) \/ Enqueue(i)
  \/ MarkRequestFailed(i) \/ ReadOverdue(i) \/ Remind(i)
  \/ \E o \in Outreaches : LookForKey(i, o)

ScheduledNext ==
  \/ \E o \in Outreaches : CreateOutreach(o)
  \/ \E s \in Assignees : TaskTurns(s)
  \/ Midnight
  \/ \E i \in Crons : Proceeds(i) \/ HandoffError(i) \/ CutOff(i)

\* Cron fires every five minutes, and days pass.
ScheduledFairness ==
  WF_scheduledVars(Midnight) /\ \A i \in Crons : WF_scheduledVars(Proceeds(i))

ScheduledSpec == ScheduledInit /\ [][ScheduledNext]_scheduledVars
FairScheduledSpec == ScheduledSpec /\ ScheduledFairness

-----------------------------------------------------------------------------
(* Properties.                                                             *)

ScheduledTypeOK ==
  /\ outreach \in [Outreaches ->
       [status : {"none", "pending", "consumed", "failed"}, queued : BOOLEAN]]
  /\ overdue \subseteq Assignees /\ day \in 0..1
  /\ reminder \in [0..1 -> SUBSET Assignees] /\ errors \in 0..MaxErrors

\* A consumed request has its communication, whatever overlaps, fails or is
\* cut off; and one is given up without a communication only after an error.
OutreachIsSent ==
  ScheduledTypeOK /\ \A o \in Outreaches :
    /\ outreach[o].status = "consumed" => outreach[o].queued
    /\ outreach[o].status = "failed" /\ ~outreach[o].queued => errors > 0

\* A request does not wait for ever, although invocations are cut off.
OutreachIsHandled ==
  \A o \in Outreaches :
    outreach[o].status = "pending" ~> outreach[o].status \in {"consumed", "failed"}

\* A speaker who stays overdue is reminded, although the daily key admits one
\* audience and those who join it later are passed over until the next day.
OverdueIsReminded ==
  \A s \in Assignees : s \in overdue ~> (s \notin overdue \/ \E d \in 0..1 : s \in reminder[d])

=============================================================================

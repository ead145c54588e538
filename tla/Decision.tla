------------------------------ MODULE Decision ------------------------------
(***************************************************************************)
(* The decision about one submission: recording it, changing it, reviewing *)
(* its notification, releasing it, and the handler that turns the release  *)
(* into a communication (apps/worker/src/modules/program/acceptance.ts and *)
(* communications/service.ts).                                             *)
(*                                                                         *)
(* persistDecision and releaseDecision look for their receipt before they  *)
(* take their row lock, and everything they do under the lock is one step. *)
(* updateDecisionNotification takes no lock: it reads, and writes with a   *)
(* compare-and-set on the revision.                                        *)
(***************************************************************************)
EXTENDS Naturals, FiniteSets

CONSTANTS
  Commands,     \* decision commands in progress
  Editors,      \* notification edits in progress
  Handlers,     \* invocations consuming decision.notification.released
  CommandKeys,  \* client idempotency keys
  MaxNotification,  \* bound on the notification's revision
  MaxCutOffs    \* bound on handlers cut off and events delivered again

ASSUME DecisionAssumption == MaxNotification \in Nat /\ MaxCutOffs \in Nat

VARIABLES
  decision,      \* the decisions row: outcome, released, notified
  notification,  \* the decision_notifications row: status, revision, copy
  sessions,      \* how many sessions rows have this source submission
  commandReceipts, \* outbox rows of decide, change and release commands
  event,         \* decision.notification.released rows, by release key
  onboarding,    \* rounds of portal, task and integration handoffs inserted
  communication, \* the communication each release event led to
  settled,       \* release events whose row is dispatched
  command, editor, handler,
  cutOffs

rows == <<decision, notification, sessions, commandReceipts, event, onboarding>>
mailing == <<communication, settled, cutOffs>>
decisionVars == <<rows, mailing, command, editor, handler>>

Outcomes == {"accepted", "rejected"}
NoCommand == [at |-> "idle"]
Absent == [is |-> "absent"]

\* A notification text: the outcome its author had in view, whether an
\* organizer reviewed it or it is the default wording, and the revision that
\* brought it in, which tells texts apart.
Copy == [of : Outcomes, reviewed : BOOLEAN, since : Nat]
DefaultDecisionNotification(outcome, revision) ==
  [of |-> outcome, reviewed |-> FALSE, since |-> revision]

DecisionInit ==
  /\ decision = [outcome |-> "none", released |-> FALSE, notified |-> FALSE]
  /\ notification = [status |-> "none", revision |-> 0,
                     copy |-> DefaultDecisionNotification("rejected", 0)]
  /\ sessions = 0 /\ commandReceipts = {} /\ onboarding = 0
  /\ event = [k \in CommandKeys |-> Absent]
  /\ communication = [k \in CommandKeys |-> Absent]
  /\ settled = {} /\ cutOffs = 0
  /\ command = [r \in Commands |-> NoCommand]
  /\ editor = [e \in Editors |-> NoCommand]
  /\ handler = [h \in Handlers |-> NoCommand]

-----------------------------------------------------------------------------
(* decideSubmission, changeSubmissionDecision, releaseDecision             *)

Receipt(kind, key, outcome) == [kind |-> kind, key |-> key, outcome |-> outcome]
HasReceipt(kind, key) == \E x \in commandReceipts : x.kind = kind /\ x.key = key

\* The lookup before the lock.  When the receipt is there the command answers
\* from it and nothing changes, so only the other case is a step.
Begin(r, kind, key, outcome) ==
  /\ command[r] = NoCommand /\ ~HasReceipt(kind, key)
  /\ kind = "release" => decision.outcome = outcome
  /\ command' = [command EXCEPT ![r] = Receipt(kind, key, outcome)]
  /\ UNCHANGED <<rows, mailing, editor, handler>>

Commanded(r, kind) == command[r] # NoCommand /\ command[r].kind = kind

\* A new or a different outcome replaces the notification by the default
\* wording for it; a repeated one leaves it alone.
ResetNotification(outcome) ==
  LET revision == notification.revision + 1 IN
    notification' = [status |-> "draft", revision |-> revision,
                     copy |-> DefaultDecisionNotification(outcome, revision)]

\* Bug: the session of an earlier command is not looked up.
BugAlwaysInserts(outcome) ==
  sessions' = IF outcome = "accepted" THEN sessions + 1 ELSE sessions

\* The acceptance handoff: the existing session, or a new one.
AcceptanceHandoff(outcome) ==
  sessions' = IF outcome = "accepted" /\ sessions = 0 THEN 1 ELSE sessions

SetOutcome(outcome) ==
  /\ decision' = [outcome |-> outcome, released |-> FALSE, notified |-> FALSE]
  /\ ResetNotification(outcome)

\* Everything persistDecision does once it holds the lock on the submission.
\* The unique receipt key makes the second of two racing twins roll back.
CanDecide(r) ==
  /\ Commanded(r, "decide") /\ ~HasReceipt("decide", command[r].key)
  /\ decision.outcome \in {"none", command[r].outcome}

CanChange(r) ==
  /\ Commanded(r, "change") /\ ~HasReceipt("change", command[r].key)
  /\ decision.outcome = "rejected" /\ command[r].outcome = "accepted"

\* Bug: a repeated decision starts over.
BugStartsOver(r) ==
  /\ CanDecide(r) \/ CanChange(r)
  /\ SetOutcome(command[r].outcome)
  /\ AcceptanceHandoff(command[r].outcome)
  /\ commandReceipts' = commandReceipts \cup {command[r]}
  /\ command' = [command EXCEPT ![r] = NoCommand]
  /\ UNCHANGED <<event, onboarding, mailing, editor, handler>>

PersistDecision(r) ==
  /\ CanDecide(r) \/ CanChange(r)
  /\ IF decision.outcome = command[r].outcome
     THEN UNCHANGED <<decision, notification>>
     ELSE SetOutcome(command[r].outcome)
  /\ AcceptanceHandoff(command[r].outcome)
  /\ commandReceipts' = commandReceipts \cup {command[r]}
  /\ command' = [command EXCEPT ![r] = NoCommand]
  /\ UNCHANGED <<event, onboarding, mailing, editor, handler>>

CanRelease(r) ==
  /\ Commanded(r, "release") /\ ~HasReceipt("release", command[r].key)
  /\ decision.outcome # "none" /\ ~decision.released
  /\ notification.status = "reviewed"
  /\ decision.outcome = "accepted" => sessions > 0

\* SELECT ... FOR UPDATE on the decision; release, queue the notification and
\* insert its event, and the onboarding handoffs of an acceptance.
ReleaseDecision(r) ==
  /\ CanRelease(r)
  /\ decision' = [decision EXCEPT !.released = TRUE]
  /\ notification' = [notification EXCEPT !.status = "queued"]
  /\ event' = [event EXCEPT ![command[r].key] =
       [is |-> "released", outcome |-> decision.outcome, copy |-> notification.copy]]
  /\ onboarding' = IF decision.outcome = "accepted" THEN onboarding + 1 ELSE onboarding
  /\ commandReceipts' = commandReceipts \cup {Receipt("release", command[r].key, decision.outcome)}
  /\ command' = [command EXCEPT ![r] = NoCommand]
  /\ UNCHANGED <<sessions, mailing, editor, handler>>

\* Every other case throws and rolls back.
RefuseCommand(r) ==
  /\ command[r] # NoCommand /\ ~CanDecide(r) /\ ~CanChange(r) /\ ~CanRelease(r)
  /\ command' = [command EXCEPT ![r] = NoCommand]
  /\ UNCHANGED <<rows, mailing, editor, handler>>

-----------------------------------------------------------------------------
(* updateDecisionNotification                                              *)

\* The organizer opens the draft.
Open(e) ==
  /\ editor[e] = NoCommand /\ notification.status # "none"
  /\ notification.revision < MaxNotification
  /\ editor' = [editor EXCEPT ![e] =
       [at |-> "open", revision |-> notification.revision, of |-> decision.outcome]]
  /\ UNCHANGED <<rows, mailing, command, handler>>

\* The checks of the transaction, on rows it does not lock.
EditChecks(e) ==
  /\ editor[e].at = "open"
  /\ editor' = [editor EXCEPT ![e] =
       IF /\ notification.status \in {"draft", "reviewed"} /\ ~decision.released
          /\ notification.revision = @.revision
       THEN [@ EXCEPT !.at = "save"] ELSE NoCommand]
  /\ UNCHANGED <<rows, mailing, command, handler>>

\* Bug: the UPDATE forgets the revision it read.
BugSavesBlindly(e) ==
  /\ editor[e].at = "save"
  /\ notification' =
       [status |-> "reviewed", revision |-> notification.revision + 1,
        copy |-> [of |-> editor[e].of, reviewed |-> TRUE,
                  since |-> notification.revision + 1]]
  /\ editor' = [editor EXCEPT ![e] = NoCommand]
  /\ UNCHANGED <<decision, sessions, commandReceipts, event, onboarding, mailing, command, handler>>

\* UPDATE ... WHERE revision = the one read; no row means a stale edit.
EditSaves(e) ==
  /\ editor[e].at = "save"
  /\ notification' =
       IF notification.revision = editor[e].revision
       THEN [status |-> "reviewed", revision |-> notification.revision + 1,
             copy |-> [of |-> editor[e].of, reviewed |-> TRUE,
                       since |-> notification.revision + 1]]
       ELSE notification
  /\ editor' = [editor EXCEPT ![e] = NoCommand]
  /\ UNCHANGED <<decision, sessions, commandReceipts, event, onboarding, mailing, command, handler>>

-----------------------------------------------------------------------------
(* consumeCommunicationOutboxEvent for decision.notification.released      *)

\* Bug: the row is settled when the handler starts.
BugSettlesFirst(h, k) ==
  /\ handler[h] = NoCommand /\ event[k] # Absent /\ k \notin settled
  /\ settled' = settled \cup {k}
  /\ handler' = [handler EXCEPT ![h] = [at |-> "queue", key |-> k, label |-> decision.outcome]]
  /\ UNCHANGED <<rows, communication, cutOffs, command, editor>>

\* The handler reads the decision as it is now; a settled event comes back
\* only when the queue delivers its message again before the row is written.
Handle(h, k) ==
  /\ handler[h] = NoCommand /\ event[k] # Absent
  /\ \/ k \notin settled /\ (\A g \in Handlers : handler[g] # NoCommand => handler[g].key # k)
        /\ cutOffs' = cutOffs
     \/ k \notin settled /\ cutOffs < MaxCutOffs /\ cutOffs' = cutOffs + 1
  /\ handler' = [handler EXCEPT ![h] = [at |-> "queue", key |-> k, label |-> decision.outcome]]
  /\ UNCHANGED <<rows, communication, settled, command, editor>>

\* queueCommunication under the key source-outbox:<row>: the text of the
\* event, merged with the label of the decision as read.
QueueCommunication(h) ==
  /\ handler[h].at = "queue"
  /\ LET k == handler[h].key IN
       communication' = [communication EXCEPT ![k] =
         IF @ = Absent
         THEN [is |-> "queued", copy |-> event[k].copy, label |-> handler[h].label]
         ELSE @]
  /\ handler' = [handler EXCEPT ![h].at = "handoff"]
  /\ UNCHANGED <<rows, settled, cutOffs, command, editor>>

\* The second transaction updates both rows by id, whatever they hold now.
HandOff(h) ==
  /\ handler[h].at = "handoff"
  /\ notification' = [notification EXCEPT !.status = "handed_off"]
  /\ decision' = [decision EXCEPT !.notified = TRUE]
  /\ handler' = [handler EXCEPT ![h].at = "settle"]
  /\ UNCHANGED <<sessions, commandReceipts, event, onboarding, mailing, command, editor>>

SettleEvent(h) ==
  /\ handler[h].at = "settle"
  /\ settled' = settled \cup {handler[h].key}
  /\ handler' = [handler EXCEPT ![h] = NoCommand]
  /\ UNCHANGED <<rows, communication, cutOffs, command, editor>>

HandlerCutOff(h) ==
  /\ handler[h] # NoCommand /\ cutOffs < MaxCutOffs
  /\ handler' = [handler EXCEPT ![h] = NoCommand]
  /\ cutOffs' = cutOffs + 1
  /\ UNCHANGED <<rows, communication, settled, command, editor>>

HandlerStep(h) ==
  \/ \E k \in CommandKeys : Handle(h, k)
  \/ QueueCommunication(h) \/ HandOff(h) \/ SettleEvent(h)

DecisionNext ==
  \/ \E r \in Commands :
       \/ \E kind \in {"decide", "change", "release"}, k \in CommandKeys, o \in Outcomes :
            Begin(r, kind, k, o)
       \/ PersistDecision(r) \/ ReleaseDecision(r) \/ RefuseCommand(r)
  \/ \E e \in Editors : Open(e) \/ EditChecks(e) \/ EditSaves(e)
  \/ \E h \in Handlers : HandlerStep(h) \/ HandlerCutOff(h)

DecisionSpec == DecisionInit /\ [][DecisionNext]_decisionVars

\* The outbox delivers every row and a handler runs on unless it is cut off.
HandlerFairness == \A h \in Handlers : WF_decisionVars(HandlerStep(h))
FairDecisionSpec == DecisionSpec /\ HandlerFairness

-----------------------------------------------------------------------------
(* Properties.                                                             *)

DecisionTypeOK ==
  /\ decision \in [outcome : Outcomes \cup {"none"}, released : BOOLEAN, notified : BOOLEAN]
  /\ notification \in [status : {"none", "draft", "reviewed", "queued", "handed_off"},
                       revision : Nat, copy : Copy]
  /\ sessions \in Nat /\ onboarding \in Nat /\ cutOffs \in 0..MaxCutOffs
  /\ commandReceipts \subseteq
       [kind : {"decide", "change", "release"}, key : CommandKeys, outcome : Outcomes]
  /\ event \in [CommandKeys -> {Absent} \cup [is : {"released"}, outcome : Outcomes, copy : Copy]]
  /\ communication \in
       [CommandKeys -> {Absent} \cup [is : {"queued"}, copy : Copy, label : Outcomes \cup {"none"}]]
  /\ settled \subseteq CommandKeys

\* An acceptance takes effect once, however commands are repeated and raced:
\* one session once it is accepted and none before, and the portal, task and
\* integration handoffs at most once, for an acceptance that is released.
AcceptanceActsOnce ==
  /\ sessions = IF decision.outcome = "accepted" THEN 1 ELSE 0
  /\ onboarding <= 1
  /\ onboarding = 1 => decision.outcome = "accepted" /\ decision.released

\* The text a release sends was reviewed by an organizer who had the released
\* outcome in view: neither the default wording nor a text for the other
\* outcome slips through a changed decision.
ReleasedCopyIsReviewed ==
  \A k \in CommandKeys : event[k] # Absent =>
    event[k].copy.of = event[k].outcome /\ event[k].copy.reviewed

\* Each outcome is released under one key only: two release commands that
\* race do not both send.
OneReleasePerOutcome ==
  \A j, k \in CommandKeys :
    event[j] # Absent /\ event[k] # Absent /\ event[j].outcome = event[k].outcome => j = k

\* A release is taken back only when the decision turns from rejected to
\* accepted; an acceptance is never undone.
OnlyAcceptanceReopens ==
  [][/\ decision.released /\ ~decision'.released =>
          decision.outcome = "rejected" /\ decision'.outcome = "accepted"
     /\ decision.outcome = "accepted" => decision'.outcome = "accepted"]_decisionVars

\* A handler that comes late can only touch a decision that turned from
\* rejected to accepted after the release it handles: otherwise what it sends
\* names the released outcome, and a notification is handed off only while
\* its decision is released.
Changed ==
  decision.outcome = "accepted"
    /\ \E k \in CommandKeys : event[k] # Absent /\ event[k].outcome = "rejected"
LateHandoffNeedsChange ==
  Changed \/ /\ notification.status = "handed_off" => decision.released
             /\ \A k \in CommandKeys : communication[k] # Absent =>
                  communication[k].label = event[k].outcome

\* The decision keeps these whatever commands, edits and handlers are raced,
\* repeated and cut off.
DecisionSafe ==
  DecisionTypeOK /\ AcceptanceActsOnce /\ OneReleasePerOutcome /\ LateHandoffNeedsChange

\* Every released decision reaches the speaker's communication.
ReleaseIsCommunicated ==
  \A k \in CommandKeys : event[k] # Absent ~> communication[k] # Absent

-----------------------------------------------------------------------------
(* What docs/requirements/decision-workflows.md says, and a race breaks.   *)

\* "released snapshots are immutable"
ReleasedSnapshotIsImmutable ==
  [][decision.released /\ decision'.released => notification'.copy = notification.copy]_decisionVars
=============================================================================

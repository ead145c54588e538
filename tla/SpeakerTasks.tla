---------------------------- MODULE SpeakerTasks ----------------------------
(***************************************************************************)
(* The tasks of the speakers of one event: organizers create them with     *)
(* assignees (speaker-operations/service.ts, and for files                 *)
(* files-deliverables/service.ts), the outbox assigns those that exist to  *)
(* a speaker who is accepted (outbox.ts), and speakers complete them.      *)
(*                                                                         *)
(* A task is named by its idempotency key, which is unique in the event.   *)
(***************************************************************************)
EXTENDS Naturals, FiniteSets

CONSTANTS Tasks, FileKeys, Roster, Creators, Handlers, MaxBreaks

ASSUME SpeakerTasksAssumption ==
  FileKeys \subseteq Tasks /\ MaxBreaks \in Nat /\ "unaccepted" \notin Tasks

VARIABLES
  accepted,     \* event_speakers
  made,         \* speaker_tasks
  assigned,     \* speaker_task_assignments, as pairs of task and speaker
  deliverable,  \* deliverables of file requests, as the same pairs
  complete,     \* assignments that are complete
  creator,      \* the requests that create a task
  owed,         \* speakers whose speaker.tasks.requested is not dispatched
  handler,      \* its deliveries, each with the tasks it has read
  known,        \* history: the tasks that existed when a speaker was accepted
  breaks        \* invocations cut off so far

tasksVars ==
  <<accepted, made, assigned, deliverable, complete, creator, owed, handler, known, breaks>>

Free == [at |-> "free"]
Unaccepted == {"unaccepted"}

SpeakerTasksInit ==
  /\ accepted = {} /\ made = {} /\ assigned = {} /\ deliverable = {} /\ complete = {}
  /\ creator = [c \in Creators |-> Free]
  /\ owed = {} /\ handler = [h \in Handlers |-> Free]
  /\ known = [s \in Roster |-> Unaccepted] /\ breaks = 0

-----------------------------------------------------------------------------
(* addSpeaker and the acceptance of a proposal; the latter owes the        *)
(* speaker the tasks of the event.                                         *)

AddSpeaker(s) ==
  /\ s \notin accepted /\ accepted' = accepted \cup {s}
  /\ UNCHANGED <<made, assigned, deliverable, complete, creator, owed, handler, known, breaks>>

AcceptSpeaker(s) ==
  /\ known[s] = Unaccepted /\ accepted' = accepted \cup {s}
  /\ owed' = owed \cup {s} /\ known' = [known EXCEPT ![s] = made]
  /\ UNCHANGED <<made, assigned, deliverable, complete, creator, handler, breaks>>

-----------------------------------------------------------------------------
(* createSpeakerTask and createFileRequest: a key that is taken returns    *)
(* its task.                                                               *)

LookForTask(c, t, assignees) ==
  /\ creator[c] = Free /\ assignees # {} /\ assignees \subseteq accepted /\ t \notin made
  /\ creator' = [creator EXCEPT ![c] = [at |-> "insert", task |-> t, to |-> assignees]]
  /\ UNCHANGED <<accepted, made, assigned, deliverable, complete, owed, handler, known, breaks>>

\* A file request is inserted with its assignments and deliverables.
InsertFileRequest(c) ==
  /\ creator[c].at = "insert" /\ creator[c].task \in FileKeys
  /\ LET t == creator[c].task
         new == IF t \in made THEN {} ELSE {t} \X creator[c].to
     IN  /\ made' = made \cup {t}
         /\ assigned' = assigned \cup new
         /\ deliverable' = deliverable \cup new
  /\ creator' = [creator EXCEPT ![c] = Free]
  /\ UNCHANGED <<accepted, complete, owed, handler, known, breaks>>

\* Any other task is inserted first, and its assignments by the request that
\* inserted it.
InsertTask(c) ==
  /\ creator[c].at = "insert" /\ creator[c].task \notin FileKeys
  /\ made' = made \cup {creator[c].task}
  /\ creator' = [creator EXCEPT ![c] =
       IF @.task \in made THEN Free ELSE [@ EXCEPT !.at = "assign"]]
  /\ UNCHANGED <<accepted, assigned, deliverable, complete, owed, handler, known, breaks>>

InsertAssignments(c) ==
  /\ creator[c].at = "assign"
  /\ assigned' = assigned \cup ({creator[c].task} \X creator[c].to)
  /\ creator' = [creator EXCEPT ![c] = Free]
  /\ UNCHANGED <<accepted, made, deliverable, complete, owed, handler, known, breaks>>

-----------------------------------------------------------------------------
(* assignExistingTasks, delivered until its event is dispatched and once   *)
(* more when a message is duplicated.                                      *)

ReadTasks(h, s) ==
  /\ handler[h] = Free /\ s \in owed
  /\ handler' = [handler EXCEPT ![h] = [at |-> "insert", for |-> s, tasks |-> made]]
  /\ UNCHANGED <<accepted, made, assigned, deliverable, complete, creator, owed, known, breaks>>

\* Bug: one who has a task already is given no others.
BugHandsOver(s, tasks) ==
  IF \E t \in Tasks : <<t, s>> \in assigned THEN {} ELSE tasks \X {s}

\* Pairs that exist are left alone by the insert.
HandsOver(s, tasks) == tasks \X {s}

AssignTasks(h) ==
  /\ handler[h].at = "insert"
  /\ assigned' = assigned \cup HandsOver(handler[h].for, handler[h].tasks)
  /\ handler' = [handler EXCEPT ![h] = [at |-> "dispatch", for |-> @.for]]
  /\ UNCHANGED <<accepted, made, deliverable, complete, creator, owed, known, breaks>>

MarkDispatched(h) ==
  /\ handler[h].at = "dispatch"
  /\ owed' = owed \ {handler[h].for}
  /\ handler' = [handler EXCEPT ![h] = Free]
  /\ UNCHANGED <<accepted, made, assigned, deliverable, complete, creator, known, breaks>>

\* The invocation of a request or of a handler is cut off.
BreakOff ==
  /\ breaks < MaxBreaks /\ breaks' = breaks + 1
  /\ \/ \E c \in Creators : creator[c] # Free /\ creator' = [creator EXCEPT ![c] = Free]
                            /\ UNCHANGED handler
     \/ \E h \in Handlers : handler[h] # Free /\ handler' = [handler EXCEPT ![h] = Free]
                            /\ UNCHANGED creator
  /\ UNCHANGED <<accepted, made, assigned, deliverable, complete, owed, known>>

-----------------------------------------------------------------------------

\* completeOwnSpeakerTask, which refuses file requests.
CompleteTask(t, s) ==
  /\ <<t, s>> \in assigned \ complete /\ t \notin FileKeys
  /\ complete' = complete \cup {<<t, s>>}
  /\ UNCHANGED <<accepted, made, assigned, deliverable, creator, owed, handler, known, breaks>>

\* requestUpload joins the assignment with its deliverable.
Uploadable(t, s) == <<t, s>> \in assigned \cap deliverable

\* The file is uploaded and approved (module Files).
DeliverFile(t, s) ==
  /\ t \in FileKeys /\ Uploadable(t, s) /\ <<t, s>> \notin complete
  /\ complete' = complete \cup {<<t, s>>}
  /\ UNCHANGED <<accepted, made, assigned, deliverable, creator, owed, handler, known, breaks>>

SpeakerTasksNext ==
  \/ \E s \in Roster : AddSpeaker(s) \/ AcceptSpeaker(s)
  \/ \E c \in Creators :
       \/ \E t \in Tasks, to \in SUBSET Roster : LookForTask(c, t, to)
       \/ InsertFileRequest(c) \/ InsertTask(c) \/ InsertAssignments(c)
  \/ \E h \in Handlers :
       (\E s \in Roster : ReadTasks(h, s)) \/ AssignTasks(h) \/ MarkDispatched(h)
  \/ BreakOff
  \/ \E t \in Tasks, s \in Roster : CompleteTask(t, s) \/ DeliverFile(t, s)

SpeakerTasksSpec == SpeakerTasksInit /\ [][SpeakerTasksNext]_tasksVars

-----------------------------------------------------------------------------
(* Properties.                                                             *)

SpeakerTasksTypeOK ==
  /\ accepted \subseteq Roster /\ made \subseteq Tasks
  /\ complete \subseteq assigned /\ assigned \subseteq made \X accepted
  /\ deliverable \subseteq assigned /\ owed \subseteq accepted
  /\ known \in [Roster -> (SUBSET Tasks) \cup {Unaccepted}] /\ breaks \in 0..MaxBreaks

\* Once the handoff of an accepted speaker is dispatched, the speaker has every
\* task that existed at the acceptance, whatever is created, completed,
\* delivered twice or cut off meanwhile.
AcceptedHaveTasks ==
  \A s \in Roster : known[s] # Unaccepted /\ s \notin owed => known[s] \X {s} \subseteq assigned

\* A task whose key is taken has the assignments of the one request that
\* inserted it: only an invocation that was cut off leaves it without any, and
\* then no retry of the request restores them.
AssignedUnlessCutOff ==
  breaks = 0 =>
    \A t \in made : (\A c \in Creators : creator[c].at = "assign" => creator[c].task # t)
                      => \E s \in Roster : <<t, s>> \in assigned

SpeakerTasksSafe == SpeakerTasksTypeOK /\ AcceptedHaveTasks /\ AssignedUnlessCutOff

\* The portal sends a speaker to "Files & Deliverables" to complete a file
\* request ("File requests must be completed through Files & Deliverables"),
\* so whoever is assigned one can upload to it.
FileTasksCanBeDelivered ==
  \A t \in FileKeys, s \in Roster : <<t, s>> \in assigned => Uploadable(t, s)

=============================================================================

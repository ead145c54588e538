------------------------------ MODULE Sessions ------------------------------
(***************************************************************************)
(* The content of one session: organizers edit, approve and restore it     *)
(* (modules/files-deliverables/service.ts), and speakers request changes   *)
(* that an organizer resolves (modules/program/change-requests.ts).        *)
(*                                                                         *)
(* An organizer's request reads the session outside its transaction and    *)
(* compares the revision the organizer had opened; the transaction comes   *)
(* later and writes the revision after the one that was read.  What keeps  *)
(* two of them apart is the unique (session, version) of session_versions: *)
(* the second insert fails and its whole transaction is rolled back.       *)
(* Transactions run at READ COMMITTED and hold the row locks of what they  *)
(* write until they end, so the statements of one are a single step.       *)
(***************************************************************************)
EXTENDS Naturals

CONSTANTS
  Texts,        \* contents an organizer may write
  Proposals,    \* change requests, each with a content of its own
  Original,     \* the content of the accepted proposal
  Desks,        \* organizers' requests in progress
  MaxRevision   \* bound on the revisions of the session

ASSUME SessionsAssumption ==
  /\ Texts \cap Proposals = {} /\ Original \notin Texts \cup Proposals
  /\ MaxRevision \in Nat \ {0}

VARIABLES
  session,  \* the sessions row: content, contentStatus, revision
  history,  \* session_versions by number
  change,   \* session_change_requests: status of each
  desk      \* each request: Idle, or what it read and is about to write

sessionVars == <<session, history, change, desk>>

Contents == Texts \cup Proposals \cup {Original}
ContentStatus == {"draft", "in_review", "approved"}
Version == [content : Contents, status : ContentStatus]
Numbers == 1..MaxRevision
NoVersion == [content |-> Original, status |-> "none"]
NoDesk == [op |-> "idle"]

\* applyDecision creates the session of an accepted proposal with version 1.
SessionInit ==
  /\ session = [content |-> Original, status |-> "draft", revision |-> 1]
  /\ history = [n \in Numbers |->
       IF n = 1 THEN [content |-> Original, status |-> "draft"] ELSE NoVersion]
  /\ change = [c \in Proposals |-> "absent"]
  /\ desk = [d \in Desks |-> NoDesk]

-----------------------------------------------------------------------------
(* What the requests read.                                                 *)

Busy(d) == desk[d] # NoDesk
Seen(d) == [content |-> desk[d].seen.content, status |-> desk[d].seen.status]

\* The request read the revision its organizer had opened, and will write
\* next as the revision after it.
Holds(d, op, next) ==
  /\ ~Busy(d) /\ session.revision < MaxRevision
  /\ desk' = [desk EXCEPT ![d] = [op |-> op, seen |-> session, next |-> next]]
  /\ UNCHANGED <<session, history, change>>

\* Bug: an edit keeps the approval of the content it replaces.
BugKeepsApproval(status) == status

\* Content that was approved goes back to review when it changes.
Demoted(status) == IF status = "approved" THEN "in_review" ELSE status

EditRead(d) ==
  \E text \in Texts : Holds(d, "edit", [content |-> text, status |-> Demoted(session.status)])

ApprovalRead(d) ==
  \E status \in ContentStatus :
    Holds(d, "approve", [content |-> session.content, status |-> status])

RestoreRead(d) ==
  \E n \in Numbers : history[n] # NoVersion /\ Holds(d, "restore", history[n])

-----------------------------------------------------------------------------
(* What their transactions write.                                          *)

\* Bug: session_versions has no unique index.
BugNeverTaken(d) == FALSE

\* The unique (session, version) refuses a number another request has used.
NumberTaken(d) == history[desk[d].seen.revision + 1] # NoVersion

\* INSERT of the new version.  An edit and an approval first insert the
\* version they replace, ON CONFLICT DO NOTHING.
Recorded(d) ==
  [n \in Numbers |->
     IF n = desk[d].seen.revision + 1 THEN desk[d].next
     ELSE IF /\ n = desk[d].seen.revision /\ history[n] = NoVersion
             /\ desk[d].op \in {"edit", "approve"}
       THEN Seen(d) ELSE history[n]]

Done(d) == desk' = [desk EXCEPT ![d] = NoDesk]

\* UPDATE ... WHERE revision = the one that was read; the count of updated
\* rows is not looked at.
EditCommit(d) ==
  /\ desk[d].op = "edit" /\ ~NumberTaken(d)
  /\ session' =
       IF session.revision = desk[d].seen.revision
       THEN [content |-> desk[d].next.content, status |-> desk[d].next.status,
             revision |-> session.revision + 1]
       ELSE session
  /\ history' = Recorded(d)
  /\ Done(d) /\ UNCHANGED change

\* Bug: the approval goes to whatever revision is the latest by now.
BugApprovesLatest(d) ==
  /\ desk[d].op = "approve" /\ session.revision < MaxRevision
  /\ session' = [session EXCEPT !.status = desk[d].next.status, !.revision = @ + 1]
  /\ history' = [history EXCEPT ![session.revision + 1] =
       [content |-> session.content, status |-> desk[d].next.status]]
  /\ Done(d) /\ UNCHANGED change

\* UPDATE of the status and the revision, whatever the row holds by now.
ApprovalCommit(d) ==
  /\ desk[d].op = "approve" /\ ~NumberTaken(d)
  /\ session' = [session EXCEPT !.status = desk[d].next.status,
                                !.revision = desk[d].seen.revision + 1]
  /\ history' = Recorded(d)
  /\ Done(d) /\ UNCHANGED change

\* UPDATE of content, status and revision, whatever the row holds by now.
RestoreCommit(d) ==
  /\ desk[d].op = "restore" /\ ~NumberTaken(d)
  /\ session' = [content |-> desk[d].next.content, status |-> desk[d].next.status,
                 revision |-> desk[d].seen.revision + 1]
  /\ history' = Recorded(d)
  /\ Done(d) /\ UNCHANGED change

-----------------------------------------------------------------------------
(* Change requests of the session's speakers.                              *)

RequestChange(c) ==
  /\ change[c] = "absent"
  /\ change' = [change EXCEPT ![c] = "pending"]
  /\ UNCHANGED <<session, history, desk>>

Resolving(d) == desk[d].op \in {"resolve", "reject"}
RequestLocked(c) == \E d \in Desks : Resolving(d) /\ desk[d].request = c

\* SELECT ... FOR UPDATE of the request, then the session without a lock.
ResolveRead(d, c) ==
  /\ ~Busy(d) /\ change[c] = "pending" /\ ~RequestLocked(c)
  /\ \E op \in {"resolve", "reject"} :
       /\ op = "resolve" => session.revision < MaxRevision
       /\ desk' = [desk EXCEPT ![d] = [op |-> op, seen |-> session, request |-> c,
            next |-> [content |-> c, status |-> Demoted(session.status)]]]
  /\ UNCHANGED <<session, history, change>>

\* UPDATE ... WHERE revision = the one that was read, or the whole
\* transaction is rolled back.
ResolveCommit(d) ==
  /\ desk[d].op = "resolve"
  /\ session.revision = desk[d].seen.revision /\ ~NumberTaken(d)
  /\ session' = [content |-> desk[d].next.content, status |-> desk[d].next.status,
                 revision |-> session.revision + 1]
  /\ history' = Recorded(d)
  /\ change' = [change EXCEPT ![desk[d].request] = "approved"]
  /\ Done(d)

RejectCommit(d) ==
  /\ desk[d].op = "reject"
  /\ change' = [change EXCEPT ![desk[d].request] = "rejected"]
  /\ Done(d) /\ UNCHANGED <<session, history>>

\* A conflict, an error or the end of the invocation: nothing is written.
Rollback(d) ==
  /\ Busy(d) /\ Done(d)
  /\ UNCHANGED <<session, history, change>>

SessionNext ==
  \/ \E c \in Proposals : RequestChange(c)
  \/ \E d \in Desks :
       \/ EditRead(d) \/ ApprovalRead(d) \/ RestoreRead(d)
       \/ EditCommit(d) \/ ApprovalCommit(d) \/ RestoreCommit(d)
       \/ \E c \in Proposals : ResolveRead(d, c)
       \/ ResolveCommit(d) \/ RejectCommit(d) \/ Rollback(d)

SessionSpec == SessionInit /\ [][SessionNext]_sessionVars

-----------------------------------------------------------------------------
(* Properties.                                                             *)

SessionTypeOK ==
  /\ session \in [content : Contents, status : ContentStatus, revision : Numbers]
  /\ history \in [Numbers -> Version \cup {NoVersion}]
  /\ change \in [Proposals -> {"absent", "pending", "approved", "rejected"}]

\* The history has exactly the numbers up to the session's revision, and the
\* last version is what the session shows, although three of the four writers
\* do not look at whether their UPDATE still met the row they read.
HistoryMatches ==
  /\ \A n \in Numbers : history[n] # NoVersion <=> n <= session.revision
  /\ history[session.revision] = [content |-> session.content, status |-> session.status]

\* An approved change request is in the history, and one that is pending or
\* was rejected has left no trace there.
ApprovedIsApplied ==
  \A c \in Proposals : change[c] = "approved" <=> \E n \in Numbers : history[n].content = c

\* A stale request is refused, "never last-write-wins silently": whoever
\* changes the session has seen the revision the change replaces.
WritersSawLatest ==
  [][session' # session =>
       \E d \in Desks : Busy(d) /\ desk'[d] = NoDesk /\ desk[d].seen = session]_sessionVars

\* The session implements Document: one version after the other, edits take
\* an approval back, nothing is approved that was not approved as it stands.
Trail == [n \in 1..session.revision |-> history[n]]
Shown == INSTANCE Document WITH versions <- Trail
KeepsDocument == Shown!Spec

-----------------------------------------------------------------------------
(* The inductive invariant behind them.                                    *)

Row == [content : Contents, status : ContentStatus, revision : Numbers]
Job ==
  [op : {"edit", "approve", "restore"}, seen : Row, next : Version]
    \cup [op : {"resolve", "reject"}, seen : Row, next : Version, request : Proposals]

\* What a request read was the session at the revision it read: that version
\* is still in the history, and there is room for the next one.
SeenIsRecorded ==
  \A d \in Desks : Busy(d) =>
    /\ desk[d].seen.revision <= session.revision
    /\ history[desk[d].seen.revision] = Seen(d)
    /\ desk[d].op # "reject" => desk[d].seen.revision < MaxRevision

\* What it is about to write follows from what it read.
NextFollows ==
  \A d \in Desks :
    /\ desk[d].op = "edit" =>
         desk[d].next.content \in Texts /\ desk[d].next.status = Demoted(desk[d].seen.status)
    /\ desk[d].op = "approve" => desk[d].next.content = desk[d].seen.content
    /\ desk[d].op = "restore" =>
         \E n \in Numbers : history[n] # NoVersion /\ desk[d].next = history[n]
    /\ Resolving(d) =>
         desk[d].next = [content |-> desk[d].request, status |-> Demoted(desk[d].seen.status)]

\* A change request that is being resolved is pending, and its row is locked.
OneResolver ==
  \A d \in Desks : Resolving(d) =>
    /\ change[desk[d].request] = "pending"
    /\ \A e \in Desks : Resolving(e) /\ desk[e].request = desk[d].request => e = d

SessionInductive ==
  /\ SessionTypeOK /\ desk \in [Desks -> Job \cup {NoDesk}]
  /\ HistoryMatches /\ ApprovedIsApplied
  /\ SeenIsRecorded /\ NextFollows /\ OneResolver
=============================================================================

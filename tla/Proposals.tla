----------------------------- MODULE Proposals -----------------------------
(***************************************************************************)
(* The proposals of one speaker to one call for papers                     *)
(* (forms-submissions/service.ts and domain.ts), with the decision on them *)
(* (program/acceptance.ts) and the outbox events they leave.               *)
(*                                                                         *)
(* A definition is what a published version of the form says: drafts,      *)
(* several, counts, edits, confirms and reminds are its switches, limit    *)
(* its maximum per person (0: none), needs the keys of its questions, all  *)
(* of them required.                                                       *)
(***************************************************************************)
EXTENDS Naturals, Sequences, FiniteSets

CONSTANTS Requests, Proposals, Definitions, Keys, MaxDefinitions, MaxRevisions

ASSUME ProposalsAssumption ==
  /\ Definitions \subseteq
       [drafts : BOOLEAN, several : BOOLEAN, counts : BOOLEAN, edits : BOOLEAN,
        confirms : BOOLEAN, reminds : BOOLEAN, limit : Nat, needs : SUBSET Keys]
  /\ MaxDefinitions \in Nat /\ MaxRevisions \in Nat
  /\ IsFiniteSet(Requests) /\ IsFiniteSet(Proposals)

VARIABLES
  published,  \* the definitions published so far; the last one is active
  window,     \* whether the form is open, outside its dates, or closed
  proposal,   \* submissions, with the answers of the current version
  numbers,    \* the version numbers of submission_versions
  decided,    \* the version a decision was made on, 0 while there is none
  notice,     \* outbox events of proposals
  request     \* what each request has read outside its transaction

tables == <<published, window, proposal, numbers, decided, notice>>
proposalVars == <<tables, request>>

NoRequest == [at |-> "rest"]
Active == published[Len(published)]
Absent == [state |-> "absent", version |-> 0, current |-> 0, answers |-> {}]

ProposalsInit ==
  /\ published \in {<<d>> : d \in Definitions} /\ window = "open"
  /\ proposal = [s \in Proposals |-> Absent]
  /\ numbers = [s \in Proposals |-> {}]
  /\ decided = [s \in Proposals |-> 0]
  /\ notice = {}
  /\ request = [r \in Requests |-> NoRequest]

-----------------------------------------------------------------------------
(* The checks of a save.                                                   *)

\* formAvailability of a form that was published.
Open == window = "open"

\* validateSubmission: a draft answers known questions, a proposal answers
\* all that are required.
Valid(definition, answers, draft) ==
  answers \subseteq definition.needs /\ (draft \/ definition.needs \subseteq answers)

\* assertSubmissionLimit, for a proposal other than those in except.
Others(except) == Proposals \ except
MayStart(except) ==
  /\ Active.several \/ \A s \in Others(except) : proposal[s].state # "draft"
  /\ \/ Active.limit = 0
     \/ Cardinality({s \in Others(except) :
          proposal[s].state = "submitted" \/ (Active.counts /\ proposal[s].state = "draft")})
            < Active.limit

Event(kind, s, n) == [kind |-> kind, of |-> s, number |-> n]

\* insertSubmissionOutbox and scheduleDraftReminder; the reminder's key has no
\* version, so one proposal gets one.
SubmittedEvent(definition, s, n) ==
  {Event(IF definition.confirms THEN "confirmation" ELSE "submitted", s, n)}
ReminderEvent(definition, s) ==
  IF definition.reminds THEN {Event("reminder", s, 0)} ELSE {}

-----------------------------------------------------------------------------
(* createSpeakerSubmission, createManualSubmission                         *)

CreateChecks(r, draft, answers) ==
  /\ request[r] = NoRequest /\ Open /\ (draft => Active.drafts)
  /\ MayStart({}) /\ Valid(Active, answers, draft)
  /\ request' = [request EXCEPT ![r] =
       [at |-> "create", draft |-> draft, answers |-> answers, version |-> Len(published)]]
  /\ UNCHANGED tables

Inserts(s, state, version, answers) ==
  /\ proposal[s] = Absent
  /\ proposal' = [proposal EXCEPT ![s] =
       [state |-> state, version |-> version, current |-> 1, answers |-> answers]]
  /\ numbers' = [numbers EXCEPT ![s] = {1}]
  /\ UNCHANGED <<published, window, decided>>

CreateCommits(r, s) ==
  /\ request[r].at = "create"
  /\ LET definition == published[request[r].version] IN
       /\ Inserts(s, IF request[r].draft THEN "draft" ELSE "submitted",
                  request[r].version, request[r].answers)
       /\ notice' = notice \cup
            (IF request[r].draft THEN ReminderEvent(definition, s)
                              ELSE SubmittedEvent(definition, s, 1))
  /\ request' = [request EXCEPT ![r] = NoRequest]

\* The organizer enters a proposal by hand: no window, no limit, no
\* confirmation.
ManualEntry(s) ==
  /\ Inserts(s, "submitted", Len(published), Active.needs)
  /\ notice' = notice \cup {Event("manually_entered", s, 1)}
  /\ UNCHANGED request

-----------------------------------------------------------------------------
(* updateSpeakerSubmission                                                 *)

\* The version of the form a proposal was begun on stays its version.
OwnDefinition(s) == published[proposal[s].version]

\* A proposal without a decision.
Editable(s) == proposal[s].state # "absent" /\ decided[s] = 0

UpdateChecks(r, s, draft, answers) ==
  /\ request[r] = NoRequest /\ Editable(s) /\ Open
  /\ proposal[s].current < MaxRevisions
  /\ proposal[s].state = "submitted" => Active.edits /\ ~draft
  /\ Valid(OwnDefinition(s), answers, draft)
  /\ proposal[s].state = "draft" /\ ~draft => MayStart({s})
  /\ request' = [request EXCEPT ![r] =
       [at |-> "update", of |-> s, draft |-> draft, answers |-> answers,
        was |-> proposal[s].state, current |-> proposal[s].current,
        reminds |-> Active.reminds]]
  /\ UNCHANGED tables

\* submission_versions_number_unique.
NumberFree(r) == request[r].current + 1 \notin numbers[request[r].of]

\* Bug: a save is the first submission when it is not a draft.
BugFirstSubmission(r) == ~request[r].draft

FirstSubmission(r) == request[r].was = "draft" /\ ~request[r].draft

UpdateCommits(r) ==
  /\ request[r].at = "update" /\ NumberFree(r)
  /\ LET s == request[r].of
         n == request[r].current + 1
     IN  /\ proposal' = [proposal EXCEPT ![s] =
              [state |-> IF request[r].draft THEN "draft" ELSE "submitted",
               version |-> @.version, current |-> n, answers |-> request[r].answers]]
         /\ numbers' = [numbers EXCEPT ![s] = @ \cup {n}]
         /\ notice' = notice \cup
              (IF FirstSubmission(r) THEN SubmittedEvent(OwnDefinition(s), s, n)
               ELSE IF request[r].draft
                    THEN ReminderEvent([reminds |-> request[r].reminds], s)
                    ELSE {Event("updated", s, n)})
  /\ request' = [request EXCEPT ![r] = NoRequest]
  /\ UNCHANGED <<published, window, decided>>

UpdateFails(r) ==
  /\ request[r].at = "update" /\ ~NumberFree(r)
  /\ request' = [request EXCEPT ![r] = NoRequest]
  /\ UNCHANGED tables

-----------------------------------------------------------------------------
(* The decision, the form and the clock.                                   *)

\* persistDecision holds the lock on the submission and copies its current
\* version to the session.
Decide(s) ==
  /\ proposal[s].state = "submitted" /\ decided[s] = 0
  /\ decided' = [decided EXCEPT ![s] = proposal[s].current]
  /\ UNCHANGED <<published, window, proposal, numbers, notice, request>>

\* Publishing also opens a form that was closed; its dates may shut it.
Publish(definition, dates) ==
  /\ Len(published) < MaxDefinitions
  /\ published' = Append(published, definition) /\ window' = dates
  /\ UNCHANGED <<proposal, numbers, decided, notice, request>>

CloseForm ==
  /\ window # "closed" /\ window' = "closed"
  /\ UNCHANGED <<published, proposal, numbers, decided, notice, request>>

\* Time reaches the opening or the closing date.
DatePasses ==
  /\ window' = CASE window = "open" -> "shut" [] window = "shut" -> "open"
                  [] OTHER -> window
  /\ UNCHANGED <<published, proposal, numbers, decided, notice, request>>

ProposalsNext ==
  \/ \E r \in Requests :
       \/ \E draft \in BOOLEAN, answers \in SUBSET Keys :
            \/ CreateChecks(r, draft, answers)
            \/ \E s \in Proposals : UpdateChecks(r, s, draft, answers)
       \/ \E s \in Proposals : CreateCommits(r, s)
       \/ UpdateCommits(r) \/ UpdateFails(r)
  \/ \E s \in Proposals : Decide(s) \/ ManualEntry(s)
  \/ \E d \in Definitions, dates \in {"open", "shut"} : Publish(d, dates)
  \/ CloseForm \/ DatePasses

ProposalsSpec == ProposalsInit /\ [][ProposalsNext]_proposalVars

-----------------------------------------------------------------------------
(* Properties.                                                             *)

Kinds == {"confirmation", "submitted", "manually_entered", "updated", "reminder"}
Events == [kind : Kinds, of : Proposals, number : Nat]

ProposalsTypeOK ==
  /\ published \in Seq(Definitions) /\ window \in {"open", "shut", "closed"}
  /\ proposal \in [Proposals ->
       [state : {"absent", "draft", "submitted"}, version : Nat, current : Nat,
        answers : SUBSET Keys]]
  /\ numbers \in [Proposals -> SUBSET Nat] /\ decided \in [Proposals -> Nat]
  /\ notice \subseteq Events
  /\ \A r \in Requests : request[r].at \in {"rest", "create", "update"}

\* The versions of a proposal are 1..current without a gap, and its outbox
\* events tell the same story: it was submitted exactly once, at the version
\* where it left the draft state, and each version after that is an update,
\* however saves of one speaker race.
Entered == {"confirmation", "submitted", "manually_entered"}
ToldOnce(s) ==
  IF proposal[s].state # "submitted"
  THEN \A e \in notice : e.of = s => e.kind = "reminder"
  ELSE \E first \in 1..proposal[s].current :
         /\ {e.number : e \in {x \in notice : x.of = s /\ x.kind \in Entered}} = {first}
         /\ {e.number : e \in {x \in notice : x.of = s /\ x.kind = "updated"}}
              = (first + 1)..proposal[s].current
ProposalLedger ==
  \A s \in Proposals : numbers[s] = 1..proposal[s].current /\ ToldOnce(s)

\* A proposal that was submitted answers every required question of the
\* version of the form it names, although the form may be published again and
\* the proposal edited later.
SubmittedIsComplete ==
  \A s \in Proposals :
    proposal[s].state = "submitted" => proposal[s].answers = OwnDefinition(s).needs

\* An edit that was checked before the decision may still be saved after it;
\* the unique number admits only one, so the session is at most one version
\* behind its proposal.
OneCrossingEdit ==
  \A s \in Proposals : decided[s] # 0 => proposal[s].current <= decided[s] + 1

\* The limit per person is checked before the transaction: requests that
\* overlap exceed it, each by one at most.  Definitions that lower the limit
\* and proposals entered by hand are not held against the requests.
LimitOverrun ==
  LET own == {s \in Proposals : proposal[s].state = "submitted"
                /\ Event("manually_entered", s, 1) \notin notice}
      limits == {published[i].limit : i \in 1..Len(published)}
  IN  0 \notin limits =>
        \E n \in limits : Cardinality(own) <= n + Cardinality(Requests) - 1

ProposalsSafe ==
  /\ ProposalsTypeOK /\ ProposalLedger /\ SubmittedIsComplete
  /\ OneCrossingEdit /\ LimitOverrun

=============================================================================

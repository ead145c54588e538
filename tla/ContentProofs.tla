--------------------------- MODULE ContentProofs ----------------------------
(***************************************************************************)
(* Proofs about decisions (Decision), the versions of session content      *)
(* (Sessions) and files (Files), for every value of their constants.       *)
(***************************************************************************)
EXTENDS Decision, Sessions, Files, Sequences, FiniteSetTheorems, TLAPS

-----------------------------------------------------------------------------
(***************************************************************************)
(* Decision: commands, edits and handlers of one proposal.                 *)
(***************************************************************************)

(* The inductive invariant.                                                *)

CommandJob ==
  [kind : {"decide", "change", "release"}, key : CommandKeys, outcome : Outcomes]
EditorJob == [at : {"open", "save"}, revision : Nat, of : Outcomes]
HandlerJob ==
  [at : {"queue", "handoff", "settle"}, key : CommandKeys, label : Outcomes \cup {"none"}]

ActorsTyped ==
  /\ command \in [Commands -> {NoCommand} \cup CommandJob]
  /\ editor \in [Editors -> {NoCommand} \cup EditorJob]
  /\ handler \in [Handlers -> {NoCommand} \cup HandlerJob]

\* A notification exists once there is a decision, and only a decision is
\* released.
DecidedFirst ==
  /\ notification.status = "none" <=> decision.outcome = "none"
  /\ decision.released => decision.outcome # "none"

\* A release event is of the outcome that is released, or of the rejection
\* that became an acceptance after it; its receipt keeps its key from being
\* used again.
EventsFollow ==
  \A k \in CommandKeys : event[k] # Absent =>
    /\ HasReceipt("release", k)
    /\ \/ event[k].outcome = decision.outcome /\ decision.released
       \/ event[k].outcome = "rejected" /\ decision.outcome = "accepted"

\* A reviewed text is about the decision's outcome, and so is what an editor
\* is about to write unless its revision is gone.
ReviewedIsCurrent ==
  /\ notification.status = "reviewed" =>
       notification.copy.of = decision.outcome /\ notification.copy.reviewed
  /\ \A e \in Editors : editor[e] # NoCommand =>
       /\ editor[e].revision <= notification.revision
       /\ editor[e].revision = notification.revision => editor[e].of = decision.outcome

\* A handler and a communication belong to an event, and a handler read its
\* outcome unless the decision changed after the release.
HandledIsReleased ==
  /\ \A k \in CommandKeys : communication[k] # Absent => event[k] # Absent
  /\ \A h \in Handlers : handler[h] # NoCommand =>
       /\ event[handler[h].key] # Absent
       /\ Changed \/ handler[h].label = event[handler[h].key].outcome

DecisionInductive ==
  /\ DecisionTypeOK /\ ActorsTyped
  /\ DecidedFirst /\ EventsFollow /\ ReviewedIsCurrent /\ HandledIsReleased
  /\ AcceptanceActsOnce /\ OneReleasePerOutcome /\ LateHandoffNeedsChange
  /\ ReleasedCopyIsReviewed

\* What the rows hold.
LEMMA RowsTyped ==
  ASSUME DecisionInductive
  PROVE  /\ decision.outcome \in Outcomes \cup {"none"}
         /\ decision.released \in BOOLEAN /\ decision.notified \in BOOLEAN
         /\ notification.status \in {"none", "draft", "reviewed", "queued", "handed_off"}
         /\ notification.revision \in Nat /\ notification.copy \in Copy
         /\ \A k \in CommandKeys : event[k] # Absent =>
              event[k].outcome \in Outcomes /\ event[k].copy \in Copy
  BY DEF DecisionInductive, DecisionTypeOK

\* What an actor in progress holds.
LEMMA HeldTyped ==
  ASSUME DecisionInductive
  PROVE  /\ \A r \in Commands : command[r] # NoCommand => command[r] \in CommandJob
         /\ \A e \in Editors : editor[e] # NoCommand => editor[e] \in EditorJob
         /\ \A h \in Handlers : handler[h] # NoCommand =>
              handler[h] \in HandlerJob /\ handler[h].key \in CommandKeys
  BY DEF DecisionInductive, ActorsTyped, HandlerJob

\* A step of a command, an editor or a handler that only changes what the
\* actor itself holds.
LEMMA CommandKeepsInductive ==
  ASSUME DecisionInductive, UNCHANGED <<rows, mailing, editor, handler>>,
         command' \in [Commands -> {NoCommand} \cup CommandJob]
  PROVE  DecisionInductive'
  BY DEF DecisionInductive, rows, mailing, DecisionTypeOK, ActorsTyped, DecidedFirst, EventsFollow,
     HasReceipt, ReviewedIsCurrent, HandledIsReleased, Changed, AcceptanceActsOnce,
     OneReleasePerOutcome, LateHandoffNeedsChange, ReleasedCopyIsReviewed

\* The same for an editor.
LEMMA EditorKeepsInductive ==
  ASSUME DecisionInductive, UNCHANGED <<rows, mailing, command, handler>>,
         editor' \in [Editors -> {NoCommand} \cup EditorJob],
         \A e \in Editors : editor'[e] # NoCommand =>
           /\ editor'[e].revision <= notification.revision
           /\ editor'[e].revision = notification.revision => editor'[e].of = decision.outcome
  PROVE  DecisionInductive'
  BY DEF DecisionInductive, rows, mailing, DecisionTypeOK, ActorsTyped, DecidedFirst, EventsFollow,
     HasReceipt, ReviewedIsCurrent, HandledIsReleased, Changed, AcceptanceActsOnce,
     OneReleasePerOutcome, LateHandoffNeedsChange, ReleasedCopyIsReviewed

\* A handler may also settle a row or use up a fault.
LEMMA HandlerKeepsInductive ==
  ASSUME DecisionInductive, UNCHANGED <<rows, communication, command, editor>>,
         handler' \in [Handlers -> {NoCommand} \cup HandlerJob],
         cutOffs' \in 0..MaxCutOffs, settled' \subseteq CommandKeys,
         \A h \in Handlers : handler'[h] # NoCommand =>
           /\ event[handler'[h].key] # Absent
           /\ Changed \/ handler'[h].label = event[handler'[h].key].outcome
  PROVE  DecisionInductive'
  BY DEF DecisionInductive, rows, DecisionTypeOK, ActorsTyped, DecidedFirst, EventsFollow,
     HasReceipt, ReviewedIsCurrent, HandledIsReleased, Changed, AcceptanceActsOnce,
     OneReleasePerOutcome, LateHandoffNeedsChange, ReleasedCopyIsReviewed

-----------------------------------------------------------------------------
(* One lemma per kind of step.                                             *)

\* A command that begins or is refused changes no row.
LEMMA CommandSteps ==
  ASSUME DecisionInductive, NEW r \in Commands,
         \/ \E kind \in {"decide", "change", "release"}, k \in CommandKeys, o \in Outcomes :
              Begin(r, kind, k, o)
         \/ RefuseCommand(r)
  PROVE  DecisionInductive'
<1>1. command' \in [Commands -> {NoCommand} \cup CommandJob]
  BY DEF Begin, RefuseCommand, Receipt, DecisionInductive, ActorsTyped, CommandJob
<1>2. UNCHANGED <<rows, mailing, editor, handler>>
  BY DEF Begin, RefuseCommand
<1> QED BY <1>1, <1>2, CommandKeepsInductive

\* An editor who opens the draft sees the decision it is for.
LEMMA EditorSteps ==
  ASSUME DecisionInductive, NEW e \in Editors, Open(e) \/ EditChecks(e)
  PROVE  DecisionInductive'
<1>1. UNCHANGED <<rows, mailing, command, handler>>
  BY DEF Open, EditChecks
<1> DEFINE Sound(j) ==
      j # NoCommand =>
        /\ j.revision <= notification.revision
        /\ j.revision = notification.revision => j.of = decision.outcome
<1>2. \E j \in {NoCommand} \cup EditorJob : Sound(j) /\ editor' = [editor EXCEPT ![e] = j]
  <2>1. CASE Open(e)
    <3> DEFINE j == [at |-> "open", revision |-> notification.revision, of |-> decision.outcome]
    <3>1. decision.outcome \in Outcomes
      BY <2>1, RowsTyped DEF Open, DecisionInductive, DecidedFirst
    <3>2. notification.revision \in Nat
      BY RowsTyped
    <3>3. j \in EditorJob
      BY <3>1, <3>2 DEF EditorJob
    <3>4. Sound(j)
      BY <3>2
    <3> QED BY <2>1, <3>3, <3>4 DEF Open
  <2>2. CASE EditChecks(e)
    <3>1. editor[e] # NoCommand /\ editor[e] \in EditorJob
      BY <2>2, HeldTyped DEF EditChecks, NoCommand
    <3> DEFINE saving == [editor[e] EXCEPT !.at = "save"]
    <3>2. saving \in EditorJob
      BY <3>1 DEF EditorJob
    <3>3. saving.revision = editor[e].revision /\ saving.of = editor[e].of
      BY <3>1 DEF EditorJob
    <3>4. Sound(saving)
      BY <3>1, <3>3 DEF DecisionInductive, ReviewedIsCurrent
    <3>5. editor' = [editor EXCEPT ![e] = saving] \/ editor' = [editor EXCEPT ![e] = NoCommand]
      BY <2>2 DEF EditChecks
    <3> QED BY <3>2, <3>4, <3>5
  <2> QED BY <2>1, <2>2
<1>3. PICK j \in {NoCommand} \cup EditorJob : Sound(j) /\ editor' = [editor EXCEPT ![e] = j]
  BY <1>2
<1>4. editor' \in [Editors -> {NoCommand} \cup EditorJob]
  BY <1>3 DEF DecisionInductive, ActorsTyped
<1>5. \A f \in Editors : Sound(editor'[f])
  BY <1>3 DEF DecisionInductive, ActorsTyped, ReviewedIsCurrent
<1> QED BY <1>1, <1>4, <1>5, EditorKeepsInductive

\* A handler reads the outcome it releases, or an acceptance that replaced it.
LEMMA HandlerSteps ==
  ASSUME DecisionInductive, NEW h \in Handlers,
         (\E k \in CommandKeys : Handle(h, k)) \/ SettleEvent(h) \/ HandlerCutOff(h)
  PROVE  DecisionInductive'
<1> DEFINE Sound(j) ==
      j # NoCommand =>
        event[j.key] # Absent /\ (Changed \/ j.label = event[j.key].outcome)
<1>1. cutOffs' \in 0..MaxCutOffs
  BY DecisionAssumption DEF Handle, SettleEvent, HandlerCutOff, DecisionInductive, DecisionTypeOK, mailing
<1>2. settled' \subseteq CommandKeys
  <2>1. SettleEvent(h) => handler[h].key \in CommandKeys
    BY HeldTyped DEF SettleEvent, NoCommand
  <2> QED BY <2>1 DEF Handle, SettleEvent, HandlerCutOff, DecisionInductive, DecisionTypeOK, mailing
<1>3. UNCHANGED <<rows, communication, command, editor>>
  BY DEF Handle, SettleEvent, HandlerCutOff, mailing
<1>4. \E j \in {NoCommand} \cup HandlerJob : Sound(j) /\ handler' = [handler EXCEPT ![h] = j]
  <2>1. ASSUME NEW k \in CommandKeys, Handle(h, k)
        PROVE  \E j \in HandlerJob : Sound(j) /\ handler' = [handler EXCEPT ![h] = j]
    <3> DEFINE j == [at |-> "queue", key |-> k, label |-> decision.outcome]
    <3>1. j \in HandlerJob
      BY RowsTyped DEF HandlerJob
    <3>2. event[k] # Absent
      BY <2>1 DEF Handle
    <3>3. Changed \/ decision.outcome = event[k].outcome
      BY <3>2 DEF DecisionInductive, EventsFollow, Changed
    <3>4. Sound(j)
      BY <3>2, <3>3
    <3> QED BY <2>1, <3>1, <3>4 DEF Handle
  <2>2. SettleEvent(h) \/ HandlerCutOff(h) => handler' = [handler EXCEPT ![h] = NoCommand]
    BY DEF SettleEvent, HandlerCutOff
  <2> QED BY <2>1, <2>2
<1>5. PICK j \in {NoCommand} \cup HandlerJob : Sound(j) /\ handler' = [handler EXCEPT ![h] = j]
  BY <1>4
<1>6. handler' \in [Handlers -> {NoCommand} \cup HandlerJob]
  BY <1>5 DEF DecisionInductive, ActorsTyped
<1>7. \A g \in Handlers : Sound(handler'[g])
  BY <1>5 DEF DecisionInductive, ActorsTyped, HandledIsReleased
<1> QED BY <1>1, <1>2, <1>3, <1>6, <1>7, HandlerKeepsInductive

\* The edit of a revision that is still there is about the decision as it is;
\* a stale one writes nothing.
LEMMA EditSavesKeepsInductive ==
  ASSUME DecisionInductive, NEW e \in Editors, EditSaves(e)
  PROVE  DecisionInductive'
<1> DEFINE next == notification.revision + 1
           saved == [status |-> "reviewed", revision |-> next,
                     copy |-> [of |-> editor[e].of, reviewed |-> TRUE, since |-> next]]
<1>1. editor[e] # NoCommand /\ editor[e] \in EditorJob
  BY HeldTyped DEF EditSaves, NoCommand
<1>2. notification.revision \in Nat
  BY RowsTyped
<1>3. /\ UNCHANGED <<decision, sessions, commandReceipts, event, onboarding, mailing, command, handler>>
      /\ editor' = [editor EXCEPT ![e] = NoCommand]
  BY DEF EditSaves
<1>4. /\ editor' \in [Editors -> {NoCommand} \cup EditorJob]
      /\ \A f \in Editors : editor'[f] # NoCommand => editor'[f] = editor[f]
  BY <1>3 DEF DecisionInductive, ActorsTyped
<1>5. CASE notification' = notification
  <2>1. UNCHANGED <<rows, mailing, command, handler>>
    BY <1>3, <1>5 DEF rows
  <2> QED BY <1>4, <2>1, EditorKeepsInductive DEF DecisionInductive, ReviewedIsCurrent
<1>6. CASE notification.revision = editor[e].revision /\ notification' = saved
  <2>1. editor[e].of = decision.outcome /\ editor[e].of \in Outcomes
    BY <1>1, <1>6 DEF DecisionInductive, ReviewedIsCurrent, EditorJob
  <2>2. notification'.status = "reviewed" /\ notification'.revision = next
        /\ notification'.copy.of = decision.outcome /\ notification'.copy.reviewed
    BY <1>6, <2>1
  <2>3. DecisionTypeOK' /\ ActorsTyped'
    BY <1>2, <1>3, <1>4, <1>6, <2>1 DEF DecisionInductive, DecisionTypeOK, ActorsTyped, Copy, mailing
  <2>4. DecidedFirst' /\ EventsFollow'
    BY <1>3, <2>1, <2>2 DEF DecisionInductive, DecidedFirst, EventsFollow, HasReceipt, Outcomes
  <2>5. ReviewedIsCurrent'
    <3>1. ASSUME NEW f \in Editors, editor'[f] # NoCommand
          PROVE  editor'[f].revision <= next /\ editor'[f].revision # next
      <4>1. editor'[f] = editor[f] /\ editor[f] \in EditorJob
        BY <1>4, <3>1, HeldTyped
      <4>2. editor[f].revision \in Nat /\ editor[f].revision <= notification.revision
        BY <3>1, <4>1 DEF EditorJob, DecisionInductive, ReviewedIsCurrent
      <4> QED BY <1>2, <4>1, <4>2
    <3> QED BY <1>3, <2>2, <3>1 DEF ReviewedIsCurrent
  <2>6. HandledIsReleased' /\ LateHandoffNeedsChange'
    BY <1>3, <2>2 DEF DecisionInductive, HandledIsReleased, LateHandoffNeedsChange, Changed, mailing
  <2>7. AcceptanceActsOnce' /\ OneReleasePerOutcome' /\ ReleasedCopyIsReviewed'
    BY <1>3 DEF DecisionInductive, AcceptanceActsOnce, OneReleasePerOutcome, ReleasedCopyIsReviewed
  <2> QED BY <2>3, <2>4, <2>5, <2>6, <2>7 DEF DecisionInductive
<1> QED BY <1>5, <1>6 DEF EditSaves

\* A communication takes the text of its event and the label its handler read.
LEMMA QueueKeepsInductive ==
  ASSUME DecisionInductive, NEW h \in Handlers, QueueCommunication(h)
  PROVE  DecisionInductive'
<1> DEFINE k == handler[h].key
           queued == [is |-> "queued", copy |-> event[k].copy, label |-> handler[h].label]
<1>1. handler[h] # NoCommand /\ handler[h] \in HandlerJob /\ k \in CommandKeys
  BY HeldTyped DEF QueueCommunication, NoCommand
<1>2. event[k] # Absent /\ (Changed \/ handler[h].label = event[k].outcome)
  BY <1>1 DEF DecisionInductive, HandledIsReleased
<1>3. queued \in [is : {"queued"}, copy : Copy, label : Outcomes \cup {"none"}]
  BY <1>1, <1>2, RowsTyped DEF HandlerJob
<1>4. /\ UNCHANGED <<rows, settled, cutOffs, command, editor>>
      /\ handler' = [handler EXCEPT ![h].at = "handoff"]
      /\ communication' = [communication EXCEPT ![k] =
           IF communication[k] = Absent THEN queued ELSE communication[k]]
  BY DEF QueueCommunication
<1>5. /\ \A j \in CommandKeys : j # k => communication'[j] = communication[j]
      /\ communication'[k] = queued \/ communication'[k] = communication[k]
      /\ communication' \in
           [CommandKeys -> {Absent} \cup [is : {"queued"}, copy : Copy, label : Outcomes \cup {"none"}]]
  BY <1>1, <1>3, <1>4 DEF DecisionInductive, DecisionTypeOK
<1>6. [handler[h] EXCEPT !.at = "handoff"] \in HandlerJob
  BY <1>1 DEF HandlerJob
<1>7. /\ handler' \in [Handlers -> {NoCommand} \cup HandlerJob]
      /\ \A g \in Handlers : handler'[g] # NoCommand =>
           /\ handler[g] # NoCommand
           /\ handler'[g].key = handler[g].key /\ handler'[g].label = handler[g].label
  BY <1>1, <1>4, <1>6 DEF DecisionInductive, ActorsTyped, HandlerJob
<1>8. Changed' = Changed
  BY <1>4 DEF Changed, rows
<1>9. HandledIsReleased'
  BY <1>2, <1>4, <1>5, <1>7, <1>8 DEF DecisionInductive, HandledIsReleased, rows
<1>10. LateHandoffNeedsChange'
  <2>1. SUFFICES ASSUME ~Changed
        PROVE  /\ notification.status = "handed_off" => decision.released
               /\ \A j \in CommandKeys : communication'[j] # Absent =>
                    communication'[j].label = event[j].outcome
    BY <1>4, <1>8 DEF LateHandoffNeedsChange, rows
  <2>2. /\ notification.status = "handed_off" => decision.released
        /\ \A j \in CommandKeys : communication[j] # Absent =>
             communication[j].label = event[j].outcome
    BY <2>1 DEF DecisionInductive, LateHandoffNeedsChange
  <2> QED BY <1>2, <1>5, <2>1, <2>2
<1> QED BY <1>4, <1>5, <1>7, <1>9, <1>10 DEF DecisionInductive, DecisionTypeOK, ActorsTyped, DecidedFirst,
     EventsFollow, HasReceipt, ReviewedIsCurrent, AcceptanceActsOnce, OneReleasePerOutcome,
     ReleasedCopyIsReviewed, rows

\* A handler hands off what is released, or what an acceptance replaced.
LEMMA HandOffKeepsInductive ==
  ASSUME DecisionInductive, NEW h \in Handlers, HandOff(h)
  PROVE  DecisionInductive'
<1>1. handler[h] # NoCommand /\ handler[h] \in HandlerJob /\ handler[h].key \in CommandKeys
  BY HeldTyped DEF HandOff, NoCommand
<1>2. event[handler[h].key] # Absent
  BY <1>1 DEF DecisionInductive, HandledIsReleased
<1>3. Changed \/ decision.released
  BY <1>1, <1>2 DEF DecisionInductive, EventsFollow, Changed
<1>4. decision.outcome # "none"
  BY <1>1, <1>2, RowsTyped DEF DecisionInductive, EventsFollow, Outcomes
<1>5. /\ UNCHANGED <<sessions, commandReceipts, event, onboarding, mailing, command, editor>>
      /\ notification' = [notification EXCEPT !.status = "handed_off"]
      /\ decision' = [decision EXCEPT !.notified = TRUE]
      /\ handler' = [handler EXCEPT ![h].at = "settle"]
  BY DEF HandOff
<1>6. /\ decision'.outcome = decision.outcome /\ decision'.released = decision.released
      /\ notification'.revision = notification.revision
      /\ notification'.status = "handed_off"
  BY <1>5 DEF DecisionInductive, DecisionTypeOK
<1>7. [handler[h] EXCEPT !.at = "settle"] \in HandlerJob
  BY <1>1 DEF HandlerJob
<1>8. /\ handler' \in [Handlers -> {NoCommand} \cup HandlerJob]
      /\ \A g \in Handlers : handler'[g] # NoCommand =>
           /\ handler[g] # NoCommand
           /\ handler'[g].key = handler[g].key /\ handler'[g].label = handler[g].label
  BY <1>1, <1>5, <1>7 DEF DecisionInductive, ActorsTyped, HandlerJob
<1>9. Changed' = Changed
  BY <1>5, <1>6 DEF Changed
<1>10. DecisionTypeOK' /\ ActorsTyped'
  BY <1>5, <1>8 DEF DecisionInductive, DecisionTypeOK, ActorsTyped, mailing
<1>11. DecidedFirst' /\ EventsFollow' /\ ReviewedIsCurrent'
  BY <1>4, <1>5, <1>6 DEF DecisionInductive, DecidedFirst, EventsFollow, HasReceipt, ReviewedIsCurrent
<1>12. HandledIsReleased'
  BY <1>5, <1>8, <1>9 DEF DecisionInductive, HandledIsReleased, mailing
<1>13. LateHandoffNeedsChange'
  BY <1>3, <1>5, <1>6, <1>9 DEF DecisionInductive, LateHandoffNeedsChange, mailing
<1> QED BY <1>5, <1>6, <1>10, <1>11, <1>12, <1>13 DEF DecisionInductive, AcceptanceActsOnce,
     OneReleasePerOutcome, ReleasedCopyIsReviewed

\* The first decision, or the acceptance of a submission that was rejected: the
\* notification starts over under a new revision.
LEMMA SetOutcomeKeepsInductive ==
  ASSUME DecisionInductive, NEW r \in Commands, PersistDecision(r),
         command[r] \in CommandJob, decision.outcome # command[r].outcome
  PROVE  /\ DecisionInductive'
         /\ decision'.outcome \in Outcomes /\ ~decision'.released
         /\ \/ decision.outcome = "none"
            \/ decision.outcome = "rejected" /\ decision'.outcome = "accepted"
<1> DEFINE outcome == command[r].outcome
           next == notification.revision + 1
<1>1. /\ outcome \in Outcomes
      /\ \/ decision.outcome = "none"
         \/ decision.outcome = "rejected" /\ outcome = "accepted"
  BY DEF PersistDecision, CanDecide, CanChange, CommandJob
<1>2. /\ decision' = [outcome |-> outcome, released |-> FALSE, notified |-> FALSE]
      /\ notification' = [status |-> "draft", revision |-> next,
                          copy |-> [of |-> outcome, reviewed |-> FALSE, since |-> next]]
      /\ sessions' = IF outcome = "accepted" /\ sessions = 0 THEN 1 ELSE sessions
      /\ commandReceipts' = commandReceipts \cup {command[r]}
      /\ command' = [command EXCEPT ![r] = NoCommand]
      /\ UNCHANGED <<event, onboarding, mailing, editor, handler>>
  BY DEF PersistDecision, SetOutcome, ResetNotification, DefaultDecisionNotification, AcceptanceHandoff
<1>3. notification.revision \in Nat /\ next \in Nat
  BY RowsTyped
<1>4. /\ decision'.outcome = outcome /\ ~decision'.released
      /\ notification'.status = "draft" /\ notification'.revision = next
  BY <1>2
<1>5. command' \in [Commands -> {NoCommand} \cup CommandJob]
  BY <1>2 DEF DecisionInductive, ActorsTyped
<1>6. sessions = 0 /\ onboarding = 0 /\ onboarding' = 0
  <2>1. sessions = 0 /\ onboarding # 1 /\ onboarding <= 1 /\ onboarding \in Nat
    BY <1>1 DEF DecisionInductive, AcceptanceActsOnce, DecisionTypeOK
  <2> QED BY <1>2, <2>1
<1>7. \A k \in CommandKeys : event[k] # Absent =>
        event[k].outcome = "rejected" /\ outcome = "accepted"
  BY <1>1, RowsTyped DEF DecisionInductive, EventsFollow, DecidedFirst, Outcomes
<1>8. DecisionTypeOK'
  <2>1. /\ decision' \in [outcome : Outcomes \cup {"none"}, released : BOOLEAN, notified : BOOLEAN]
        /\ notification' \in [status : {"none", "draft", "reviewed", "queued", "handed_off"},
                              revision : Nat, copy : Copy]
    BY <1>1, <1>2, <1>3 DEF Copy
  <2>2. /\ sessions' \in Nat /\ onboarding' \in Nat
        /\ commandReceipts' \subseteq
             [kind : {"decide", "change", "release"}, key : CommandKeys, outcome : Outcomes]
    BY <1>2, <1>6 DEF DecisionInductive, DecisionTypeOK, CommandJob
  <2> QED BY <1>2, <2>1, <2>2 DEF DecisionInductive, DecisionTypeOK, mailing
<1>9. ActorsTyped'
  BY <1>2, <1>5 DEF DecisionInductive, ActorsTyped
<1>10. DecidedFirst'
  BY <1>1, <1>4 DEF DecidedFirst, Outcomes
<1>11. EventsFollow'
  BY <1>2, <1>4, <1>7 DEF DecisionInductive, EventsFollow, HasReceipt
<1>12. ReviewedIsCurrent'
  <2>1. ASSUME NEW e \in Editors, editor[e] # NoCommand
        PROVE  editor[e].revision <= next /\ editor[e].revision # next
    <3>1. editor[e].revision \in Nat /\ editor[e].revision <= notification.revision
      BY <2>1, HeldTyped DEF EditorJob, DecisionInductive, ReviewedIsCurrent
    <3> QED BY <1>3, <3>1
  <2> QED BY <1>2, <1>4, <2>1 DEF ReviewedIsCurrent
<1>13. (\E k \in CommandKeys : event[k] # Absent) => Changed'
  BY <1>2, <1>4, <1>7 DEF Changed
<1>14. HandledIsReleased'
  <2>1. ASSUME NEW h \in Handlers, handler[h] # NoCommand
        PROVE  event[handler[h].key] # Absent /\ handler[h].key \in CommandKeys
    BY <2>1, HeldTyped DEF DecisionInductive, HandledIsReleased
  <2> QED BY <1>2, <1>13, <2>1 DEF DecisionInductive, HandledIsReleased, mailing
<1>15. LateHandoffNeedsChange'
  <2>1. (\E k \in CommandKeys : communication[k] # Absent) => Changed'
    BY <1>13 DEF DecisionInductive, HandledIsReleased
  <2> QED BY <1>2, <1>4, <2>1 DEF LateHandoffNeedsChange, mailing
<1>16. AcceptanceActsOnce'
  BY <1>2, <1>4, <1>6 DEF AcceptanceActsOnce
<1>17. OneReleasePerOutcome' /\ ReleasedCopyIsReviewed'
  BY <1>2 DEF DecisionInductive, OneReleasePerOutcome, ReleasedCopyIsReviewed
<1>18. DecisionInductive'
  BY <1>8, <1>9, <1>10, <1>11, <1>12, <1>14, <1>15, <1>16, <1>17 DEF DecisionInductive
<1> QED BY <1>1, <1>4, <1>18

\* A decision that is repeated leaves everything but its receipt.
LEMMA RepeatKeepsInductive ==
  ASSUME DecisionInductive, NEW r \in Commands, PersistDecision(r),
         command[r] \in CommandJob, decision.outcome = command[r].outcome
  PROVE  DecisionInductive' /\ decision' = decision
<1>1. /\ UNCHANGED <<decision, notification, event, onboarding, mailing, editor, handler>>
      /\ commandReceipts' = commandReceipts \cup {command[r]}
      /\ command' = [command EXCEPT ![r] = NoCommand]
      /\ sessions' = IF decision.outcome = "accepted" /\ sessions = 0 THEN 1 ELSE sessions
  BY DEF PersistDecision, AcceptanceHandoff
<1>2. sessions' = sessions
  BY <1>1 DEF DecisionInductive, AcceptanceActsOnce
<1>3. command' \in [Commands -> {NoCommand} \cup CommandJob]
  BY <1>1 DEF DecisionInductive, ActorsTyped
<1>4. /\ commandReceipts' \subseteq
           [kind : {"decide", "change", "release"}, key : CommandKeys, outcome : Outcomes]
      /\ commandReceipts \subseteq commandReceipts'
  BY <1>1 DEF DecisionInductive, DecisionTypeOK, CommandJob
<1>5. DecisionTypeOK' /\ ActorsTyped'
  BY <1>1, <1>2, <1>3, <1>4 DEF DecisionInductive, DecisionTypeOK, ActorsTyped, mailing
<1>6. EventsFollow'
  BY <1>1, <1>4 DEF DecisionInductive, EventsFollow, HasReceipt
<1> QED BY <1>1, <1>2, <1>5, <1>6 DEF DecisionInductive, DecidedFirst, ReviewedIsCurrent,
     HandledIsReleased, Changed, AcceptanceActsOnce, OneReleasePerOutcome, LateHandoffNeedsChange,
     ReleasedCopyIsReviewed, mailing

\* Only a decision that is not released is, under a key without an event, and
\* what goes out is the reviewed text.
LEMMA ReleaseKeepsInductive ==
  ASSUME DecisionInductive, NEW r \in Commands, ReleaseDecision(r)
  PROVE  /\ DecisionInductive'
         /\ decision'.outcome = decision.outcome /\ decision'.released
<1> DEFINE key == command[r].key
           released == [is |-> "released", outcome |-> decision.outcome, copy |-> notification.copy]
<1>1. command[r] \in CommandJob /\ key \in CommandKeys
  BY HeldTyped DEF ReleaseDecision, CanRelease, Commanded, CommandJob
<1>2. /\ ~HasReceipt("release", key) /\ ~decision.released /\ decision.outcome \in Outcomes
      /\ notification.status = "reviewed"
  BY RowsTyped DEF ReleaseDecision, CanRelease
<1>3. /\ decision' = [decision EXCEPT !.released = TRUE]
      /\ notification' = [notification EXCEPT !.status = "queued"]
      /\ event' = [event EXCEPT ![key] = released]
      /\ onboarding' = IF decision.outcome = "accepted" THEN onboarding + 1 ELSE onboarding
      /\ commandReceipts' = commandReceipts \cup {[kind |-> "release", key |-> key, outcome |-> decision.outcome]}
      /\ command' = [command EXCEPT ![r] = NoCommand]
      /\ UNCHANGED <<sessions, mailing, editor, handler>>
  BY DEF ReleaseDecision, Receipt
<1>4. /\ decision'.outcome = decision.outcome /\ decision'.released
      /\ notification'.status = "queued" /\ notification'.revision = notification.revision
  BY <1>3 DEF DecisionInductive, DecisionTypeOK
<1>5. event[key] = Absent
  BY <1>1, <1>2 DEF DecisionInductive, EventsFollow
<1>6. /\ event'[key] = released /\ released # Absent
      /\ \A k \in CommandKeys : k # key => event'[k] = event[k]
  BY <1>1, <1>3 DEF DecisionInductive, DecisionTypeOK, Absent
<1>7. released.outcome = decision.outcome /\ released.copy = notification.copy
  OBVIOUS
<1>8. released \in [is : {"released"}, outcome : Outcomes, copy : Copy]
  BY <1>2, RowsTyped
<1>9. \A k \in CommandKeys : event[k] # Absent =>
        event[k].outcome = "rejected" /\ decision.outcome = "accepted"
  BY <1>2 DEF DecisionInductive, EventsFollow
<1>10. onboarding = 0 /\ sessions = IF decision.outcome = "accepted" THEN 1 ELSE 0
  BY <1>2 DEF DecisionInductive, AcceptanceActsOnce, DecisionTypeOK
<1>11. command' \in [Commands -> {NoCommand} \cup CommandJob]
  BY <1>3 DEF DecisionInductive, ActorsTyped
<1>12. DecisionTypeOK'
  <2>1. /\ decision' \in [outcome : Outcomes \cup {"none"}, released : BOOLEAN, notified : BOOLEAN]
        /\ notification' \in [status : {"none", "draft", "reviewed", "queued", "handed_off"},
                              revision : Nat, copy : Copy]
    BY <1>3 DEF DecisionInductive, DecisionTypeOK
  <2>2. event' \in [CommandKeys -> {Absent} \cup [is : {"released"}, outcome : Outcomes, copy : Copy]]
    BY <1>3, <1>8 DEF DecisionInductive, DecisionTypeOK
  <2>3. /\ sessions' \in Nat /\ onboarding' \in Nat
        /\ commandReceipts' \subseteq
             [kind : {"decide", "change", "release"}, key : CommandKeys, outcome : Outcomes]
    BY <1>1, <1>2, <1>3, <1>10 DEF DecisionInductive, DecisionTypeOK
  <2> QED BY <1>3, <2>1, <2>2, <2>3 DEF DecisionInductive, DecisionTypeOK, mailing
<1>13. ActorsTyped'
  BY <1>3, <1>11 DEF DecisionInductive, ActorsTyped
<1>14. DecidedFirst'
  BY <1>2, <1>4 DEF DecidedFirst, Outcomes
<1>15. EventsFollow'
  <2>1. ASSUME NEW k \in CommandKeys, k = key PROVE HasReceipt("release", k)'
    <3> DEFINE receipt == [kind |-> "release", key |-> key, outcome |-> decision.outcome]
    <3>1. receipt \in commandReceipts'
      BY <1>3
    <3>2. receipt.kind = "release" /\ receipt.key = k
      BY <2>1
    <3> HIDE DEF receipt
    <3> QED BY <3>1, <3>2 DEF HasReceipt
  <2>2. \A k \in CommandKeys : HasReceipt("release", k) => HasReceipt("release", k)'
    BY <1>3 DEF HasReceipt
  <2>3. \A k \in CommandKeys : event[k] # Absent => HasReceipt("release", k)
    BY DEF DecisionInductive, EventsFollow
  <2> QED BY <1>4, <1>6, <1>7, <1>9, <2>1, <2>2, <2>3 DEF EventsFollow
<1>16. ReviewedIsCurrent'
  BY <1>3, <1>4 DEF DecisionInductive, ReviewedIsCurrent
<1>17. Changed => Changed'
  BY <1>4, <1>5, <1>6 DEF Changed
<1>18. HandledIsReleased'
  <2>1. ASSUME NEW h \in Handlers, handler[h] # NoCommand
        PROVE  /\ event'[handler[h].key] # Absent
               /\ Changed' \/ handler[h].label = event'[handler[h].key].outcome
    <3>1. handler[h].key \in CommandKeys /\ event[handler[h].key] # Absent
      BY <2>1, HeldTyped DEF DecisionInductive, HandledIsReleased
    <3>2. event'[handler[h].key] = event[handler[h].key]
      BY <1>5, <1>6, <3>1
    <3> QED BY <1>17, <2>1, <3>1, <3>2 DEF DecisionInductive, HandledIsReleased
  <2>2. \A k \in CommandKeys : communication[k] # Absent => event'[k] # Absent
    BY <1>6 DEF DecisionInductive, HandledIsReleased
  <2> QED BY <1>3, <2>1, <2>2 DEF HandledIsReleased, mailing
<1>19. LateHandoffNeedsChange'
  <2>1. \A k \in CommandKeys : communication[k] # Absent => k # key /\ event'[k] = event[k]
    BY <1>5, <1>6 DEF DecisionInductive, HandledIsReleased
  <2> QED BY <1>3, <1>4, <1>17, <2>1 DEF DecisionInductive, LateHandoffNeedsChange, mailing
<1>20. AcceptanceActsOnce'
  BY <1>3, <1>4, <1>10 DEF AcceptanceActsOnce
<1>21. OneReleasePerOutcome'
  BY <1>6, <1>7, <1>9 DEF DecisionInductive, OneReleasePerOutcome
<1>22. ReleasedCopyIsReviewed'
  BY <1>2, <1>6, <1>7 DEF DecisionInductive, ReleasedCopyIsReviewed, ReviewedIsCurrent
<1> QED BY <1>4, <1>12, <1>13, <1>14, <1>15, <1>16, <1>18, <1>19, <1>20, <1>21, <1>22
     DEF DecisionInductive

-----------------------------------------------------------------------------
(* The theorems.                                                           *)

\* A command that decides keeps the invariant; it takes back a release only by
\* accepting what was rejected, and never an acceptance.
LEMMA PersistKeepsInductive ==
  ASSUME DecisionInductive, NEW r \in Commands, PersistDecision(r)
  PROVE  /\ DecisionInductive'
         /\ decision.released /\ ~decision'.released =>
              decision.outcome = "rejected" /\ decision'.outcome = "accepted"
         /\ decision.outcome = "accepted" => decision'.outcome = "accepted"
<1>1. command[r] \in CommandJob
  BY HeldTyped DEF PersistDecision, CanDecide, CanChange, Commanded
<1>2. CASE decision.outcome = command[r].outcome
  BY <1>1, <1>2, RepeatKeepsInductive
<1>3. CASE decision.outcome # command[r].outcome
  <2>1. decision.released => decision.outcome # "none"
    BY DEF DecisionInductive, DecidedFirst
  <2> QED BY <1>1, <1>3, <2>1, SetOutcomeKeepsInductive
<1> QED BY <1>2, <1>3

\* Every step keeps the invariant, and what a step may do to a release.
LEMMA StepKeepsInductive ==
  ASSUME DecisionInductive, [DecisionNext]_decisionVars
  PROVE  /\ DecisionInductive'
         /\ decision.released /\ ~decision'.released =>
              decision.outcome = "rejected" /\ decision'.outcome = "accepted"
         /\ decision.outcome = "accepted" => decision'.outcome = "accepted"
<1> DEFINE Kept == /\ decision'.outcome = decision.outcome
                   /\ decision.released => decision'.released
<1>1. ASSUME NEW r \in Commands,
             \/ \E kind \in {"decide", "change", "release"}, k \in CommandKeys, o \in Outcomes :
                  Begin(r, kind, k, o)
             \/ RefuseCommand(r)
      PROVE  DecisionInductive' /\ Kept
  BY <1>1, CommandSteps DEF Begin, RefuseCommand, rows
<1>2. ASSUME NEW r \in Commands, ReleaseDecision(r) PROVE DecisionInductive' /\ Kept
  BY <1>2, ReleaseKeepsInductive
<1>3. ASSUME NEW e \in Editors, Open(e) \/ EditChecks(e) PROVE DecisionInductive' /\ Kept
  BY <1>3, EditorSteps DEF Open, EditChecks, rows
<1>4. ASSUME NEW e \in Editors, EditSaves(e) PROVE DecisionInductive' /\ Kept
  BY <1>4, EditSavesKeepsInductive DEF EditSaves
<1>5. ASSUME NEW h \in Handlers, (\E k \in CommandKeys : Handle(h, k)) \/ SettleEvent(h) \/ HandlerCutOff(h)
      PROVE  DecisionInductive' /\ Kept
  BY <1>5, HandlerSteps DEF Handle, SettleEvent, HandlerCutOff, rows
<1>6. ASSUME NEW h \in Handlers, QueueCommunication(h) PROVE DecisionInductive' /\ Kept
  BY <1>6, QueueKeepsInductive DEF QueueCommunication, rows
<1>7. ASSUME NEW h \in Handlers, HandOff(h) PROVE DecisionInductive' /\ Kept
  BY <1>7, HandOffKeepsInductive DEF HandOff, DecisionInductive, DecisionTypeOK
<1>8. CASE UNCHANGED decisionVars
  <2>1. UNCHANGED <<rows, mailing, editor, handler, command>>
    BY <1>8 DEF decisionVars
  <2>2. command' \in [Commands -> {NoCommand} \cup CommandJob]
    BY <2>1 DEF DecisionInductive, ActorsTyped
  <2> QED BY <2>1, <2>2, CommandKeepsInductive DEF rows
<1> QED BY <1>1, <1>2, <1>3, <1>4, <1>5, <1>6, <1>7, <1>8, PersistKeepsInductive
     DEF DecisionNext, HandlerStep

\* The invariant of every behaviour of the commands, editors and handlers of
\* one decision.
THEOREM DecisionInvariance == DecisionSpec => []DecisionInductive
<1>1. DecisionInit => DecisionInductive
  <2> SUFFICES ASSUME DecisionInit PROVE DecisionInductive
    OBVIOUS
  <2>1. /\ decision.outcome = "none" /\ ~decision.released
        /\ notification.status = "none" /\ notification.revision = 0
    BY DEF DecisionInit
  <2>2. /\ \A k \in CommandKeys : event[k] = Absent /\ communication[k] = Absent
        /\ \A r \in Commands : command[r] = NoCommand
        /\ \A e \in Editors : editor[e] = NoCommand
        /\ \A h \in Handlers : handler[h] = NoCommand
    BY DEF DecisionInit
  <2>3. DecisionTypeOK /\ ActorsTyped
    BY DecisionAssumption DEF DecisionInit, DecisionTypeOK, ActorsTyped, Copy,
       DefaultDecisionNotification, Outcomes
  <2>4. AcceptanceActsOnce
    BY DEF DecisionInit, AcceptanceActsOnce
  <2> QED BY <2>1, <2>2, <2>3, <2>4 DEF DecisionInductive, DecidedFirst, EventsFollow,
       ReviewedIsCurrent, HandledIsReleased, OneReleasePerOutcome, LateHandoffNeedsChange,
       ReleasedCopyIsReviewed
<1> QED BY <1>1, StepKeepsInductive, PTL DEF DecisionSpec

\* However commands, edits and handlers race, are repeated or are cut off, an
\* acceptance acts once, each outcome is released once, and a late handler
\* touches only a decision that changed.
THEOREM DecisionIsSafe == DecisionSpec => []DecisionSafe
<1>1. DecisionInductive => DecisionSafe
  BY DEF DecisionInductive, DecisionSafe
<1> QED BY <1>1, DecisionInvariance, PTL

\* What a release sends was reviewed by an organizer who saw its outcome.
THEOREM OnlyReviewedCopyIsReleased == DecisionSpec => []ReleasedCopyIsReviewed
<1>1. DecisionInductive => ReleasedCopyIsReviewed
  BY DEF DecisionInductive
<1> QED BY <1>1, DecisionInvariance, PTL

\* A release is taken back only by an acceptance, and an acceptance never.
THEOREM NoWayBack == DecisionSpec => OnlyAcceptanceReopens
<1>1. ASSUME DecisionInductive, [DecisionNext]_decisionVars
      PROVE  [/\ decision.released /\ ~decision'.released =>
                   decision.outcome = "rejected" /\ decision'.outcome = "accepted"
              /\ decision.outcome = "accepted" => decision'.outcome = "accepted"]_decisionVars
  BY <1>1, StepKeepsInductive
<1> QED BY <1>1, DecisionInvariance, PTL DEF DecisionSpec, OnlyAcceptanceReopens

-----------------------------------------------------------------------------
(***************************************************************************)
(* Sessions: the versions of a session and the change requests for it.     *)
(***************************************************************************)

(* What a commit does.                                                     *)

\* The four commits that change the session, as one action: the version the
\* request prepared becomes the next one.
Appends(d) ==
  /\ Busy(d) /\ desk[d].seen = session
  /\ session.revision + 1 \in Numbers
  /\ session' = [content |-> desk[d].next.content, status |-> desk[d].next.status,
                 revision |-> session.revision + 1]
  /\ history' = [history EXCEPT ![session.revision + 1] = desk[d].next]
  /\ Done(d)

\* A free number is the next one, and the request saw the present session.
LEMMA FreeNumberIsNext ==
  ASSUME SessionInductive, NEW d \in Desks, Busy(d), desk[d].op # "reject", ~NumberTaken(d)
  PROVE  /\ desk[d].seen = session
         /\ session.revision + 1 \in Numbers
<1>1. /\ desk[d].seen \in Row /\ session \in Row
      /\ desk[d].seen.revision <= session.revision
      /\ desk[d].seen.revision < MaxRevision
  BY DEF SessionInductive, SessionTypeOK, SeenIsRecorded, Busy, Job, Row, Numbers
<1>2. desk[d].seen.revision + 1 \in Numbers
  BY <1>1, SessionsAssumption DEF Row, Numbers
<1>3. ~ (desk[d].seen.revision + 1 <= session.revision)
  BY <1>2 DEF SessionInductive, HistoryMatches, NumberTaken
<1>4. desk[d].seen.revision = session.revision
  BY <1>1, <1>3, SessionsAssumption DEF Row, Numbers
<1>5. [content |-> session.content, status |-> session.status] = Seen(d)
  BY <1>4 DEF SessionInductive, HistoryMatches, SeenIsRecorded
<1>6. session.content = desk[d].seen.content /\ session.status = desk[d].seen.status
  BY <1>5 DEF Seen
<1>7. desk[d].seen = session
  BY <1>1, <1>4, <1>6 DEF Row
<1> QED BY <1>2, <1>4, <1>7

\* Recording adds the new version and leaves the others.
LEMMA RecordedAppends ==
  ASSUME SessionInductive, NEW d \in Desks, desk[d].seen = session,
         session.revision + 1 \in Numbers
  PROVE  Recorded(d) = [history EXCEPT ![session.revision + 1] = desk[d].next]
<1>1. history[session.revision] # NoVersion
  BY SessionsAssumption DEF SessionInductive, HistoryMatches, SessionTypeOK, NoVersion, ContentStatus
<1>2. history \in [Numbers -> Version \cup {NoVersion}]
  BY DEF SessionInductive, SessionTypeOK
<1> QED BY <1>1, <1>2 DEF Recorded

\* All four commits append the version that was prepared, under the next number.
LEMMA CommitsAppend ==
  ASSUME SessionInductive, NEW d \in Desks,
         EditCommit(d) \/ ApprovalCommit(d) \/ RestoreCommit(d) \/ ResolveCommit(d)
  PROVE  Appends(d)
<1>1. Busy(d) /\ desk[d].op # "reject" /\ ~NumberTaken(d)
  BY DEF EditCommit, ApprovalCommit, RestoreCommit, ResolveCommit, Busy, NoDesk
<1>2. desk[d].seen = session /\ session.revision + 1 \in Numbers
  BY <1>1, FreeNumberIsNext
<1>3. Recorded(d) = [history EXCEPT ![session.revision + 1] = desk[d].next]
  BY <1>2, RecordedAppends
<1>4. CASE EditCommit(d)
  BY <1>1, <1>2, <1>3, <1>4 DEF EditCommit, Appends
<1>5. CASE ApprovalCommit(d)
  <2>1. desk[d].next.content = session.content
    BY <1>2, <1>5 DEF ApprovalCommit, SessionInductive, NextFollows
  <2>2. session \in Row
    BY DEF SessionInductive, SessionTypeOK, Row
  <2>3. session' = [content |-> desk[d].next.content, status |-> desk[d].next.status,
                    revision |-> session.revision + 1]
    BY <1>2, <1>5, <2>1, <2>2 DEF ApprovalCommit, Row
  <2> QED BY <1>1, <1>2, <1>3, <1>5, <2>3 DEF ApprovalCommit, Appends
<1>6. CASE RestoreCommit(d)
  BY <1>1, <1>2, <1>3, <1>6 DEF RestoreCommit, Appends
<1>7. CASE ResolveCommit(d)
  BY <1>1, <1>2, <1>3, <1>7 DEF ResolveCommit, Appends
<1> QED BY <1>4, <1>5, <1>6, <1>7

-----------------------------------------------------------------------------
(* The inductive invariant.                                                *)

\* Types of the rows and of what the requests hold.
Typed == SessionTypeOK /\ desk \in [Desks -> Job \cup {NoDesk}]

\* Appending a version keeps the history in step with the session and what
\* the other requests read.
LEMMA AppendKeepsHistory ==
  ASSUME SessionInductive, NEW d \in Desks, Appends(d),
         change' \in [Proposals -> {"absent", "pending", "approved", "rejected"}]
  PROVE  (Typed /\ HistoryMatches /\ SeenIsRecorded /\ NextFollows)'
<1> DEFINE next == desk[d].next
           rev == session.revision + 1
<1>1. next \in Version /\ rev \in Numbers
  BY DEF SessionInductive, Appends, Busy, Job
<1>2. session \in Row /\ history \in [Numbers -> Version \cup {NoVersion}]
  BY DEF SessionInductive, SessionTypeOK, Row
<1>3. /\ session'.content = next.content /\ session'.status = next.status
      /\ session'.revision = rev
  BY DEF Appends
<1>4. /\ history'[rev] = next
      /\ \A n \in Numbers : n # rev => history'[n] = history[n]
      /\ history' \in [Numbers -> Version \cup {NoVersion}]
  BY <1>1, <1>2 DEF Appends
<1>5. session' \in Row
  BY <1>1, <1>3 DEF Appends, Row, Version
<1>6. /\ desk'[d] = NoDesk
      /\ \A e \in Desks : e # d => desk'[e] = desk[e]
      /\ desk' \in [Desks -> Job \cup {NoDesk}]
  BY DEF Appends, Done, SessionInductive
<1>7. Typed'
  BY <1>4, <1>5, <1>6 DEF Typed, SessionTypeOK, Row
<1>8. HistoryMatches'
  <2>1. next # NoVersion /\ next = [content |-> next.content, status |-> next.status]
    BY <1>1 DEF Version, NoVersion, ContentStatus
  <2>2. \A n \in Numbers : history[n] # NoVersion <=> n <= session.revision
    BY DEF SessionInductive, HistoryMatches
  <2>3. \A n \in Numbers : history'[n] # NoVersion <=> n <= rev
    BY <1>2, <1>4, <2>1, <2>2, SessionsAssumption DEF Row, Numbers
  <2> QED BY <1>3, <1>4, <2>1, <2>3 DEF HistoryMatches
<1>9. ASSUME NEW n \in Numbers, history[n] # NoVersion PROVE history'[n] = history[n]
  BY <1>2, <1>4, <1>9, SessionsAssumption DEF SessionInductive, HistoryMatches, Row, Numbers
<1>10. SeenIsRecorded'
  <2> SUFFICES ASSUME NEW e \in Desks, Busy(e)'
               PROVE  /\ desk'[e].seen.revision <= session'.revision
                      /\ history'[desk'[e].seen.revision] = Seen(e)'
                      /\ desk'[e].op # "reject" => desk'[e].seen.revision < MaxRevision
    BY DEF SeenIsRecorded
  <2>1. e # d /\ desk'[e] = desk[e] /\ Busy(e)
    BY <1>6 DEF Busy
  <2>2. desk[e] \in Job
    BY <2>1 DEF SessionInductive, Busy
  <2>3. desk[e].seen \in Row
    BY <2>2 DEF Job
  <2>4. /\ desk[e].seen.revision <= session.revision
        /\ history[desk[e].seen.revision] = Seen(e)
        /\ desk[e].op # "reject" => desk[e].seen.revision < MaxRevision
    BY <2>1 DEF SessionInductive, SeenIsRecorded
  <2>5. desk[e].seen.revision # rev
    BY <1>2, <2>3, <2>4, SessionsAssumption DEF Row, Numbers
  <2>6. history'[desk[e].seen.revision] = history[desk[e].seen.revision]
    BY <1>4, <2>3, <2>5 DEF Row
  <2>7. desk[e].seen.revision <= rev
    BY <1>2, <2>3, <2>4, SessionsAssumption DEF Row, Numbers
  <2> QED BY <1>3, <2>1, <2>4, <2>6, <2>7 DEF Seen
<1>11. NextFollows'
  <2> SUFFICES ASSUME NEW e \in Desks, e # d PROVE
        /\ desk[e].op = "edit" =>
             desk[e].next.content \in Texts /\ desk[e].next.status = Demoted(desk[e].seen.status)
        /\ desk[e].op = "approve" => desk[e].next.content = desk[e].seen.content
        /\ desk[e].op = "restore" =>
             \E n \in Numbers : history'[n] # NoVersion /\ desk[e].next = history'[n]
        /\ Resolving(e) =>
             desk[e].next = [content |-> desk[e].request, status |-> Demoted(desk[e].seen.status)]
    BY <1>6 DEF NextFollows, NoDesk, Resolving, Demoted
  <2>1. desk[e].op = "restore" =>
             \E n \in Numbers : history'[n] # NoVersion /\ desk[e].next = history'[n]
    BY <1>9 DEF SessionInductive, NextFollows
  <2> QED BY <2>1 DEF SessionInductive, NextFollows
<1> QED BY <1>7, <1>8, <1>10, <1>11

\* What a commit appends is text of an organizer or was in the history, and
\* only an approved change request brings its own content.
LEMMA AppendKeepsApplied ==
  ASSUME SessionInductive, NEW d \in Desks, Appends(d),
         \/ /\ change' = change
            /\ desk[d].next.content \notin Proposals \/ \E n \in Numbers : history[n].content = desk[d].next.content
         \/ /\ Resolving(d) /\ desk[d].next.content = desk[d].request
            /\ change' = [change EXCEPT ![desk[d].request] = "approved"]
  PROVE  ApprovedIsApplied'
<1> DEFINE next == desk[d].next
           rev == session.revision + 1
<1>1. SUFFICES ASSUME NEW c \in Proposals
      PROVE  change'[c] = "approved" <=> \E n \in Numbers : history'[n].content = c
  BY DEF ApprovedIsApplied
<1>2. /\ rev \in Numbers /\ history'[rev] = next
      /\ \A n \in Numbers : n # rev => history'[n] = history[n]
  BY DEF Appends, SessionInductive, SessionTypeOK
<1>3. history[rev] = NoVersion /\ NoVersion.content # c
  BY <1>2, SessionsAssumption DEF SessionInductive, HistoryMatches, SessionTypeOK, Numbers, NoVersion
<1>4. (\E n \in Numbers : history'[n].content = c)
        <=> next.content = c \/ \E n \in Numbers : history[n].content = c
  BY <1>2, <1>3
<1>5. change[c] = "approved" <=> \E n \in Numbers : history[n].content = c
  BY DEF SessionInductive, ApprovedIsApplied
<1>6. change \in [Proposals -> {"absent", "pending", "approved", "rejected"}]
  BY DEF SessionInductive, SessionTypeOK
<1> QED BY <1>4, <1>5, <1>6

\* The request that ends takes no lock with it, and no other request holds
\* the change request it resolved.
LEMMA EndKeepsLocks ==
  ASSUME SessionInductive, NEW d \in Desks, Busy(d), Done(d),
         \/ change' = change
         \/ /\ Resolving(d)
            /\ \E s \in {"approved", "rejected"} :
                 change' = [change EXCEPT ![desk[d].request] = s]
  PROVE  OneResolver'
<1>1. /\ desk'[d] = NoDesk
      /\ \A e \in Desks : e # d => desk'[e] = desk[e]
  BY DEF Done, SessionInductive
<1>2. ~Resolving(d)'
  BY <1>1 DEF Resolving, NoDesk
<1>3. SUFFICES ASSUME NEW e \in Desks, Resolving(e)'
      PROVE  /\ change'[desk'[e].request] = "pending"
             /\ \A f \in Desks : Resolving(f)' /\ desk'[f].request = desk'[e].request => f = e
  BY DEF OneResolver
<1>4. e # d /\ desk'[e] = desk[e] /\ Resolving(e)
  BY <1>1, <1>2, <1>3 DEF Resolving
<1>5. /\ change[desk[e].request] = "pending"
      /\ \A f \in Desks : Resolving(f) /\ desk[f].request = desk[e].request => f = e
  BY <1>4 DEF SessionInductive, OneResolver
<1>6. ASSUME NEW f \in Desks, Resolving(f)', desk'[f].request = desk'[e].request
      PROVE  f = e
  <2>1. f # d /\ desk'[f] = desk[f] /\ Resolving(f)
    BY <1>1, <1>2, <1>6 DEF Resolving
  <2> QED BY <1>4, <1>5, <1>6, <2>1
<1>7. Resolving(d) => desk[d].request # desk[e].request
  BY <1>4, <1>5
<1>8. change'[desk[e].request] = "pending"
  <2>1. change \in [Proposals -> {"absent", "pending", "approved", "rejected"}]
    BY DEF SessionInductive, SessionTypeOK
  <2>2. desk[e] \in Job \cup {NoDesk}
    BY DEF SessionInductive
  <2>3. desk[e].op \in {"resolve", "reject"}
    BY <1>4 DEF Resolving
  <2>4. desk[e].request \in Proposals
    BY <2>2, <2>3 DEF Job, NoDesk
  <2> QED BY <1>5, <1>7, <2>1, <2>4
<1> QED BY <1>4, <1>6, <1>8

\* A transaction that ends without touching the session keeps the invariant.
LEMMA EndKeepsInductive ==
  ASSUME SessionInductive, NEW d \in Desks, Busy(d), Done(d), UNCHANGED <<session, history>>,
         \/ change' = change
         \/ Resolving(d) /\ change' = [change EXCEPT ![desk[d].request] = "rejected"]
  PROVE  SessionInductive'
<1>1. /\ desk'[d] = NoDesk
      /\ \A e \in Desks : e # d => desk'[e] = desk[e]
      /\ desk' \in [Desks -> Job \cup {NoDesk}]
  BY DEF Done, SessionInductive
<1>2. change' \in [Proposals -> {"absent", "pending", "approved", "rejected"}]
  BY DEF SessionInductive, SessionTypeOK
<1>3. SessionTypeOK' /\ HistoryMatches'
  BY <1>2 DEF SessionInductive, SessionTypeOK, HistoryMatches
<1>4. ApprovedIsApplied'
  <2>1. Resolving(d) => change[desk[d].request] = "pending"
    BY DEF SessionInductive, OneResolver
  <2>2. change \in [Proposals -> {"absent", "pending", "approved", "rejected"}]
    BY DEF SessionInductive, SessionTypeOK
  <2>3. \A c \in Proposals : change'[c] = "approved" <=> change[c] = "approved"
    BY <2>1, <2>2
  <2> QED BY <2>3 DEF SessionInductive, ApprovedIsApplied
<1>5. SeenIsRecorded'
  BY <1>1 DEF SessionInductive, SeenIsRecorded, Busy, Seen
<1>6. NextFollows'
  <2>1. \A e \in Desks : desk'[e].op # "idle" => e # d /\ desk'[e] = desk[e]
    BY <1>1 DEF NoDesk
  <2> QED BY <2>1 DEF SessionInductive, NextFollows, Resolving
<1>7. OneResolver'
  BY EndKeepsLocks
<1> QED BY <1>1, <1>3, <1>4, <1>5, <1>6, <1>7 DEF SessionInductive

\* What a request that reads the session may hold afterwards.
Prepared(j) ==
  /\ j \in Job /\ j.seen = session
  /\ j.op # "reject" => session.revision < MaxRevision
  /\ j.op = "edit" => j.next.content \in Texts /\ j.next.status = Demoted(session.status)
  /\ j.op = "approve" => j.next.content = session.content
  /\ j.op = "restore" => \E n \in Numbers : history[n] # NoVersion /\ j.next = history[n]
  /\ j.op \in {"resolve", "reject"} =>
       /\ change[j.request] = "pending" /\ ~RequestLocked(j.request)
       /\ j.next = [content |-> j.request, status |-> Demoted(session.status)]

\* A step that only reads keeps the invariant.
LEMMA ReadKeepsInductive ==
  ASSUME SessionInductive, NEW d \in Desks, ~Busy(d), NEW j, Prepared(j),
         desk' = [desk EXCEPT ![d] = j], UNCHANGED <<session, history, change>>
  PROVE  SessionInductive'
<1>1. /\ desk'[d] = j
      /\ \A e \in Desks : e # d => desk'[e] = desk[e]
      /\ desk' \in [Desks -> Job \cup {NoDesk}]
  BY DEF Prepared, SessionInductive
<1>2. SessionTypeOK' /\ HistoryMatches' /\ ApprovedIsApplied'
  BY DEF SessionInductive, SessionTypeOK, HistoryMatches, ApprovedIsApplied
<1>3. SeenIsRecorded'
  <2> SUFFICES ASSUME NEW e \in Desks, Busy(e)'
               PROVE  /\ desk'[e].seen.revision <= session.revision
                      /\ history[desk'[e].seen.revision] = Seen(e)'
                      /\ desk'[e].op # "reject" => desk'[e].seen.revision < MaxRevision
    BY DEF SeenIsRecorded
  <2>1. CASE e = d
    <3>1. session.revision <= session.revision
      BY SessionsAssumption DEF SessionInductive, SessionTypeOK, Numbers
    <3> QED BY <1>1, <2>1, <3>1 DEF Prepared, Seen, SessionInductive, HistoryMatches
  <2>2. CASE e # d
    BY <1>1, <2>2 DEF SessionInductive, SeenIsRecorded, Busy, Seen
  <2> QED BY <2>1, <2>2
<1>4. NextFollows'
  <2> SUFFICES ASSUME NEW e \in Desks PROVE
        /\ desk'[e].op = "edit" =>
             desk'[e].next.content \in Texts /\ desk'[e].next.status = Demoted(desk'[e].seen.status)
        /\ desk'[e].op = "approve" => desk'[e].next.content = desk'[e].seen.content
        /\ desk'[e].op = "restore" =>
             \E n \in Numbers : history'[n] # NoVersion /\ desk'[e].next = history'[n]
        /\ Resolving(e)' =>
             desk'[e].next = [content |-> desk'[e].request, status |-> Demoted(desk'[e].seen.status)]
    BY DEF NextFollows, Demoted
  <2>1. CASE e = d
    BY <1>1, <2>1 DEF Prepared, Resolving
  <2>2. CASE e # d
    BY <1>1, <2>2 DEF SessionInductive, NextFollows, Resolving
  <2> QED BY <2>1, <2>2
<1>5. OneResolver'
  <2> SUFFICES ASSUME NEW e \in Desks, Resolving(e)'
      PROVE  /\ change[desk'[e].request] = "pending"
             /\ \A f \in Desks : Resolving(f)' /\ desk'[f].request = desk'[e].request => f = e
    BY DEF OneResolver
  <2>1. change[desk'[e].request] = "pending"
    BY <1>1 DEF Prepared, SessionInductive, OneResolver, Resolving
  <2>2. ASSUME NEW f \in Desks, f # e, Resolving(f)', desk'[f].request = desk'[e].request
        PROVE  FALSE
    BY <1>1, <2>2 DEF Prepared, SessionInductive, OneResolver, Resolving, RequestLocked
  <2> QED BY <2>1, <2>2
<1> QED BY <1>1, <1>2, <1>3, <1>4, <1>5 DEF SessionInductive

\* Each of the five reads leaves its request with a prepared job.
LEMMA ReadsPrepare ==
  ASSUME SessionInductive, NEW d \in Desks,
         \/ EditRead(d) \/ ApprovalRead(d) \/ RestoreRead(d)
         \/ \E c \in Proposals : ResolveRead(d, c)
  PROVE  /\ ~Busy(d) /\ UNCHANGED <<session, history, change>>
         /\ \E j : Prepared(j) /\ desk' = [desk EXCEPT ![d] = j]
<1>1. /\ session \in Row /\ session.revision \in Numbers
      /\ history \in [Numbers -> Version \cup {NoVersion}]
      /\ Demoted(session.status) \in ContentStatus
  BY DEF SessionInductive, SessionTypeOK, Row, Demoted, ContentStatus
<1>2. ASSUME NEW op \in {"edit", "approve", "restore"}, NEW next \in Version, Holds(d, op, next),
             op = "edit" => next.content \in Texts /\ next.status = Demoted(session.status),
             op = "approve" => next.content = session.content,
             op = "restore" => \E n \in Numbers : history[n] # NoVersion /\ next = history[n]
      PROVE  /\ ~Busy(d) /\ UNCHANGED <<session, history, change>>
             /\ \E j : Prepared(j) /\ desk' = [desk EXCEPT ![d] = j]
  <2> DEFINE j == [op |-> op, seen |-> session, next |-> next]
  <2>1. j \in Job
    BY <1>1 DEF Job
  <2>2. Prepared(j)
    BY <1>2, <2>1 DEF Prepared, Holds
  <2> QED BY <1>2, <2>2 DEF Holds
<1>3. CASE EditRead(d)
  <2>1. PICK text \in Texts :
          Holds(d, "edit", [content |-> text, status |-> Demoted(session.status)])
    BY <1>3 DEF EditRead
  <2>2. [content |-> text, status |-> Demoted(session.status)] \in Version
    BY <1>1 DEF Version, Contents
  <2> QED BY <1>2, <2>1, <2>2
<1>4. CASE ApprovalRead(d)
  <2>1. PICK status \in ContentStatus :
          Holds(d, "approve", [content |-> session.content, status |-> status])
    BY <1>4 DEF ApprovalRead
  <2>2. [content |-> session.content, status |-> status] \in Version
    BY <1>1 DEF Version, Row
  <2> QED BY <1>2, <2>1, <2>2
<1>5. CASE RestoreRead(d)
  <2>1. PICK n \in Numbers : history[n] # NoVersion /\ Holds(d, "restore", history[n])
    BY <1>5 DEF RestoreRead
  <2>2. history[n] \in Version
    BY <1>1, <2>1
  <2> QED BY <1>2, <2>1, <2>2
<1>6. ASSUME NEW c \in Proposals, ResolveRead(d, c)
      PROVE  /\ ~Busy(d) /\ UNCHANGED <<session, history, change>>
             /\ \E j : Prepared(j) /\ desk' = [desk EXCEPT ![d] = j]
  <2> DEFINE next == [content |-> c, status |-> Demoted(session.status)]
  <2>1. PICK op \in {"resolve", "reject"} :
          /\ op = "resolve" => session.revision < MaxRevision
          /\ desk' = [desk EXCEPT ![d] = [op |-> op, seen |-> session, request |-> c, next |-> next]]
    BY <1>6 DEF ResolveRead
  <2> DEFINE j == [op |-> op, seen |-> session, request |-> c, next |-> next]
  <2>2. next \in Version
    BY <1>1 DEF Version, Contents
  <2>3. j \in Job
    BY <1>1, <2>2 DEF Job
  <2>4. Prepared(j)
    BY <1>6, <2>1, <2>3 DEF Prepared, ResolveRead
  <2> QED BY <1>6, <2>1, <2>4 DEF ResolveRead
<1> QED BY <1>3, <1>4, <1>5, <1>6

\* A change request that is made is pending, and nobody is resolving it yet.
LEMMA RequestKeepsInductive ==
  ASSUME SessionInductive, NEW c \in Proposals, RequestChange(c)
  PROVE  SessionInductive'
<1>1. change \in [Proposals -> {"absent", "pending", "approved", "rejected"}]
  BY DEF SessionInductive, SessionTypeOK
<1>2. change'[c] = "pending" /\ \A x \in Proposals : x # c => change'[x] = change[x]
  BY <1>1 DEF RequestChange
<1>3. SessionTypeOK' /\ HistoryMatches' /\ SeenIsRecorded' /\ NextFollows'
  BY <1>1 DEF RequestChange, SessionInductive, SessionTypeOK, HistoryMatches, SeenIsRecorded,
     NextFollows, Busy, Seen, Resolving
<1>4. ApprovedIsApplied'
  BY <1>2 DEF RequestChange, SessionInductive, ApprovedIsApplied
<1>5. OneResolver'
  <2>1. \A d \in Desks : Resolving(d) => desk[d].request \in Proposals
    BY DEF SessionInductive, Resolving, Job, NoDesk
  <2> QED BY <1>2, <2>1 DEF RequestChange, SessionInductive, OneResolver, Resolving
<1> QED BY <1>3, <1>4, <1>5 DEF RequestChange, SessionInductive

\* The four commits keep the invariant.
LEMMA CommitKeepsInductive ==
  ASSUME SessionInductive, NEW d \in Desks,
         EditCommit(d) \/ ApprovalCommit(d) \/ RestoreCommit(d) \/ ResolveCommit(d)
  PROVE  SessionInductive'
<1>1. Appends(d) /\ Busy(d) /\ Done(d)
  BY CommitsAppend DEF Appends
<1>2. /\ change \in [Proposals -> {"absent", "pending", "approved", "rejected"}]
      /\ session \in Row /\ session.revision \in Numbers
  BY DEF SessionInductive, SessionTypeOK, Row
<1>3. change' \in [Proposals -> {"absent", "pending", "approved", "rejected"}]
  BY <1>2 DEF EditCommit, ApprovalCommit, RestoreCommit, ResolveCommit
<1>4. (Typed /\ HistoryMatches /\ SeenIsRecorded /\ NextFollows)'
  BY <1>1, <1>3, AppendKeepsHistory
<1>5. ApprovedIsApplied' /\ OneResolver'
  <2>1. CASE EditCommit(d)
    <3>1. desk[d].next.content \notin Proposals
      BY <2>1, SessionsAssumption DEF EditCommit, SessionInductive, NextFollows
    <3> QED BY <1>1, <2>1, <3>1, AppendKeepsApplied, EndKeepsLocks DEF EditCommit
  <2>2. CASE ApprovalCommit(d)
    <3>1. desk[d].next.content = session.content
      BY <1>1, <2>2 DEF ApprovalCommit, Appends, SessionInductive, NextFollows
    <3>2. history[session.revision].content = desk[d].next.content
      BY <3>1 DEF SessionInductive, HistoryMatches
    <3> QED BY <1>1, <1>2, <2>2, <3>2, AppendKeepsApplied, EndKeepsLocks DEF ApprovalCommit
  <2>3. CASE RestoreCommit(d)
    <3>1. \E n \in Numbers : history[n].content = desk[d].next.content
      BY <2>3 DEF RestoreCommit, SessionInductive, NextFollows
    <3> QED BY <1>1, <2>3, <3>1, AppendKeepsApplied, EndKeepsLocks DEF RestoreCommit
  <2>4. CASE ResolveCommit(d)
    <3>1. Resolving(d)
      BY <2>4 DEF ResolveCommit, Resolving
    <3>2. desk[d].next = [content |-> desk[d].request, status |-> Demoted(desk[d].seen.status)]
      BY <3>1 DEF SessionInductive, NextFollows
    <3>3. desk[d].next.content = desk[d].request
      BY <3>2
    <3>4. change' = [change EXCEPT ![desk[d].request] = "approved"]
      BY <2>4 DEF ResolveCommit
    <3> QED BY <1>1, <3>1, <3>3, <3>4, AppendKeepsApplied, EndKeepsLocks
  <2> QED BY <2>1, <2>2, <2>3, <2>4
<1> QED BY <1>4, <1>5 DEF SessionInductive, Typed

\* The first state satisfies the invariant.
LEMMA InductiveInit == SessionInit => SessionInductive
<1> SUFFICES ASSUME SessionInit PROVE SessionInductive
  OBVIOUS
<1> USE SessionsAssumption DEF SessionInit
<1>1. SessionTypeOK /\ desk \in [Desks -> Job \cup {NoDesk}]
  BY DEF SessionTypeOK, Contents, ContentStatus, Version, Numbers, NoVersion
<1>2. HistoryMatches
  BY DEF HistoryMatches, Numbers, NoVersion
<1>3. ApprovedIsApplied
  BY DEF ApprovedIsApplied, Numbers, NoVersion
<1>4. SeenIsRecorded /\ NextFollows /\ OneResolver
  BY DEF SeenIsRecorded, NextFollows, OneResolver, Busy, NoDesk, Resolving
<1> QED BY <1>1, <1>2, <1>3, <1>4 DEF SessionInductive

\* Every step keeps it.
LEMMA InductiveStep == SessionInductive /\ [SessionNext]_sessionVars => SessionInductive'
<1> SUFFICES ASSUME SessionInductive, [SessionNext]_sessionVars PROVE SessionInductive'
  OBVIOUS
<1>1. ASSUME NEW c \in Proposals, RequestChange(c) PROVE SessionInductive'
  BY <1>1, RequestKeepsInductive
<1>2. ASSUME NEW d \in Desks,
             \/ EditRead(d) \/ ApprovalRead(d) \/ RestoreRead(d)
             \/ \E c \in Proposals : ResolveRead(d, c)
      PROVE  SessionInductive'
  BY <1>2, ReadsPrepare, ReadKeepsInductive
<1>3. ASSUME NEW d \in Desks,
             EditCommit(d) \/ ApprovalCommit(d) \/ RestoreCommit(d) \/ ResolveCommit(d)
      PROVE  SessionInductive'
  BY <1>3, CommitKeepsInductive
<1>4. ASSUME NEW d \in Desks, RejectCommit(d) PROVE SessionInductive'
  <2>1. Resolving(d) /\ Busy(d)
    BY <1>4 DEF RejectCommit, Resolving, Busy, NoDesk
  <2> QED BY <1>4, <2>1, EndKeepsInductive DEF RejectCommit
<1>5. ASSUME NEW d \in Desks, Rollback(d) PROVE SessionInductive'
  BY <1>5, EndKeepsInductive DEF Rollback
<1>6. CASE UNCHANGED sessionVars
  BY <1>6 DEF sessionVars, SessionInductive, SessionTypeOK, HistoryMatches, ApprovedIsApplied,
     SeenIsRecorded, NextFollows, OneResolver, Busy, Seen, Resolving
<1> QED BY <1>1, <1>2, <1>3, <1>4, <1>5, <1>6 DEF SessionNext

-----------------------------------------------------------------------------
(* The theorems.                                                           *)

\* Whoever reads a session, and however requests overlap, what it holds stays
\* consistent with the session, its history and its change requests.
THEOREM SessionInvariance == SessionSpec => []SessionInductive
BY InductiveInit, InductiveStep, PTL DEF SessionSpec

\* The session always shows the last version of a history without gaps.
THEOREM HistoryKept == SessionSpec => []HistoryMatches
<1>1. SessionInductive => HistoryMatches
  BY DEF SessionInductive
<1> QED BY SessionInvariance, <1>1, PTL

\* A change request is approved exactly when a version carries its content.
THEOREM ChangesApplied == SessionSpec => []ApprovedIsApplied
<1>1. SessionInductive => ApprovedIsApplied
  BY DEF SessionInductive
<1> QED BY SessionInvariance, <1>1, PTL

\* Steps that are not commits leave the session and its history alone.
LEMMA OthersLeaveSession ==
  ASSUME [SessionNext]_sessionVars,
         \A d \in Desks : ~ (EditCommit(d) \/ ApprovalCommit(d) \/ RestoreCommit(d) \/ ResolveCommit(d))
  PROVE  UNCHANGED <<session, history>>
BY DEF SessionNext, sessionVars, RequestChange, EditRead, ApprovalRead, RestoreRead, ResolveRead,
   Holds, RejectCommit, Rollback

\* Nobody writes the session who has not seen what the write replaces: the
\* unique index alone keeps the requests from overwriting each other.
THEOREM NoLostUpdate == SessionSpec => WritersSawLatest
<1> DEFINE Saw == session' # session =>
      \E d \in Desks : Busy(d) /\ desk'[d] = NoDesk /\ desk[d].seen = session
<1>1. ASSUME SessionInductive, [SessionNext]_sessionVars PROVE Saw
  <2>1. ASSUME NEW d \in Desks,
               EditCommit(d) \/ ApprovalCommit(d) \/ RestoreCommit(d) \/ ResolveCommit(d)
        PROVE  Busy(d) /\ desk'[d] = NoDesk /\ desk[d].seen = session
    <3>1. Appends(d)
      BY <1>1, <2>1, CommitsAppend
    <3> QED BY <1>1, <3>1 DEF Appends, Done, SessionInductive
  <2>2. CASE \A d \in Desks :
          ~ (EditCommit(d) \/ ApprovalCommit(d) \/ RestoreCommit(d) \/ ResolveCommit(d))
    BY <1>1, <2>2, OthersLeaveSession
  <2> QED BY <2>1, <2>2
<1>2. SessionInductive /\ [SessionNext]_sessionVars => [Saw]_sessionVars
  BY <1>1
<1> QED BY SessionInvariance, <1>2, PTL DEF SessionSpec, WritersSawLatest

-----------------------------------------------------------------------------
(* The session implements Document.                                        *)

\* The history read as a sequence ends with what the session shows.
LEMMA TrailIsSequence ==
  ASSUME SessionInductive
  PROVE  /\ Len(Trail) = session.revision /\ DOMAIN Trail = 1..session.revision
         /\ Trail \in Seq(Version)
         /\ Shown!Last = [content |-> session.content, status |-> session.status]
<1>1. session.revision \in Numbers /\ session.revision \in Nat
  BY SessionsAssumption DEF SessionInductive, SessionTypeOK, Numbers
<1>2. \A n \in 1..session.revision : history[n] \in Version
  BY <1>1, SessionsAssumption DEF SessionInductive, SessionTypeOK, HistoryMatches, Numbers
<1>3. Trail \in [1..session.revision -> Version]
  BY <1>2 DEF Trail
<1>4. Trail \in Seq(Version) /\ Len(Trail) = session.revision
  BY <1>1, <1>3
<1>5. Trail[session.revision] = history[session.revision]
  BY <1>1, SessionsAssumption DEF Trail, Numbers
<1> QED BY <1>3, <1>4, <1>5 DEF Shown!Last, SessionInductive, HistoryMatches

\* A commit appends to it.
LEMMA CommitExtendsTrail ==
  ASSUME SessionInductive, NEW d \in Desks, Appends(d)
  PROVE  Trail' = Append(Trail, desk[d].next)
<1> DEFINE rev == session.revision
<1>1. rev \in Nat /\ rev + 1 \in Numbers
  BY SessionsAssumption DEF SessionInductive, SessionTypeOK, Appends, Numbers
<1>2. session'.revision = rev + 1
  BY DEF Appends
<1>3. history'[rev + 1] = desk[d].next /\ \A n \in Numbers : n # rev + 1 => history'[n] = history[n]
  BY <1>1 DEF SessionInductive, SessionTypeOK, Appends
<1>4. \A n \in 1..rev : n \in Numbers /\ n # rev + 1
  BY <1>1, SessionsAssumption DEF Numbers
<1>5. Trail' = [n \in 1..(rev + 1) |-> history'[n]]
  BY <1>2 DEF Trail
<1>6. Trail' = [n \in 1..(rev + 1) |-> IF n = rev + 1 THEN desk[d].next ELSE Trail[n]]
  <2>1. \A n \in 1..rev : history'[n] = Trail[n]
    BY <1>3, <1>4 DEF Trail
  <2>2. \A n \in 1..(rev + 1) : n # rev + 1 => n \in 1..rev
    BY <1>1
  <2> QED BY <1>3, <1>5, <2>1, <2>2
<1>7. Len(Trail) = rev /\ Trail \in Seq(Version)
  BY TrailIsSequence
<1> QED BY <1>1, <1>6, <1>7

\* Every step is one of the document's, or changes nothing it shows.
LEMMA DocumentStep == SessionInductive /\ [SessionNext]_sessionVars => [Shown!Next]_Trail
<1> SUFFICES ASSUME SessionInductive, [SessionNext]_sessionVars PROVE [Shown!Next]_Trail
  OBVIOUS
<1>1. ASSUME NEW d \in Desks,
             EditCommit(d) \/ ApprovalCommit(d) \/ RestoreCommit(d) \/ ResolveCommit(d)
      PROVE  Shown!Next
  <2> DEFINE next == desk[d].next
  <2>1. Appends(d)
    BY <1>1, CommitsAppend
  <2>2. Trail' = Append(Trail, next)
    BY <2>1, CommitExtendsTrail
  <2>3. Shown!Last.content = session.content /\ Shown!Last.status = session.status
    BY TrailIsSequence
  <2>4. next = [content |-> next.content, status |-> next.status]
        /\ next.content \in Contents /\ next.status \in ContentStatus
    BY <2>1 DEF Appends, SessionInductive, Busy, Job, Version
  <2>5. desk[d].seen = session
    BY <2>1 DEF Appends
  <2>6. CASE EditCommit(d) \/ ResolveCommit(d)
    <3>1. next.status = Demoted(session.status)
      <4>1. CASE EditCommit(d)
        BY <2>5, <4>1 DEF EditCommit, SessionInductive, NextFollows
      <4>2. CASE ResolveCommit(d)
        <5>1. next = [content |-> desk[d].request, status |-> Demoted(desk[d].seen.status)]
          BY <4>2 DEF ResolveCommit, Resolving, SessionInductive, NextFollows
        <5> QED BY <2>5, <5>1
      <4> QED BY <2>6, <4>1, <4>2
    <3>2. Shown!Edit(next.content)
      BY <2>2, <2>3, <2>4, <3>1 DEF Shown!Edit, Demoted
    <3> QED BY <2>4, <3>2 DEF Shown!Next
  <2>7. CASE ApprovalCommit(d)
    <3>1. next.content = session.content
      BY <2>5, <2>7 DEF ApprovalCommit, SessionInductive, NextFollows
    <3>2. [(Shown!Last) EXCEPT !.status = next.status] = next
      BY <2>4, <3>1, TrailIsSequence
    <3>3. Shown!Judge(next.status)
      BY <2>2, <3>2 DEF Shown!Judge
    <3> QED BY <2>4, <3>3 DEF Shown!Next, ContentStatus
  <2>8. CASE RestoreCommit(d)
    <3>1. PICK n \in Numbers : history[n] # NoVersion /\ next = history[n]
      BY <2>8 DEF RestoreCommit, SessionInductive, NextFollows
    <3>2. n \in 1..session.revision
      BY <3>1, SessionsAssumption DEF SessionInductive, SessionTypeOK, HistoryMatches, Numbers
    <3>3. next = Trail[n] /\ n \in DOMAIN Trail
      BY <3>1, <3>2 DEF Trail
    <3>4. Shown!Restore(n)
      BY <2>2, <3>3 DEF Shown!Restore
    <3> QED BY <3>3, <3>4 DEF Shown!Next
  <2> QED BY <1>1, <2>6, <2>7, <2>8
<1>2. CASE \A d \in Desks :
        ~ (EditCommit(d) \/ ApprovalCommit(d) \/ RestoreCommit(d) \/ ResolveCommit(d))
  BY <1>2, OthersLeaveSession DEF Trail
<1> QED BY <1>1, <1>2

\* However edits, approvals, restores and change requests overlap, a session
\* is a document: versions are appended one at a time, none is lost, an edit
\* takes an approval back and only approved content is shown as approved.
THEOREM SessionIsDocument == SessionSpec => KeepsDocument
<1>1. SessionInit => Shown!Init
  <2> SUFFICES ASSUME SessionInit PROVE Shown!Init
    OBVIOUS
  <2>1. SessionInductive
    BY InductiveInit
  <2>2. Len(Trail) = 1 /\ Trail \in Seq(Version)
    BY <2>1, TrailIsSequence DEF SessionInit
  <2>3. Trail[1] = [content |-> Original, status |-> "draft"]
    BY SessionsAssumption DEF SessionInit, Trail, Numbers
  <2>4. Trail = <<Trail[1]>>
    BY <2>2
  <2> QED BY <2>3, <2>4 DEF Shown!Init
<1> QED BY <1>1, DocumentStep, SessionInvariance, PTL DEF SessionSpec, KeepsDocument, Shown!Spec

-----------------------------------------------------------------------------
(***************************************************************************)
(* Files: uploads, their verification and the versions of a deliverable.   *)
(***************************************************************************)

(* The inductive invariant.                                                *)

FoundStatus == {"authorized", "rejected", "expired"}
Shot == Uploads \cup {NoUpload}

\* What a request holds at each of its steps.
ContainJob == [at : {"contain"}, upload : Uploads, found : Containers \cup {NoTarget}]
PutJob == [at : {"expire", "put", "mark", "reject"}, upload : Uploads, seen : FoundStatus]
FinalizeJob == [at : {"finalize"}, upload : Uploads]
AppendJob ==
  [at : {"append"}, upload : Uploads, target : Deliverables, number : 1..MaxVersion]
ReviewJob ==
  [at : {"review"}, target : Deliverables, verdict : {"changes_requested", "approved"}]
ProfileJob == [at : {"profile", "restore"}, version : 0..MaxSnapshot, headshot : Shot]
Jobs ==
  {NoRequest} \cup ContainJob \cup PutJob \cup FinalizeJob \cup AppendJob
    \cup ReviewJob \cup ProfileJob

IsUploaded(u) == \E v \in versions : v.upload = u

\* What a request read is still true enough for what it will write: rows are
\* never deleted, objects stay, and a number that was passed is taken.
StillHolds(j) ==
  /\ j.at = "mark" => j.upload \in stored
  /\ j.at \in {"expire", "put", "mark", "reject", "finalize", "append"} =>
       auth[j.upload].status # "absent"
  /\ j.at \in {"finalize", "append"} => j.upload \in stored
  /\ j.at = "append" =>
       auth[j.upload].target = j.target /\ j.number <= deliverable[j.target].latest + 1
  /\ j.at = "review" => deliverable[j.target].latest > 0
  /\ j.at \in {"profile", "restore"} => j.version <= SnapshotCount
  /\ j.at = "profile" /\ j.version = SnapshotCount => j.headshot = headshot
  /\ j.at = "restore" /\ j.headshot # NoUpload => IsUploaded(j.headshot)

\* An authorization names its deliverable, and a version has one; only the
\* file of an authorization is ever verified.
AuthorizedFirst ==
  /\ \A u \in Uploads : auth[u].status # "absent" => auth[u].target \in Deliverables
  /\ \A v \in versions : auth[v.upload].status # "absent"
  /\ \A u \in Uploads : file[u] = "verified" => auth[u].status # "absent"

FilesInductive ==
  /\ FilesSafe
  /\ IsFiniteSet(versions) /\ IsFiniteSet(snapshots)
  /\ request \in [Requests -> Jobs]
  /\ \A r \in Requests : StillHolds(request[r])
  /\ AuthorizedFirst
  /\ \A s \in snapshots : s.headshot # NoUpload => IsUploaded(s.headshot)

-----------------------------------------------------------------------------
(* What a request holds stays true.                                        *)

\* No step takes back an object, an authorization, a version or a snapshot,
\* and the headshot changes only with a new snapshot.
Grows ==
  /\ stored \subseteq stored' /\ versions \subseteq versions'
  /\ \A u \in Uploads : auth[u].status # "absent" =>
       auth'[u].status # "absent" /\ auth'[u].target = auth[u].target
  /\ \A d \in Deliverables :
       deliverable'[d].latest \in Nat /\ deliverable[d].latest <= deliverable'[d].latest
  /\ SnapshotCount' \in Nat /\ SnapshotCount <= SnapshotCount'
  /\ SnapshotCount' = SnapshotCount => headshot' = headshot

\* The rows have their types, which the steps below use.
LEMMA FileRowsTyped ==
  ASSUME FilesInductive
  PROVE  /\ \A d \in Deliverables : deliverable[d].latest \in Nat
         /\ \A r \in Requests : request[r] \in Jobs /\ StillHolds(request[r])
         /\ SnapshotCount \in Nat
         /\ headshot \in Shot
         /\ \A s \in snapshots : s.headshot \in Shot /\ s.number \in Nat
<1>1. \A d \in Deliverables : deliverable[d].latest \in Nat
  BY FilesAssumption DEF FilesInductive, FilesSafe, FilesTypeOK
<1>2. SnapshotCount \in Nat
  BY FS_CardinalityType DEF FilesInductive, SnapshotCount
<1> QED BY <1>1, <1>2 DEF FilesInductive, FilesSafe, FilesTypeOK, Shot

\* Which record a request holds is told by the step it is at.
LEMMA FileRequestsTyped ==
  ASSUME NEW j \in Jobs
  PROVE  /\ j.at = "contain" => j \in ContainJob
         /\ j.at \in {"expire", "put", "mark", "reject"} => j \in PutJob
         /\ j.at = "finalize" => j \in FinalizeJob
         /\ j.at = "append" => j \in AppendJob
         /\ j.at = "review" => j \in ReviewJob
         /\ j.at \in {"profile", "restore"} => j \in ProfileJob
  BY DEF Jobs, NoRequest, ContainJob, PutJob, FinalizeJob, AppendJob, ReviewJob, ProfileJob

\* As long as nothing is taken back, what a request read still holds.
LEMMA GrowthKeepsJob ==
  ASSUME FilesInductive, Grows, NEW j \in Jobs, StillHolds(j)
  PROVE  StillHolds(j)'
<1>1. j.at = "mark" => j.upload \in stored'
  BY DEF StillHolds, Grows
<1>2. j.at \in {"expire", "put", "mark", "reject", "finalize", "append"} =>
        /\ j.upload \in Uploads /\ auth[j.upload].status # "absent"
        /\ auth'[j.upload].status # "absent" /\ auth'[j.upload].target = auth[j.upload].target
  BY FileRequestsTyped DEF StillHolds, Grows, PutJob, FinalizeJob, AppendJob
<1>3. j.at \in {"finalize", "append"} => j.upload \in stored'
  BY DEF StillHolds, Grows
<1>4. ASSUME j.at = "append"
      PROVE  auth'[j.upload].target = j.target /\ j.number <= deliverable'[j.target].latest + 1
  <2>1. j.target \in Deliverables /\ j.number \in Nat
    BY <1>4, FileRequestsTyped, FilesAssumption DEF AppendJob
  <2>2. auth[j.upload].target = j.target /\ j.number <= deliverable[j.target].latest + 1
    BY <1>4 DEF StillHolds
  <2>3. /\ deliverable[j.target].latest \in Nat /\ deliverable'[j.target].latest \in Nat
        /\ deliverable[j.target].latest <= deliverable'[j.target].latest
    BY <2>1, FileRowsTyped DEF Grows
  <2> QED BY <1>2, <1>4, <2>1, <2>2, <2>3
<1>5. ASSUME j.at = "review" PROVE deliverable'[j.target].latest > 0
  <2>1. j.target \in Deliverables
    BY <1>5, FileRequestsTyped DEF ReviewJob
  <2>2. /\ deliverable[j.target].latest \in Nat /\ deliverable'[j.target].latest \in Nat
        /\ deliverable[j.target].latest <= deliverable'[j.target].latest
    BY <2>1, FileRowsTyped DEF Grows
  <2> QED BY <1>5, <2>2 DEF StillHolds
<1>6. ASSUME j.at \in {"profile", "restore"}
      PROVE  /\ j.version <= SnapshotCount'
             /\ j.at = "profile" /\ j.version = SnapshotCount' => j.headshot = headshot'
  <2>1. j.version \in Nat
    BY <1>6, FileRequestsTyped, FilesAssumption DEF ProfileJob
  <2>2. /\ SnapshotCount \in Nat /\ SnapshotCount' \in Nat /\ SnapshotCount <= SnapshotCount'
        /\ SnapshotCount' = SnapshotCount => headshot' = headshot
    BY FileRowsTyped DEF Grows
  <2>3. /\ j.version <= SnapshotCount
        /\ j.at = "profile" /\ j.version = SnapshotCount => j.headshot = headshot
    BY <1>6 DEF StillHolds
  <2>4. j.version = SnapshotCount' => SnapshotCount' = SnapshotCount
    BY <2>1, <2>2, <2>3
  <2> QED BY <2>1, <2>2, <2>3, <2>4
<1>7. j.at = "restore" /\ j.headshot # NoUpload => IsUploaded(j.headshot)'
  BY DEF StillHolds, IsUploaded, Grows
<1> QED BY <1>1, <1>2, <1>3, <1>4, <1>5, <1>6, <1>7 DEF StillHolds

\* A step whose request ends, or goes on with a job that holds afterwards.
LEMMA RequestsHold ==
  ASSUME FilesInductive, Grows, NEW r \in Requests, NEW j \in Jobs, StillHolds(j)',
         request' = [request EXCEPT ![r] = j]
  PROVE  /\ request' \in [Requests -> Jobs]
         /\ \A q \in Requests : StillHolds(request[q])'
<1>1. request' \in [Requests -> Jobs]
  BY DEF FilesInductive
<1>2. ASSUME NEW q \in Requests PROVE StillHolds(request[q])'
  <2>1. CASE q = r
    <3>1. request'[q] = j
      BY <2>1 DEF FilesInductive
    <3> QED BY <3>1 DEF StillHolds
  <2>2. CASE q # r
    <3>1. request'[q] = request[q] /\ request[q] \in Jobs /\ StillHolds(request[q])
      BY <2>2, FileRowsTyped DEF FilesInductive
    <3>2. StillHolds(request[q])'
      BY <3>1, GrowthKeepsJob
    <3> QED BY <3>1, <3>2 DEF StillHolds
  <2> QED BY <2>1, <2>2
<1> QED BY <1>1, <1>2

\* A request that goes on unchanged, or no request at all.
LEMMA RequestsUnchanged ==
  ASSUME FilesInductive, Grows, request' = request
  PROVE  /\ request' \in [Requests -> Jobs]
         /\ \A q \in Requests : StillHolds(request[q])'
<1>1. ASSUME NEW q \in Requests PROVE StillHolds(request[q])'
  <2>1. PICK j \in Jobs : j = request[q] /\ StillHolds(j)
    BY FileRowsTyped
  <2>2. StillHolds(j)'
    BY <2>1, GrowthKeepsJob
  <2> QED BY <2>1, <2>2 DEF StillHolds
<1> QED BY <1>1 DEF FilesInductive

-----------------------------------------------------------------------------
(* Steps that write no version and no snapshot.                            *)

DeliverableRow ==
  [status : {"absent", "pending", "submitted", "changes_requested", "approved"},
   latest : 0..MaxVersion]
AuthStatus == {"absent", "authorized", "uploaded", "finalized", "rejected", "expired"}
AuthRow == [status : AuthStatus, target : Deliverables \cup {NoTarget}]
FileStatus == {"absent", "quarantined", "verified", "rejected"}

\* Statuses change: a deliverable keeps its versions and waits exactly while
\* it has none, an authorization keeps its deliverable, what is uploaded is
\* stored, and nothing becomes finalized.
Quiet ==
  /\ UNCHANGED <<complete, versions, profileVars>>
  /\ deliverable' \in [Deliverables -> DeliverableRow]
  /\ \A d \in Deliverables :
       /\ deliverable'[d].latest = deliverable[d].latest
       /\ deliverable'[d].status \in {"absent", "pending"} <=> deliverable[d].latest = 0
  /\ stored \subseteq stored' /\ stored' \subseteq Uploads /\ lapsed' \subseteq Uploads
  /\ auth' \in [Uploads -> AuthRow] /\ file' \in [Uploads -> FileStatus]
  /\ \A u \in Uploads :
       /\ auth[u].status # "absent" =>
            auth'[u].status # "absent" /\ auth'[u].target = auth[u].target
       /\ auth'[u].status # "absent" => auth'[u].target \in Deliverables
       /\ auth'[u].status \in {"uploaded", "finalized"} => u \in stored'
       /\ auth'[u].status = "finalized" => auth[u].status = "finalized"
       /\ file'[u] = "verified" => file[u] = "verified"

\* A step that writes no version and no snapshot takes nothing back.
LEMMA QuietGrows ==
  ASSUME FilesInductive, Quiet
  PROVE  Grows
<1>1. snapshots' = snapshots /\ headshot' = headshot
  BY DEF Quiet, profileVars
<1>2. SnapshotCount' = SnapshotCount
  BY <1>1 DEF SnapshotCount
<1> QED BY <1>1, <1>2, FileRowsTyped DEF Quiet, Grows

\* And it keeps the invariant if it keeps what the requests hold.
LEMMA QuietKeepsInductive ==
  ASSUME FilesInductive, Quiet, request' \in [Requests -> Jobs],
         \A q \in Requests : StillHolds(request[q])'
  PROVE  FilesInductive'
<1>1. UNCHANGED <<complete, versions, headshot, snapshots>>
  BY DEF Quiet, profileVars
<1>2. FilesTypeOK'
  BY <1>1 DEF FilesInductive, FilesSafe, FilesTypeOK, Quiet, DeliverableRow, AuthRow, AuthStatus,
     FileStatus
<1>3. VersionsInStep'
  BY ZenonT(90), <1>1 DEF FilesInductive, FilesSafe, VersionsInStep, Quiet
<1>4. VersionsAreStored'
  <2>1. \A v \in versions : v.upload \in Uploads /\ auth[v.upload].status # "absent"
    BY DEF FilesInductive, FilesSafe, FilesTypeOK, AuthorizedFirst
  <2> QED BY <1>1, <2>1 DEF FilesInductive, FilesSafe, VersionsAreStored, Quiet
<1>5. HeadshotIsVersioned'
  BY <1>1 DEF FilesInductive, FilesSafe, HeadshotIsVersioned, SnapshotCount
<1>6. AuthorizedFirst'
  <2>1. \A v \in versions : v.upload \in Uploads /\ auth[v.upload].status # "absent"
    BY DEF FilesInductive, FilesSafe, FilesTypeOK, AuthorizedFirst
  <2>2. \A u \in Uploads : file[u] = "verified" => auth[u].status # "absent"
    BY DEF FilesInductive, AuthorizedFirst
  <2> QED BY <1>1, <2>1, <2>2 DEF AuthorizedFirst, Quiet
<1>7. IsFiniteSet(versions)' /\ IsFiniteSet(snapshots)'
  BY <1>1 DEF FilesInductive
<1>8. (\A s \in snapshots : s.headshot # NoUpload => IsUploaded(s.headshot))'
  BY <1>1 DEF FilesInductive, IsUploaded
<1> QED BY <1>2, <1>3, <1>4, <1>5, <1>6, <1>7, <1>8 DEF FilesInductive, FilesSafe

\* A read changes no row and leaves its request with what is there.
LEMMA FileReadKeeps ==
  ASSUME FilesInductive, NEW r \in Requests, NEW j \in Jobs, StillHolds(j),
         UNCHANGED <<deliverable, complete, versions, uploadVars, profileVars>>,
         request' = [request EXCEPT ![r] = j]
  PROVE  FilesInductive'
<1>1. UNCHANGED <<deliverable, complete, versions, auth, file, stored, lapsed, headshot, snapshots>>
  BY DEF uploadVars, profileVars
<1>2. Quiet
  BY <1>1 DEF Quiet, profileVars, FilesInductive, FilesSafe, FilesTypeOK, VersionsInStep,
     VersionsAreStored, AuthorizedFirst, DeliverableRow, AuthRow, AuthStatus, FileStatus
<1>3. StillHolds(j)'
  BY <1>1 DEF StillHolds, SnapshotCount, IsUploaded
<1>4. Grows
  BY <1>2, QuietGrows
<1> QED BY <1>2, <1>3, <1>4, RequestsHold, QuietKeepsInductive

\* The steps that only read: what they keep is what they found.
LEMMA ReadSteps ==
  ASSUME FilesInductive, NEW r \in Requests,
         \/ \E u \in Uploads : HeadshotRead(r, u) \/ PutRead(r, u) \/ FinalizeRead(r, u)
         \/ MarkFails(r) \/ FinalizeCurrent(r)
         \/ \E d \in Deliverables : ReviewRead(r, d)
         \/ ProfileRead(r) \/ RestoreProfileRead(r) \/ GiveUp(r)
  PROVE  FilesInductive'
<1>1. UNCHANGED <<deliverable, complete, versions, uploadVars, profileVars>>
  BY DEF HeadshotRead, PutRead, FinalizeRead, MarkFails, FinalizeCurrent, ReviewRead,
     ProfileRead, RestoreProfileRead, GiveUp
<1>2. \E j \in Jobs : StillHolds(j) /\ request' = [request EXCEPT ![r] = j]
  <2>1. ASSUME NEW u \in Uploads, HeadshotRead(r, u)
        PROVE  \E j \in Jobs : StillHolds(j) /\ request' = [request EXCEPT ![r] = j]
    <3>1. PICK found \in Containers \cup {NoTarget} :
            Goes(r, [at |-> "contain", upload |-> u, found |-> found])
      BY <2>1 DEF HeadshotRead
    <3> DEFINE j == [at |-> "contain", upload |-> u, found |-> found]
    <3>2. j \in Jobs /\ StillHolds(j)
      BY DEF Jobs, ContainJob, StillHolds
    <3> QED BY <3>1, <3>2 DEF Goes
  <2>2. ASSUME NEW u \in Uploads, PutRead(r, u)
        PROVE  \E j \in Jobs : StillHolds(j) /\ request' = [request EXCEPT ![r] = j]
    <3> DEFINE j == [at |-> IF u \in lapsed THEN "expire" ELSE "put", upload |-> u,
                     seen |-> auth[u].status]
    <3>1. j \in PutJob
      BY <2>2 DEF PutRead, MayPut, PutJob, FoundStatus
    <3>2. j.at \in {"expire", "put"} /\ auth[j.upload].status # "absent"
      BY <2>2 DEF PutRead, MayPut
    <3>3. StillHolds(j)
      BY <3>2 DEF StillHolds
    <3> QED BY <2>2, <3>1, <3>3 DEF PutRead, Goes, Jobs
  <2>3. ASSUME NEW u \in Uploads, FinalizeRead(r, u)
        PROVE  \E j \in Jobs : StillHolds(j) /\ request' = [request EXCEPT ![r] = j]
    <3> DEFINE j == [at |-> "finalize", upload |-> u]
    <3>1. u \in stored
      BY <2>3 DEF FinalizeRead, FilesInductive, FilesSafe, VersionsAreStored
    <3>2. j \in Jobs /\ StillHolds(j)
      BY <2>3, <3>1 DEF FinalizeRead, Jobs, FinalizeJob, StillHolds
    <3> QED BY <2>3, <3>2 DEF FinalizeRead, Goes
  <2>4. ASSUME MarkFails(r)
        PROVE  \E j \in Jobs : StillHolds(j) /\ request' = [request EXCEPT ![r] = j]
    <3> DEFINE j == [request[r] EXCEPT !.at = "reject"]
    <3>1. request[r] \in PutJob /\ StillHolds(request[r]) /\ request[r].at = "mark"
      BY <2>4, FileRowsTyped, FileRequestsTyped DEF MarkFails
    <3>2. j \in PutJob /\ j.at = "reject" /\ j.upload = request[r].upload
      BY <3>1 DEF PutJob
    <3>3. StillHolds(j)
      BY <3>1, <3>2 DEF StillHolds
    <3> QED BY <2>4, <3>2, <3>3 DEF MarkFails, Goes, Jobs
  <2>5. ASSUME FinalizeCurrent(r)
        PROVE  \E j \in Jobs : StillHolds(j) /\ request' = [request EXCEPT ![r] = j]
    <3> DEFINE u == request[r].upload
               d == auth[u].target
               j == [at |-> "append", upload |-> u, target |-> d,
                     number |-> deliverable[d].latest + 1]
    <3>1. request[r] \in FinalizeJob /\ StillHolds(request[r]) /\ request[r].at = "finalize"
      BY <2>5, FileRowsTyped, FileRequestsTyped DEF FinalizeCurrent
    <3>2. u \in Uploads /\ u \in stored /\ auth[u].status # "absent"
      BY <3>1 DEF FinalizeJob, StillHolds
    <3>3. d \in Deliverables
      BY <3>2 DEF FilesInductive, AuthorizedFirst
    <3>4. deliverable[d].latest \in Nat /\ deliverable[d].latest < MaxVersion
      BY <2>5, <3>3, FileRowsTyped DEF FinalizeCurrent
    <3>5. deliverable[d].latest + 1 \in 1..MaxVersion
      BY <3>4, FilesAssumption
    <3>6. j \in AppendJob
      BY <3>2, <3>3, <3>5 DEF AppendJob
    <3>7. StillHolds(j)
      BY <3>2, <3>4 DEF StillHolds
    <3> QED BY <2>5, <3>6, <3>7 DEF FinalizeCurrent, Goes, Jobs
  <2>6. ASSUME NEW d \in Deliverables, ReviewRead(r, d)
        PROVE  \E j \in Jobs : StillHolds(j) /\ request' = [request EXCEPT ![r] = j]
    <3>1. PICK verdict \in {"changes_requested", "approved"} :
            Goes(r, [at |-> "review", target |-> d, verdict |-> verdict])
      BY <2>6 DEF ReviewRead
    <3> DEFINE j == [at |-> "review", target |-> d, verdict |-> verdict]
    <3>2. j \in Jobs /\ StillHolds(j)
      BY <2>6 DEF ReviewRead, Jobs, ReviewJob, StillHolds
    <3> QED BY <3>1, <3>2 DEF Goes
  <2>7. ASSUME ProfileRead(r)
        PROVE  \E j \in Jobs : StillHolds(j) /\ request' = [request EXCEPT ![r] = j]
    <3> DEFINE j == [at |-> "profile", version |-> SnapshotCount, headshot |-> headshot]
    <3>1. SnapshotCount \in 0..MaxSnapshot /\ SnapshotCount <= SnapshotCount
      BY <2>7, FileRowsTyped, FilesAssumption DEF ProfileRead
    <3>2. j \in ProfileJob /\ StillHolds(j)
      BY <3>1, FileRowsTyped DEF ProfileJob, StillHolds
    <3> QED BY <2>7, <3>2 DEF ProfileRead, Goes, Jobs
  <2>8. ASSUME RestoreProfileRead(r)
        PROVE  \E j \in Jobs : StillHolds(j) /\ request' = [request EXCEPT ![r] = j]
    <3>1. PICK s \in snapshots :
            Goes(r, [at |-> "restore", version |-> SnapshotCount, headshot |-> s.headshot])
      BY <2>8 DEF RestoreProfileRead
    <3> DEFINE j == [at |-> "restore", version |-> SnapshotCount, headshot |-> s.headshot]
    <3>2. SnapshotCount \in 0..MaxSnapshot /\ SnapshotCount <= SnapshotCount
      BY <2>8, FileRowsTyped, FilesAssumption DEF RestoreProfileRead
    <3>3. s.headshot \in Shot /\ (s.headshot # NoUpload => IsUploaded(s.headshot))
      BY FileRowsTyped DEF FilesInductive
    <3>4. j \in ProfileJob /\ StillHolds(j)
      BY <3>2, <3>3 DEF ProfileJob, StillHolds
    <3> QED BY <3>1, <3>4 DEF Goes, Jobs
  <2>9. ASSUME GiveUp(r)
        PROVE  \E j \in Jobs : StillHolds(j) /\ request' = [request EXCEPT ![r] = j]
    <3>1. NoRequest \in Jobs /\ StillHolds(NoRequest)
      BY DEF Jobs, NoRequest, StillHolds
    <3> QED BY <2>9, <3>1 DEF GiveUp, Ends, Goes
  <2> QED BY <2>1, <2>2, <2>3, <2>4, <2>5, <2>6, <2>7, <2>8, <2>9
<1> QED BY <1>1, <1>2, FileReadKeeps

\* What Quiet asks of the rows that a step leaves alone.
LEMMA RowsStay ==
  ASSUME FilesInductive
  PROVE  /\ deliverable \in [Deliverables -> DeliverableRow]
         /\ \A d \in Deliverables :
              deliverable[d].status \in {"absent", "pending"} <=> deliverable[d].latest = 0
         /\ stored \subseteq Uploads /\ lapsed \subseteq Uploads
         /\ auth \in [Uploads -> AuthRow] /\ file \in [Uploads -> FileStatus]
         /\ \A u \in Uploads :
              /\ auth[u].status # "absent" => auth[u].target \in Deliverables
              /\ auth[u].status \in {"uploaded", "finalized"} => u \in stored
  BY DEF FilesInductive, FilesSafe, FilesTypeOK, VersionsInStep, VersionsAreStored, AuthorizedFirst,
     DeliverableRow, AuthRow, AuthStatus, FileStatus

\* The organizer's and the clock's steps: no request goes on.
LEMMA DeskSteps ==
  ASSUME FilesInductive,
         \/ \E d \in FileTasks : CreateFileRequest(d)
         \/ \E u \in Uploads : Lapse(u) \/ \E d \in FileTasks : RequestUpload(u, d)
  PROVE  FilesInductive'
<1>1. Quiet /\ request' = request
  <2>1. ASSUME NEW d \in FileTasks, CreateFileRequest(d) PROVE Quiet /\ request' = request
    <3>1. d \in Deliverables /\ deliverable[d].status = "absent" /\ deliverable[d].latest = 0
      BY <2>1, RowsStay DEF CreateFileRequest, Exists, Deliverables
    <3>2. /\ deliverable' = [deliverable EXCEPT ![d].status = "pending"]
          /\ UNCHANGED <<complete, versions, profileVars, auth, file, stored, lapsed, request>>
      BY <2>1 DEF CreateFileRequest, uploadVars
    <3>3. deliverable' \in [Deliverables -> DeliverableRow]
      BY <3>1, <3>2, RowsStay DEF DeliverableRow
    <3>4. \A e \in Deliverables :
            /\ deliverable'[e].latest = deliverable[e].latest
            /\ deliverable'[e].status \in {"absent", "pending"} <=> deliverable[e].latest = 0
      BY <3>1, <3>2, RowsStay DEF DeliverableRow
    <3> QED BY <3>2, <3>3, <3>4, RowsStay DEF Quiet
  <2>2. ASSUME NEW u \in Uploads, Lapse(u) PROVE Quiet /\ request' = request
    BY <2>2, RowsStay DEF Lapse, Quiet, profileVars
  <2>3. ASSUME NEW u \in Uploads, NEW d \in FileTasks, RequestUpload(u, d)
        PROVE  Quiet /\ request' = request
    <3>1. /\ auth[u].status = "absent" /\ d \in Deliverables
          /\ auth' = [auth EXCEPT ![u] = [status |-> "authorized", target |-> d]]
          /\ file' = [file EXCEPT ![u] = "quarantined"]
          /\ UNCHANGED <<complete, versions, stored, lapsed, profileVars, deliverable, request>>
      BY <2>3 DEF RequestUpload, Authorized, Deliverables
    <3>2. auth' \in [Uploads -> AuthRow] /\ file' \in [Uploads -> FileStatus]
      BY <3>1, RowsStay DEF AuthRow, AuthStatus, FileStatus
    <3> QED BY <3>1, <3>2, RowsStay DEF Quiet
  <2> QED BY <2>1, <2>2, <2>3
<1> QED BY <1>1, QuietGrows, RequestsUnchanged, QuietKeepsInductive

\* An upload's status follows its request: authorized, stored, marked,
\* expired or rejected.
LEMMA UploadSteps ==
  ASSUME FilesInductive, NEW r \in Requests,
         \/ HeadshotAuthorize(r) \/ Expire(r) \/ PutOk(r) \/ PutFails(r)
         \/ MarkUploaded(r) \/ Reject(r) \/ ReviewCommit(r)
  PROVE  FilesInductive'
<1> DEFINE job == request[r]
           u == job.upload
<1>1. job \in Jobs /\ StillHolds(job)
  BY FileRowsTyped
<1>2. NoRequest \in Jobs /\ StillHolds(NoRequest)'
  BY DEF Jobs, NoRequest, StillHolds
<1>3. Quiet /\ \E j \in Jobs : StillHolds(j)' /\ request' = [request EXCEPT ![r] = j]
  <2>1. ASSUME HeadshotAuthorize(r)
        PROVE  Quiet /\ request' = [request EXCEPT ![r] = NoRequest]
    <3>1. u \in Uploads
      BY <1>1, <2>1, FileRequestsTyped DEF HeadshotAuthorize, ContainJob
    <3>2. PICK c \in Containers :
            /\ Authorized(u, c)
            /\ deliverable' = IF Exists(c) THEN deliverable
                              ELSE [deliverable EXCEPT ![c].status = "pending"]
      BY <2>1 DEF HeadshotAuthorize
    <3>3. c \in Deliverables
      BY DEF Deliverables
    <3>4. /\ auth[u].status = "absent"
          /\ auth' = [auth EXCEPT ![u] = [status |-> "authorized", target |-> c]]
          /\ file' = [file EXCEPT ![u] = "quarantined"]
          /\ UNCHANGED <<complete, versions, stored, lapsed, profileVars>>
      BY <3>2 DEF Authorized
    <3>5. auth' \in [Uploads -> AuthRow] /\ file' \in [Uploads -> FileStatus]
      BY <3>1, <3>3, <3>4, RowsStay DEF AuthRow, AuthStatus, FileStatus
    <3>6. /\ deliverable' \in [Deliverables -> DeliverableRow]
          /\ \A e \in Deliverables :
               /\ deliverable'[e].latest = deliverable[e].latest
               /\ deliverable'[e].status \in {"absent", "pending"} <=> deliverable[e].latest = 0
      BY <3>2, <3>3, RowsStay DEF DeliverableRow, Exists
    <3>7. request' = [request EXCEPT ![r] = NoRequest]
      BY <2>1 DEF HeadshotAuthorize, Ends, Goes
    <3> QED BY <3>1, <3>3, <3>4, <3>5, <3>6, <3>7, RowsStay DEF Quiet
  <2>2. ASSUME Expire(r) \/ MarkUploaded(r) \/ Reject(r)
        PROVE  Quiet /\ request' = [request EXCEPT ![r] = NoRequest]
    <3>1. /\ u \in Uploads /\ auth[u].status # "absent"
          /\ job.at = "mark" => u \in stored
      BY <1>1, <2>2, FileRequestsTyped DEF Expire, MarkUploaded, Reject, PutJob, StillHolds
    <3>2. PICK status \in {"expired", "uploaded", "rejected"} :
            /\ auth' = [auth EXCEPT ![u].status = status]
            /\ status = "uploaded" => u \in stored
      BY <2>2, <3>1 DEF Expire, MarkUploaded, Reject
    <3>3. /\ file' = file \/ file' = [file EXCEPT ![u] = "rejected"]
          /\ request' = [request EXCEPT ![r] = NoRequest]
          /\ UNCHANGED <<deliverable, complete, versions, stored, lapsed, profileVars>>
      BY <2>2 DEF Expire, MarkUploaded, Reject, Ends, Goes
    <3>4. auth' \in [Uploads -> AuthRow] /\ file' \in [Uploads -> FileStatus]
      BY <3>1, <3>2, <3>3, RowsStay DEF AuthRow, AuthStatus, FileStatus
    <3>5. \A w \in Uploads :
            /\ auth'[w].target = auth[w].target
            /\ w # u => auth'[w] = auth[w]
            /\ auth'[u].status = status
      BY <3>1, <3>2, RowsStay DEF AuthRow
    <3>6. \A w \in Uploads : file'[w] = "verified" => file[w] = "verified"
      BY <3>1, <3>3, RowsStay
    <3> QED BY <3>1, <3>2, <3>3, <3>4, <3>5, <3>6, RowsStay DEF Quiet
  <2>3. ASSUME PutOk(r) \/ PutFails(r)
        PROVE  Quiet /\ \E j \in Jobs : StillHolds(j)' /\ request' = [request EXCEPT ![r] = j]
    <3>1. job \in PutJob /\ u \in Uploads /\ auth[u].status # "absent"
      BY <1>1, <2>3, FileRequestsTyped DEF PutOk, PutFails, PutJob, StillHolds
    <3>2. PICK at \in {"mark", "reject"} :
            /\ request' = [request EXCEPT ![r] = [job EXCEPT !.at = at]]
            /\ at = "mark" => u \in stored'
      BY <2>3 DEF PutOk, PutFails, Goes
    <3>3. /\ stored' \in {stored, stored \cup {u}}
          /\ UNCHANGED <<deliverable, complete, versions, auth, file, lapsed, profileVars>>
      BY <2>3 DEF PutOk, PutFails
    <3>4. Quiet
      BY <3>1, <3>3, RowsStay DEF Quiet
    <3>5. [job EXCEPT !.at = at] \in PutJob
      BY <3>1 DEF PutJob
    <3>6. PICK j \in PutJob :
            j.at = at /\ j.upload = u /\ request' = [request EXCEPT ![r] = j]
      BY <3>1, <3>2, <3>5 DEF PutJob
    <3>7. StillHolds(j)'
      BY <3>1, <3>2, <3>3, <3>6 DEF StillHolds
    <3> QED BY <3>4, <3>6, <3>7 DEF Jobs
  <2>4. ASSUME ReviewCommit(r)
        PROVE  Quiet /\ request' = [request EXCEPT ![r] = NoRequest]
    <3> DEFINE d == job.target
    <3>1. /\ d \in Deliverables /\ deliverable[d].latest > 0
          /\ job.verdict \in {"changes_requested", "approved"}
      BY <1>1, <2>4, FileRequestsTyped DEF ReviewCommit, ReviewJob, StillHolds
    <3>2. /\ deliverable' = [deliverable EXCEPT ![d].status = job.verdict]
          /\ request' = [request EXCEPT ![r] = NoRequest]
          /\ UNCHANGED <<complete, versions, auth, file, stored, lapsed, profileVars>>
      BY <2>4 DEF ReviewCommit, Ends, Goes, uploadVars
    <3>3. deliverable[d].latest # 0
      BY <3>1, FileRowsTyped
    <3>4. /\ deliverable' \in [Deliverables -> DeliverableRow]
          /\ \A e \in Deliverables :
               /\ deliverable'[e].latest = deliverable[e].latest
               /\ deliverable'[e].status \in {"absent", "pending"} <=> deliverable[e].latest = 0
      BY <3>1, <3>2, <3>3, RowsStay DEF DeliverableRow
    <3> QED BY <3>2, <3>4, RowsStay DEF Quiet
  <2> QED BY <1>2, <2>1, <2>2, <2>3, <2>4
<1> QED BY <1>3, QuietGrows, RequestsHold, QuietKeepsInductive

-----------------------------------------------------------------------------
(* Steps that write a version or a snapshot.                               *)

\* A set of versions or snapshots has the numbers 1 to n.
Numbered(S, n) ==
  /\ \A s \in S : s.number \in 1..n
  /\ \A m \in 1..n : \E s \in S : s.number = m

\* It is what the properties say with a set of numbers.
LEMMA NumberedIsInterval ==
  ASSUME NEW S, NEW n
  PROVE  Numbered(S, n) <=> {s.number : s \in S} = 1..n
<1>1. ASSUME Numbered(S, n) PROVE {s.number : s \in S} = 1..n
  <2>1. ASSUME NEW x \in {s.number : s \in S} PROVE x \in 1..n
    BY <1>1, <2>1 DEF Numbered
  <2>2. ASSUME NEW x \in 1..n PROVE x \in {s.number : s \in S}
    BY <1>1, <2>2 DEF Numbered
  <2> QED BY <2>1, <2>2
<1>2. ASSUME {s.number : s \in S} = 1..n PROVE Numbered(S, n)
  <2>1. ASSUME NEW s \in S PROVE s.number \in 1..n
    BY <1>2, <2>1
  <2>2. ASSUME NEW m \in 1..n PROVE \E s \in S : s.number = m
    BY <1>2, <2>2
  <2> QED BY <2>1, <2>2 DEF Numbered
<1> QED BY <1>1, <1>2

\* The next snapshot, with the one it replaces if it is the first, continues
\* the numbers and is the last.
LEMMA SnapshotsContinue ==
  ASSUME NEW S, IsFiniteSet(S), Numbered(S, Cardinality(S)), NEW shot, NEW seen,
         NEW T, T = S \cup NewSnapshots(shot, seen, Cardinality(S))
  PROVE  /\ IsFiniteSet(T) /\ Cardinality(T) \in Nat /\ Cardinality(S) < Cardinality(T)
         /\ Numbered(T, Cardinality(T))
         /\ \A t \in T : t.number = Cardinality(T) => t.headshot = shot
<1>1. Cardinality(S) \in Nat
  BY FS_CardinalityType
<1>2. CASE Cardinality(S) = 0
  <2> DEFINE a == [number |-> 1, headshot |-> seen]
             b == [number |-> 2, headshot |-> shot]
  <2>1. S = {} /\ T = {a} \cup {b}
    BY <1>2, FS_EmptySet DEF NewSnapshots
  <2>2. b \notin {a}
    OBVIOUS
  <2>3. IsFiniteSet({a}) /\ Cardinality({a}) = 1
    BY FS_Singleton
  <2>4. IsFiniteSet(T) /\ Cardinality(T) = 2
    BY <2>1, <2>2, <2>3, FS_AddElement
  <2>5. a.number = 1 /\ b.number = 2 /\ b.headshot = shot
    OBVIOUS
  <2> HIDE DEF a, b
  <2>6. Numbered(T, 2)
    BY <2>1, <2>5 DEF Numbered
  <2>7. \A t \in T : t.number = 2 => t.headshot = shot
    BY <2>1, <2>5
  <2> QED BY <1>2, <2>4, <2>6, <2>7
<1>3. CASE Cardinality(S) # 0
  <2> DEFINE b == [number |-> Cardinality(S) + 1, headshot |-> shot]
  <2>1. T = S \cup {b}
    BY <1>3 DEF NewSnapshots
  <2>2. b.number = Cardinality(S) + 1 /\ b.headshot = shot
    OBVIOUS
  <2> HIDE DEF b
  <2>3. PICK n \in Nat : n = Cardinality(S)
    BY <1>1
  <2>4. b \notin S
    BY <2>2, <2>3 DEF Numbered
  <2>5. IsFiniteSet(T) /\ Cardinality(T) = n + 1
    BY <2>1, <2>3, <2>4, FS_AddElement
  <2>6. Numbered(T, n + 1)
    BY <2>1, <2>2, <2>3 DEF Numbered
  <2>7. \A t \in T : t.number = n + 1 => t.headshot = shot
    BY <2>1, <2>2, <2>3 DEF Numbered
  <2>8. Numbered(T, Cardinality(T)) /\ \A t \in T : t.number = Cardinality(T) => t.headshot = shot
    BY <2>5, <2>6, <2>7, Zenon
  <2>9. Cardinality(T) \in Nat /\ Cardinality(S) < Cardinality(T)
    BY <2>3, <2>5
  <2> QED BY <2>5, <2>8, <2>9
<1> QED BY <1>2, <1>3

\* The profile with a new snapshot of a headshot that was uploaded.
LEMMA SnapshotKeepsProfile ==
  ASSUME FilesInductive, NEW shot \in Shot, SnapshotCount <= MaxSnapshot,
         snapshots' = snapshots \cup NewSnapshots(shot, headshot, SnapshotCount),
         headshot' = shot, shot # NoUpload => IsUploaded(shot)', versions \subseteq versions'
  PROVE  /\ HeadshotIsVersioned'
         /\ IsFiniteSet(snapshots)'
         /\ SnapshotCount' \in Nat /\ SnapshotCount < SnapshotCount'
         /\ headshot' \in Shot
         /\ snapshots' \subseteq [number : 1..(MaxSnapshot + 1), headshot : Shot]
         /\ \A s \in snapshots' : s.headshot # NoUpload => IsUploaded(s.headshot)'
<1>1. /\ IsFiniteSet(snapshots) /\ headshot \in Shot
      /\ Numbered(snapshots, Cardinality(snapshots))
      /\ snapshots' = snapshots \cup NewSnapshots(shot, headshot, Cardinality(snapshots))
  BY FileRowsTyped, NumberedIsInterval DEF FilesInductive, FilesSafe, HeadshotIsVersioned, SnapshotCount
<1>2. /\ IsFiniteSet(snapshots') /\ Cardinality(snapshots') \in Nat
      /\ Cardinality(snapshots) < Cardinality(snapshots')
      /\ Numbered(snapshots', Cardinality(snapshots'))
      /\ \A t \in snapshots' : t.number = Cardinality(snapshots') => t.headshot = shot
  BY <1>1, SnapshotsContinue
<1>3. \A s \in snapshots' : s \in snapshots \/ s.headshot \in {headshot, shot}
  BY <1>1 DEF NewSnapshots
<1>4. headshot # NoUpload => IsUploaded(headshot)
  BY DEF FilesInductive, FilesSafe, HeadshotIsVersioned, IsUploaded
<1>5. \A s \in snapshots' : s.headshot # NoUpload => \E v \in versions' : v.upload = s.headshot
  BY <1>3, <1>4 DEF FilesInductive, IsUploaded
<1>6. snapshots' \subseteq [number : 1..(MaxSnapshot + 1), headshot : Shot]
  <2>1. NewSnapshots(shot, headshot, SnapshotCount) \subseteq
          [number : 1..(MaxSnapshot + 1), headshot : Shot]
    BY <1>1, FileRowsTyped, FilesAssumption DEF NewSnapshots
  <2>2. snapshots \subseteq [number : 1..(MaxSnapshot + 1), headshot : Shot]
    BY DEF FilesInductive, FilesSafe, FilesTypeOK, Shot
  <2> QED BY <2>1, <2>2
<1>7. snapshots' # {}
  BY <1>1, <1>2, FS_EmptySet
<1>8. HeadshotIsVersioned'
  <2>1. {t.number : t \in snapshots'} = 1..Cardinality(snapshots')
    BY <1>2, NumberedIsInterval
  <2> QED BY <1>2, <1>7, <2>1 DEF HeadshotIsVersioned, SnapshotCount, IsUploaded
<1> QED BY <1>2, <1>5, <1>6, <1>8 DEF SnapshotCount, IsUploaded

\* An edit or a restore whose version is free continues from the profile it read.
LEMMA ProfileSteps ==
  ASSUME FilesInductive, NEW r \in Requests, ProfileCommit(r) \/ RestoreProfileCommit(r)
  PROVE  FilesInductive'
<1> DEFINE job == request[r]
           shot == job.headshot
<1>1. job \in ProfileJob /\ StillHolds(job)
  BY FileRowsTyped, FileRequestsTyped DEF ProfileCommit, RestoreProfileCommit
<1>2. job.version = SnapshotCount
  <2>1. {s.number : s \in snapshots} = 1..SnapshotCount
    BY DEF FilesInductive, FilesSafe, HeadshotIsVersioned
  <2>2. job.version + 1 \notin {s.number : s \in snapshots}
    BY DEF ProfileCommit, RestoreProfileCommit, IsNext
  <2>3. job.version \in Nat /\ job.version <= SnapshotCount /\ SnapshotCount \in Nat
    BY <1>1, FileRowsTyped, FilesAssumption DEF ProfileJob, ProfileCommit, RestoreProfileCommit, StillHolds
  <2>4. job.version + 1 \notin 1..SnapshotCount
    BY <2>1, <2>2
  <2> HIDE DEF job
  <2> QED BY <2>3, <2>4
<1>3. /\ shot \in Shot /\ SnapshotCount <= MaxSnapshot
  BY <1>1, <1>2, FilesAssumption DEF ProfileJob
<1>4. shot # NoUpload => IsUploaded(shot)
  BY <1>1, <1>2 DEF ProfileCommit, RestoreProfileCommit, StillHolds, FilesInductive, FilesSafe,
     HeadshotIsVersioned, IsUploaded
<1>5. /\ UNCHANGED <<deliverable, complete, versions, auth, file, stored, lapsed>>
      /\ headshot' = shot
      /\ snapshots' = snapshots \cup NewSnapshots(shot, headshot, SnapshotCount)
      /\ request' = [request EXCEPT ![r] = NoRequest]
  BY <1>1, <1>2 DEF ProfileCommit, RestoreProfileCommit, StillHolds, uploadVars, Ends, Goes
<1>6. PICK s \in Shot : s = shot
  BY <1>3
<1>7. /\ HeadshotIsVersioned' /\ IsFiniteSet(snapshots)'
      /\ SnapshotCount' \in Nat /\ SnapshotCount < SnapshotCount'
      /\ headshot' \in Shot
      /\ snapshots' \subseteq [number : 1..(MaxSnapshot + 1), headshot : Shot]
      /\ \A x \in snapshots' : x.headshot # NoUpload => IsUploaded(x.headshot)'
  <2>1. s # NoUpload => IsUploaded(s)'
    BY <1>4, <1>5, <1>6 DEF IsUploaded
  <2>2. /\ snapshots' = snapshots \cup NewSnapshots(s, headshot, SnapshotCount)
        /\ headshot' = s /\ versions \subseteq versions'
    BY <1>5, <1>6
  <2> HIDE DEF shot, job
  <2> QED BY <1>3, <2>1, <2>2, SnapshotKeepsProfile
<1>8. Grows
  <2>1. SnapshotCount' # SnapshotCount /\ SnapshotCount <= SnapshotCount'
    BY <1>7, FileRowsTyped
  <2> QED BY <1>5, <1>7, <2>1, FileRowsTyped DEF Grows
<1>9. /\ request' \in [Requests -> Jobs]
      /\ \A q \in Requests : StillHolds(request[q])'
  <2>1. NoRequest \in Jobs /\ StillHolds(NoRequest)'
    BY DEF Jobs, NoRequest, StillHolds
  <2> QED BY <1>5, <1>8, <2>1, RequestsHold
<1>10. FilesTypeOK'
  BY <1>5, <1>7 DEF FilesInductive, FilesSafe, FilesTypeOK, Shot
<1>11. VersionsInStep' /\ VersionsAreStored' /\ AuthorizedFirst' /\ IsFiniteSet(versions)'
  BY <1>5 DEF FilesInductive, FilesSafe, VersionsInStep, VersionsAreStored, AuthorizedFirst
<1> QED BY <1>7, <1>9, <1>10, <1>11 DEF FilesInductive, FilesSafe

\* A finalization takes a number that is free, which can only be the next one,
\* so the version is the deliverable's latest.
LEMMA FinalizeNumbersNext ==
  ASSUME FilesInductive, NEW d \in Deliverables, NEW n \in 1..MaxVersion,
         n <= deliverable[d].latest + 1, NumberFree(d, n)
  PROVE  n = deliverable[d].latest + 1
<1> DEFINE fileRows == {v \in versions : v.target = d}
<1>1. {v.number : v \in fileRows} = 1..deliverable[d].latest
  BY DEF FilesInductive, FilesSafe, VersionsInStep
<1>2. Numbered(fileRows, deliverable[d].latest)
  BY <1>1, NumberedIsInterval
<1>3. \A v \in fileRows : v.number # n
  BY DEF NumberFree
<1>4. n \notin 1..deliverable[d].latest
  BY <1>2, <1>3 DEF Numbered
<1>5. n \in Nat /\ n >= 1 /\ deliverable[d].latest \in Nat
  BY FileRowsTyped, FilesAssumption
<1> QED BY <1>4, <1>5

\* Versions, latest versions and tasks stay in step when the next version of
\* a deliverable is written.
LEMMA VersionContinues ==
  ASSUME FilesInductive, NEW d \in Deliverables, NEW n \in 1..MaxVersion, NEW u,
         n = deliverable[d].latest + 1, NumberFree(d, n),
         versions' = versions \cup {[target |-> d, number |-> n, upload |-> u]},
         deliverable' = [deliverable EXCEPT ![d] = [status |-> "submitted", latest |-> n]],
         complete' = complete \cup ({d} \cap FileTasks)
  PROVE  VersionsInStep'
<1> DEFINE row == [target |-> d, number |-> n, upload |-> u]
           Rows(e) == {v \in versions : v.target = e}
           After(e) == {v \in versions' : v.target = e}
<1>1. /\ row.target = d /\ row.number = n
      /\ versions' = versions \cup {row}
  OBVIOUS
<1>2. \A e \in Deliverables :
        /\ Cardinality(Rows(e)) = deliverable[e].latest
        /\ Numbered(Rows(e), deliverable[e].latest)
        /\ deliverable[e].status \in {"absent", "pending"} <=> deliverable[e].latest = 0
        /\ e \in complete <=> e \in FileTasks /\ deliverable[e].latest > 0
  BY NumberedIsInterval DEF FilesInductive, FilesSafe, VersionsInStep
<1>3. /\ deliverable'[d].status = "submitted" /\ deliverable'[d].latest = n
      /\ \A e \in Deliverables : e # d => deliverable'[e] = deliverable[e]
  BY DEF FilesInductive, FilesSafe, FilesTypeOK
<1>4. n \in Nat /\ n > 0 /\ deliverable[d].latest \in Nat
  BY FileRowsTyped, FilesAssumption
<1> HIDE DEF row
<1>5. /\ Cardinality(After(d)) = n /\ Numbered(After(d), n)
  <2>1. IsFiniteSet(Rows(d))
    BY FS_Subset DEF FilesInductive
  <2>2. After(d) = Rows(d) \cup {row}
    BY <1>1
  <2>3. row \notin Rows(d)
    BY <1>1 DEF NumberFree
  <2>4. Numbered(Rows(d), deliverable[d].latest) /\ Cardinality(Rows(d)) = deliverable[d].latest
    BY <1>2
  <2> HIDE DEF Rows, After
  <2>5. Cardinality(After(d)) = n
    BY <2>1, <2>2, <2>3, <2>4, FS_AddElement
  <2>6. Numbered(After(d), n)
    BY <1>1, <1>4, <2>2, <2>4 DEF Numbered
  <2> QED BY <2>5, <2>6
<1>6. ASSUME NEW e \in Deliverables, e # d PROVE After(e) = Rows(e)
  BY <1>1, <1>6
<1>7. ASSUME NEW e \in Deliverables
      PROVE  /\ Cardinality(After(e)) = deliverable'[e].latest
             /\ Numbered(After(e), deliverable'[e].latest)
             /\ deliverable'[e].status \in {"absent", "pending"} <=> deliverable'[e].latest = 0
             /\ e \in complete' <=> e \in FileTasks /\ deliverable'[e].latest > 0
  <2> HIDE DEF Rows, After
  <2>1. CASE e = d
    <3>1. e \in complete' <=> e \in FileTasks /\ n > 0
      BY <1>4, <2>1 DEF FilesInductive, FilesSafe, FilesTypeOK
    <3> QED BY <1>3, <1>4, <1>5, <2>1, <3>1
  <2>2. CASE e # d
    <3>1. e \in complete' <=> e \in complete
      BY <2>2
    <3> QED BY <1>2, <1>3, <1>6, <2>2, <3>1
  <2> QED BY <2>1, <2>2
<1> QED BY <1>7, NumberedIsInterval DEF VersionsInStep

\* A finalization writes its version with the object it found, and hands a
\* headshot to the profile.
LEMMA FinalizeKeepsInductive ==
  ASSUME FilesInductive, NEW r \in Requests, FinalizeCommit(r),
         NEW u \in Uploads, NEW d \in Deliverables, NEW n \in 1..MaxVersion,
         request[r] = [at |-> "append", upload |-> u, target |-> d, number |-> n]
  PROVE  FilesInductive'
<1> DEFINE row == [target |-> d, number |-> n, upload |-> u]
<1>1. /\ u \in stored /\ auth[u].status # "absent" /\ auth[u].target = d
      /\ n <= deliverable[d].latest + 1
  BY FileRowsTyped DEF StillHolds
<1>2. /\ NumberFree(d, n)
      /\ file' = [file EXCEPT ![u] = "verified"]
      /\ versions' = versions \cup {row}
      /\ complete' = complete \cup ({d} \cap FileTasks)
      /\ auth' = [auth EXCEPT ![u].status = "finalized"]
      /\ request' = [request EXCEPT ![r] = NoRequest]
      /\ UNCHANGED <<stored, lapsed>>
  BY DEF FinalizeCommit, Ends, Goes
<1>3. n = deliverable[d].latest + 1 /\ deliverable[d].latest \in Nat
  BY <1>1, <1>2, FinalizeNumbersNext, FileRowsTyped
<1>4. deliverable' = [deliverable EXCEPT ![d] = [status |-> "submitted", latest |-> n]]
  <2>1. deliverable[d].latest = n - 1
    BY <1>3
  <2> QED BY <2>1 DEF FinalizeCommit
<1>5. \/ UNCHANGED <<headshot, snapshots>>
      \/ /\ SnapshotCount < MaxSnapshot /\ headshot' = u
         /\ snapshots' = snapshots \cup NewSnapshots(u, headshot, SnapshotCount)
  BY DEF FinalizeCommit, profileVars
<1>6. row \in versions' /\ versions \subseteq versions'
  BY <1>2
<1>7. row.upload = u /\ row.target = d /\ row.number = n
  OBVIOUS
<1>8. IsUploaded(u)'
  BY <1>6, <1>7 DEF IsUploaded
<1>9. /\ HeadshotIsVersioned' /\ IsFiniteSet(snapshots)'
      /\ SnapshotCount' \in Nat /\ SnapshotCount <= SnapshotCount'
      /\ SnapshotCount' = SnapshotCount => headshot' = headshot
      /\ headshot' \in Shot
      /\ snapshots' \subseteq [number : 1..(MaxSnapshot + 1), headshot : Shot]
      /\ \A x \in snapshots' : x.headshot # NoUpload => IsUploaded(x.headshot)'
  <2>1. CASE UNCHANGED <<headshot, snapshots>>
    <3>1. SnapshotCount' = SnapshotCount /\ SnapshotCount \in Nat
      BY <2>1, FileRowsTyped DEF SnapshotCount
    <3>2. HeadshotIsVersioned'
      BY <1>6, <2>1 DEF FilesInductive, FilesSafe, HeadshotIsVersioned, SnapshotCount
    <3>3. \A x \in snapshots' : x.headshot # NoUpload => IsUploaded(x.headshot)'
      BY <1>6, <2>1 DEF FilesInductive, IsUploaded
    <3>4. headshot' \in Shot /\ snapshots' \subseteq [number : 1..(MaxSnapshot + 1), headshot : Shot]
      BY <2>1 DEF FilesInductive, FilesSafe, FilesTypeOK, Shot
    <3>5. IsFiniteSet(snapshots)' /\ SnapshotCount <= SnapshotCount'
      BY <2>1, <3>1 DEF FilesInductive
    <3> QED BY <2>1, <3>1, <3>2, <3>3, <3>4, <3>5
  <2>2. CASE /\ SnapshotCount < MaxSnapshot /\ headshot' = u
             /\ snapshots' = snapshots \cup NewSnapshots(u, headshot, SnapshotCount)
    <3>1. u \in Shot /\ SnapshotCount <= MaxSnapshot /\ SnapshotCount \in Nat
      BY <2>2, FileRowsTyped, FilesAssumption DEF Shot
    <3>2. /\ HeadshotIsVersioned' /\ IsFiniteSet(snapshots)'
          /\ SnapshotCount' \in Nat /\ SnapshotCount < SnapshotCount'
          /\ headshot' \in Shot
          /\ snapshots' \subseteq [number : 1..(MaxSnapshot + 1), headshot : Shot]
          /\ \A x \in snapshots' : x.headshot # NoUpload => IsUploaded(x.headshot)'
      BY <1>6, <1>8, <2>2, <3>1, SnapshotKeepsProfile
    <3>3. SnapshotCount <= SnapshotCount' /\ SnapshotCount' # SnapshotCount
      BY <3>1, <3>2
    <3> QED BY <3>2, <3>3
  <2> QED BY <1>5, <2>1, <2>2
<1>10. VersionsInStep'
  BY <1>2, <1>3, <1>4, VersionContinues
<1>11. /\ deliverable' \in [Deliverables -> DeliverableRow]
       /\ \A e \in Deliverables :
            deliverable'[e].latest \in Nat /\ deliverable[e].latest <= deliverable'[e].latest
  <2>1. [status |-> "submitted", latest |-> n] \in DeliverableRow
    BY FilesAssumption DEF DeliverableRow
  <2>2. deliverable' \in [Deliverables -> DeliverableRow]
    BY <1>4, <2>1, RowsStay
  <2>3. /\ deliverable'[d].latest = n /\ n \in Nat /\ deliverable[d].latest <= n
        /\ \A e \in Deliverables : e # d => deliverable'[e] = deliverable[e]
    BY <1>3, <1>4, RowsStay
  <2>4. \A e \in Deliverables : deliverable[e].latest \in Nat
    BY FileRowsTyped
  <2> QED BY <2>2, <2>3, <2>4
<1>12. /\ auth' \in [Uploads -> AuthRow] /\ file' \in [Uploads -> FileStatus]
       /\ auth'[u].status = "finalized"
       /\ \A w \in Uploads :
            /\ auth'[w].target = auth[w].target
            /\ w # u => auth'[w] = auth[w] /\ file'[w] = file[w]
  BY <1>2, RowsStay DEF AuthRow, AuthStatus, FileStatus
<1>13. versions' \subseteq [target : Deliverables, number : 1..MaxVersion, upload : Uploads]
  BY <1>2 DEF FilesInductive, FilesSafe, FilesTypeOK
<1>14. Grows
  BY <1>2, <1>6, <1>9, <1>11, <1>12 DEF Grows
<1>15. /\ request' \in [Requests -> Jobs]
       /\ \A q \in Requests : StillHolds(request[q])'
  <2>1. NoRequest \in Jobs /\ StillHolds(NoRequest)'
    BY DEF Jobs, NoRequest, StillHolds
  <2> QED BY <1>2, <1>14, <2>1, RequestsHold
<1>16. FilesTypeOK'
  <2>1. complete' \subseteq FileTasks
    BY <1>2 DEF FilesInductive, FilesSafe, FilesTypeOK
  <2> QED BY <1>2, <1>9, <1>11, <1>12, <1>13, <2>1, RowsStay
       DEF FilesTypeOK, DeliverableRow, AuthRow, AuthStatus, FileStatus, Shot
<1>17. VersionsAreStored'
  <2>1. \A w \in Uploads : auth'[w].status \in {"uploaded", "finalized"} => w \in stored'
    BY <1>1, <1>2, <1>12, RowsStay
  <2>2. \A v \in versions' : v.upload \in stored' /\ auth'[v.upload].target = v.target
    BY <1>1, <1>2, <1>7, <1>12 DEF FilesInductive, FilesSafe, FilesTypeOK, VersionsAreStored
  <2>3. \A w \in Uploads : auth'[w].status = "finalized" => \E v \in versions' : v.upload = w
    BY <1>6, <1>7, <1>12 DEF FilesInductive, FilesSafe, VersionsAreStored
  <2> QED BY <2>1, <2>2, <2>3 DEF VersionsAreStored
<1>18. AuthorizedFirst'
  <2>1. \A w \in Uploads : auth'[w].status # "absent" => auth'[w].target \in Deliverables
    BY <1>1, <1>12, RowsStay
  <2>2. \A v \in versions' : auth'[v.upload].status # "absent"
    BY <1>2, <1>7, <1>12 DEF FilesInductive, FilesSafe, FilesTypeOK, AuthorizedFirst
  <2>3. \A w \in Uploads : file'[w] = "verified" => auth'[w].status # "absent"
    BY <1>12 DEF FilesInductive, AuthorizedFirst
  <2> QED BY <2>1, <2>2, <2>3 DEF AuthorizedFirst
<1>19. IsFiniteSet(versions)'
  BY <1>2, FS_AddElement DEF FilesInductive
<1>20. (\A x \in snapshots : x.headshot # NoUpload => IsUploaded(x.headshot))'
  BY <1>9 DEF IsUploaded
<1> QED BY <1>9, <1>10, <1>15, <1>16, <1>17, <1>18, <1>19, <1>20 DEF FilesInductive, FilesSafe

-----------------------------------------------------------------------------
(* The theorems.                                                           *)

\* Every step of an upload, a review or an edit keeps the invariant.
LEMMA FileStepKeeps ==
  ASSUME FilesInductive, [FilesNext]_filesVars
  PROVE  FilesInductive'
<1>1. ASSUME \/ \E d \in FileTasks : CreateFileRequest(d)
             \/ \E u \in Uploads : Lapse(u) \/ \E d \in FileTasks : RequestUpload(u, d)
      PROVE  FilesInductive'
  BY <1>1, DeskSteps
<1>2. ASSUME NEW r \in Requests,
             \/ \E u \in Uploads : HeadshotRead(r, u) \/ PutRead(r, u) \/ FinalizeRead(r, u)
             \/ MarkFails(r) \/ FinalizeCurrent(r)
             \/ \E d \in Deliverables : ReviewRead(r, d)
             \/ ProfileRead(r) \/ RestoreProfileRead(r) \/ GiveUp(r)
      PROVE  FilesInductive'
  BY <1>2, ReadSteps
<1>3. ASSUME NEW r \in Requests,
             \/ HeadshotAuthorize(r) \/ Expire(r) \/ PutOk(r) \/ PutFails(r)
             \/ MarkUploaded(r) \/ Reject(r) \/ ReviewCommit(r)
      PROVE  FilesInductive'
  BY <1>3, UploadSteps
<1>4. ASSUME NEW r \in Requests, ProfileCommit(r) \/ RestoreProfileCommit(r)
      PROVE  FilesInductive'
  BY <1>4, ProfileSteps
<1>5. ASSUME NEW r \in Requests, FinalizeCommit(r) PROVE FilesInductive'
  <2>1. request[r] \in AppendJob
    BY <1>5, FileRowsTyped, FileRequestsTyped DEF FinalizeCommit
  <2>2. PICK u \in Uploads, d \in Deliverables, n \in 1..MaxVersion :
          request[r] = [at |-> "append", upload |-> u, target |-> d, number |-> n]
    BY <2>1 DEF AppendJob
  <2> QED BY <1>5, <2>2, FinalizeKeepsInductive
<1>6. CASE UNCHANGED filesVars
  <2>1. UNCHANGED <<deliverable, complete, versions, auth, file, stored, lapsed, headshot,
                    snapshots, request>>
    BY <1>6 DEF filesVars
  <2>2. Quiet
    BY <2>1, RowsStay DEF Quiet, profileVars
  <2> QED BY <2>1, <2>2, QuietGrows, RequestsUnchanged, QuietKeepsInductive
<1> QED BY <1>1, <1>2, <1>3, <1>4, <1>5, <1>6 DEF FilesNext

\* The invariant of every behaviour of the files of a speaker.
THEOREM FilesInvariance == FilesSpec => []FilesInductive
<1>1. FilesInit => FilesInductive
  <2> SUFFICES ASSUME FilesInit PROVE FilesInductive
    OBVIOUS
  <2>1. /\ \A d \in Deliverables : deliverable[d] = [status |-> "absent", latest |-> 0]
        /\ complete = {} /\ versions = {} /\ stored = {} /\ lapsed = {}
        /\ headshot = NoUpload /\ snapshots = {}
        /\ \A u \in Uploads : auth[u].status = "absent" /\ file[u] = "absent"
        /\ \A r \in Requests : request[r] = NoRequest
    BY DEF FilesInit
  <2>2. FilesTypeOK
    BY <2>1, FilesAssumption DEF FilesInit, FilesTypeOK
  <2>3. Cardinality({}) = 0 /\ IsFiniteSet({}) /\ 1..0 = {}
    BY FS_EmptySet
  <2>4. VersionsInStep
    <3>1. \A d \in Deliverables : {v \in versions : v.target = d} = {}
      BY <2>1
    <3>2. {v.number : v \in {}} = {}
      OBVIOUS
    <3> QED BY <2>1, <2>3, <3>1, <3>2 DEF VersionsInStep
  <2>5. VersionsAreStored
    BY <2>1 DEF VersionsAreStored
  <2>6. HeadshotIsVersioned
    BY <2>1, <2>3 DEF HeadshotIsVersioned, SnapshotCount
  <2>7. request \in [Requests -> Jobs] /\ \A r \in Requests : StillHolds(request[r])
    BY <2>1 DEF FilesInit, Jobs, NoRequest, StillHolds
  <2>8. AuthorizedFirst
    BY <2>1 DEF AuthorizedFirst
  <2> QED BY <2>1, <2>2, <2>3, <2>4, <2>5, <2>6, <2>7, <2>8 DEF FilesInductive, FilesSafe
<1> QED BY <1>1, FileStepKeeps, PTL DEF FilesSpec

\* However uploads, finalizations, reviews, edits and restores overlap and are
\* cut off, versions have no gaps and their objects, tasks wait exactly for
\* what is missing, and the headshot is the one of the last snapshot.
THEOREM FilesAreSafe == FilesSpec => []FilesSafe
<1>1. FilesInductive => FilesSafe
  BY DEF FilesInductive
<1> QED BY <1>1, FilesInvariance, PTL

\* A verified file is rejected only by an upload that read the authorization
\* before it was through.
THEOREM StaleUploadsReject == FilesSpec => OnlyStaleUploadRejects
<1>1. ASSUME FilesInductive, [FilesNext]_filesVars
      PROVE  [\A u \in Uploads : file[u] = "verified" /\ file'[u] # "verified" =>
                \E r \in Requests :
                  /\ request[r].at = "reject" /\ request[r].upload = u
                  /\ request[r].seen \notin {"uploaded", "finalized"}]_filesVars
  <2> SUFFICES ASSUME NEW u \in Uploads, file[u] = "verified", file'[u] # "verified"
               PROVE  \E r \in Requests :
                        /\ request[r].at = "reject" /\ request[r].upload = u
                        /\ request[r].seen \notin {"uploaded", "finalized"}
    OBVIOUS
  <2>1. auth[u].status # "absent" /\ file \in [Uploads -> FileStatus]
    BY <1>1, RowsStay DEF FilesInductive, AuthorizedFirst
  <2>2. ASSUME NEW w, NEW d, Authorized(w, d) PROVE FALSE
    BY <2>1, <2>2 DEF Authorized
  <2>3. ASSUME NEW r \in Requests, FinalizeCommit(r) PROVE FALSE
    BY <2>1, <2>3 DEF FinalizeCommit
  <2>4. PICK r \in Requests : Reject(r)
    BY <1>1, <2>2, <2>3 DEF FilesNext, filesVars, CreateFileRequest, RequestUpload, HeadshotRead,
       HeadshotAuthorize, Lapse, PutRead, Expire, PutOk, PutFails, MarkUploaded, MarkFails,
       FinalizeRead, FinalizeCurrent, ReviewRead, ReviewCommit, ProfileRead, RestoreProfileRead,
       ProfileCommit, RestoreProfileCommit, GiveUp, uploadVars
  <2>5. request[r].upload = u
    BY <2>1, <2>4 DEF Reject
  <2>6. request[r] \in PutJob
    BY <1>1, <2>4, FileRowsTyped, FileRequestsTyped DEF Reject
  <2> QED BY <2>4, <2>5, <2>6 DEF Reject, PutJob, FoundStatus
<1> QED BY <1>1, FilesInvariance, PTL DEF FilesSpec, OnlyStaleUploadRejects
=============================================================================

------------------------- MODULE SubmissionsProofs --------------------------
(***************************************************************************)
(* Proofs about the form, the proposals and the portal of a speaker        *)
(* (CfpForm, Proposals, Portal) and the catalog that accepted sessions     *)
(* refer to (EventCatalog), for every value of their constants, and about  *)
(* the services that are composed of them (MCServices).                    *)
(***************************************************************************)
EXTENDS MCServices, NumberInduction, FiniteSetTheorems, TLAPS

-----------------------------------------------------------------------------
(***************************************************************************)
(* CfpForm: organizers save, publish and close the form of the event.      *)
(***************************************************************************)

(* The inductive invariant.                                                *)

\* What a request holds at each of its steps.
Call ==
  {Resting} \cup [at : {"publish"}]
  \cup [at : {"close"}, revision : Nat]
  \cup [at : {"fields"}, columns : Content, revision : Nat]
  \cup [at : {"number"}, columns : Content, revision : Nat, fields : Content]
  \cup [at : {"commit"}, columns : Content, revision : Nat, fields : Content, number : Nat]

FormInductive ==
  /\ form \in [status : {"none", "draft", "published", "closed"}, revision : Nat,
               columns : Content, fields : Content]
  /\ versions \in Seq(Definition)
  /\ page \in [Organizers -> [content : Content, revision : Nat]]
  /\ call \in [Organizers -> Call]

\* A request that holds a revision holds a number.
LEMMA HeldRevision ==
  ASSUME FormInductive, NEW o \in Organizers
  PROVE  /\ call[o] \in Call
         /\ call[o].at \in {"close", "fields", "number", "commit"} => call[o].revision \in Nat
         /\ call[o].at \in {"fields", "number", "commit"} => call[o].columns \in Content
         /\ call[o].at \in {"number", "commit"} => call[o].fields \in Content
  BY DEF FormInductive, Call, Resting

\* A save writes a content of the page as columns and fields.
LEMMA SaveKeepsInductive ==
  ASSUME FormInductive, NEW o \in Organizers, NEW c \in Contents, NEW publish \in BOOLEAN,
         Persist(o, c, publish)
  PROVE  FormInductive'
<1>1. form'.columns \in Content /\ form' \in [status : {"none", "draft", "published", "closed"},
         revision : Nat, columns : Content, fields : Content]
  BY DEF Persist, Writes, FormInductive, Content
<1>2. page' = [page EXCEPT ![o] = [content |-> form'.columns, revision |-> form'.revision]]
  BY DEF Persist, Writes, Shown
<1>3. page' \in [Organizers -> [content : Content, revision : Nat]]
  BY <1>1, <1>2 DEF FormInductive
<1>4. call' \in [Organizers -> Call]
  BY DEF Persist, FormInductive, Call
<1>5. versions' = versions
  BY DEF Persist, Writes
<1> QED BY <1>1, <1>3, <1>4, <1>5 DEF FormInductive

\* A read adds what it read to what its request holds.
LEMMA ReadKeepsInductive ==
  ASSUME FormInductive, NEW o \in Organizers,
         ReadsColumns(o) \/ ReadsFields(o) \/ ReadsNumber(o) \/ CloseReads(o) \/ PublishFails(o)
  PROVE  FormInductive'
<1>1. \E held \in Call : call' = [call EXCEPT ![o] = held]
  <2>1. CASE ReadsColumns(o)
    BY <2>1 DEF ReadsColumns, FormInductive, Call
  <2>2. CASE ReadsFields(o)
    BY <2>2, HeldRevision DEF ReadsFields, FormInductive, Call
  <2>3. CASE ReadsNumber(o)
    <3>1. Len(versions) + 1 \in Nat
      BY DEF FormInductive
    <3>2. call[o].columns \in Content /\ call[o].fields \in Content /\ call[o].revision \in Nat
      BY <2>3, HeldRevision DEF ReadsNumber
    <3> QED BY <2>3, <3>1, <3>2 DEF ReadsNumber, Call
  <2>4. CASE CloseReads(o)
    BY <2>4 DEF CloseReads, FormInductive, Call
  <2>5. CASE PublishFails(o)
    BY <2>5 DEF PublishFails, Call
  <2> QED BY <2>1, <2>2, <2>3, <2>4, <2>5
<1>2. UNCHANGED <<form, versions, page>>
  BY DEF ReadsColumns, ReadsFields, ReadsNumber, CloseReads, PublishFails
<1> QED BY <1>1, <1>2 DEF FormInductive

\* A publish or a close that commits writes the successor of the revision it
\* read.
LEMMA CommitKeepsInductive ==
  ASSUME FormInductive, NEW o \in Organizers, PublishCommits(o) \/ CloseWrites(o)
  PROVE  FormInductive'
<1>1. call[o].revision \in Nat
  BY HeldRevision DEF PublishCommits, CloseWrites
<1>2. form' \in [status : {"none", "draft", "published", "closed"}, revision : Nat,
                 columns : Content, fields : Content]
  <2>1. \E status \in {"published", "closed"} :
          form' = [form EXCEPT !.status = status, !.revision = call[o].revision + 1]
    BY DEF PublishCommits, CloseWrites, WritesSuccessor
  <2>2. call[o].revision + 1 \in Nat
    BY <1>1
  <2> QED BY <2>1, <2>2 DEF FormInductive
<1>3. page' = [page EXCEPT ![o] = [content |-> form'.columns, revision |-> form'.revision]]
  BY DEF PublishCommits, CloseWrites, WritesSuccessor, Shown
<1>4. page' \in [Organizers -> [content : Content, revision : Nat]]
  BY <1>2, <1>3 DEF FormInductive
<1>5. call' \in [Organizers -> Call]
  <2>1. Resting \in Call /\ call' = [call EXCEPT ![o] = Resting]
    BY DEF PublishCommits, CloseWrites, Call
  <2> QED BY <2>1 DEF FormInductive
<1>6. versions' \in Seq(Definition)
  <2>1. CASE PublishCommits(o)
    <3>1. [columns |-> call[o].columns, fields |-> call[o].fields] \in Definition
      BY <2>1, HeldRevision DEF PublishCommits, Definition
    <3> QED BY <2>1, <3>1 DEF PublishCommits, FormInductive
  <2>2. CASE CloseWrites(o)
    BY <2>2 DEF CloseWrites, FormInductive
  <2> QED BY <2>1, <2>2
<1> QED BY <1>2, <1>4, <1>5, <1>6 DEF FormInductive

\* The builder shows the row.
LEMMA LoadKeepsInductive ==
  ASSUME FormInductive, NEW o \in Organizers, LoadPage(o)
  PROVE  FormInductive'
<1>1. Shown \in [content : Content, revision : Nat]
  BY DEF Shown, FormInductive
<1> QED BY <1>1 DEF LoadPage, FormInductive

\* The invariant of every behaviour of the form.
THEOREM FormInvariance == CfpFormSpec => []FormInductive
<1>1. CfpFormInit => FormInductive
  BY DEF CfpFormInit, FormInductive, Content, Blank, Call
<1>2. FormInductive /\ [CfpFormNext]_formVars => FormInductive'
  <2> SUFFICES ASSUME FormInductive, [CfpFormNext]_formVars PROVE FormInductive'
    OBVIOUS
  <2>1. ASSUME NEW o \in Organizers, LoadPage(o) PROVE FormInductive'
    BY <2>1, LoadKeepsInductive
  <2>2. ASSUME NEW o \in Organizers, NEW c \in Contents, NEW publish \in BOOLEAN,
               Persist(o, c, publish)
        PROVE  FormInductive'
    BY <2>2, SaveKeepsInductive
  <2>3. ASSUME NEW o \in Organizers,
               ReadsColumns(o) \/ ReadsFields(o) \/ ReadsNumber(o)
                 \/ CloseReads(o) \/ PublishFails(o)
        PROVE  FormInductive'
    BY <2>3, ReadKeepsInductive
  <2>4. ASSUME NEW o \in Organizers, PublishCommits(o) \/ CloseWrites(o)
        PROVE  FormInductive'
    BY <2>4, CommitKeepsInductive
  <2>5. CASE UNCHANGED formVars
    BY <2>5 DEF formVars, FormInductive
  <2> QED BY <2>1, <2>2, <2>3, <2>4, <2>5 DEF CfpFormNext
<1> QED BY <1>1, <1>2, PTL DEF CfpFormSpec

-----------------------------------------------------------------------------
(* The two action properties.                                              *)

\* A version that was published stays what it is and keeps its number,
\* whichever publishes overlap, because the only action that writes a version
\* appends it.
THEOREM PublishedVersionsStay == CfpFormSpec => VersionsImmutable
<1>1. ASSUME FormInductive, [CfpFormNext]_formVars
      PROVE  [/\ Len(versions') \in {Len(versions), Len(versions) + 1}
              /\ \A n \in 1..Len(versions) : versions'[n] = versions[n]]_formVars
  <2>1. versions \in Seq(Definition)
    BY <1>1 DEF FormInductive
  <2>2. ASSUME NEW o \in Organizers, PublishCommits(o)
        PROVE  /\ Len(versions') = Len(versions) + 1
               /\ \A n \in 1..Len(versions) : versions'[n] = versions[n]
    <3> DEFINE new == [columns |-> call[o].columns, fields |-> call[o].fields]
    <3>1. versions' = Append(versions, new) /\ new \in Definition
      BY <1>1, <2>2, HeldRevision DEF PublishCommits, Definition
    <3> QED BY <2>1, <3>1
  <2>3. CASE versions' = versions
    BY <2>1, <2>3
  <2>4. versions' = versions \/ \E o \in Organizers : PublishCommits(o)
    BY <1>1 DEF CfpFormNext, formVars, LoadPage, Persist, Writes, ReadsColumns, ReadsFields,
       ReadsNumber, PublishFails, CloseReads, CloseWrites
  <2> QED BY <2>1, <2>2, <2>3, <2>4
<1> QED BY <1>1, FormInvariance, PTL DEF CfpFormSpec, VersionsImmutable

\* While no publish and no close took the revision back, nobody is ahead of the
\* row, and a page at its revision shows its content.
UpToDate ==
  ~rewound =>
    \A o \in Organizers :
      /\ page[o].revision <= form.revision
      /\ page[o].revision = form.revision => page[o].content = form.columns
      /\ call[o].at \in {"close", "fields", "number", "commit"} =>
           call[o].revision <= form.revision

\* A save writes the revision after the one that every page is at or behind.
LEMMA SaveStaysUpToDate ==
  ASSUME FormInductive, UpToDate, NEW o \in Organizers, NEW c \in Contents,
         NEW publish \in BOOLEAN, Persist(o, c, publish)
  PROVE  UpToDate'
<1> SUFFICES ASSUME ~rewound', NEW p \in Organizers
             PROVE  /\ page'[p].revision <= form'.revision
                    /\ page'[p].revision = form'.revision => page'[p].content = form'.columns
                    /\ call'[p].at \in {"close", "fields", "number", "commit"} =>
                         call'[p].revision <= form'.revision
  BY DEF UpToDate
<1>1. ~rewound
  BY DEF Persist, Writes
<1>2. form'.revision = form.revision + 1 /\ form'.columns = c
  BY DEF Persist, Writes, Current
<1>3. page' = [page EXCEPT ![o] = [content |-> form'.columns, revision |-> form'.revision]]
  BY DEF Persist, Writes, Shown
<1>4. call'[p] = call[p] \/ call'[p].at \in {"publish", "rest"}
  BY DEF Persist, FormInductive, Resting
<1>5. form.revision \in Nat /\ page[p].revision \in Nat
  BY DEF FormInductive
<1>6. page[p].revision <= form.revision
  BY <1>1 DEF UpToDate
<1>7. /\ page'[p].revision <= form'.revision
      /\ page'[p].revision = form'.revision => page'[p].content = form'.columns
  <2>1. CASE p = o
    BY <2>1, <1>2, <1>3, <1>5 DEF FormInductive
  <2>2. CASE p # o
    <3>1. page'[p] = page[p]
      BY <2>2, <1>3 DEF FormInductive
    <3> QED BY <3>1, <1>2, <1>5, <1>6
  <2> QED BY <2>1, <2>2
<1>8. ASSUME call'[p].at \in {"close", "fields", "number", "commit"}
      PROVE  call'[p].revision <= form'.revision
  <2>1. call'[p] = call[p]
    BY <1>4, <1>8
  <2>2. call[p].revision <= form.revision /\ call[p].revision \in Nat
    BY <1>1, <1>8, <2>1, HeldRevision DEF UpToDate
  <2> QED BY <2>1, <2>2, <1>2, <1>5
<1> QED BY <1>7, <1>8

\* A commit that does not take the revision back read the row at its revision or
\* one behind it, and it keeps the columns.
LEMMA CommitStaysUpToDate ==
  ASSUME FormInductive, UpToDate, NEW o \in Organizers, PublishCommits(o) \/ CloseWrites(o)
  PROVE  UpToDate'
<1> SUFFICES ASSUME ~rewound', NEW p \in Organizers
             PROVE  /\ page'[p].revision <= form'.revision
                    /\ page'[p].revision = form'.revision => page'[p].content = form'.columns
                    /\ call'[p].at \in {"close", "fields", "number", "commit"} =>
                         call'[p].revision <= form'.revision
  BY DEF UpToDate
<1>1. ~rewound /\ ~ (form'.revision < form.revision)
  BY DEF PublishCommits, CloseWrites, WritesSuccessor
<1>2. form'.revision = call[o].revision + 1 /\ form'.columns = form.columns
  BY DEF PublishCommits, CloseWrites, WritesSuccessor, FormInductive
<1>3. page' = [page EXCEPT ![o] = [content |-> form'.columns, revision |-> form'.revision]]
  BY DEF PublishCommits, CloseWrites, WritesSuccessor, Shown
<1>4. call' = [call EXCEPT ![o] = Resting]
  BY DEF PublishCommits, CloseWrites
<1>5. form.revision \in Nat /\ page[p].revision \in Nat /\ call[o].revision \in Nat
  BY HeldRevision DEF FormInductive, PublishCommits, CloseWrites
<1>6. form.revision <= form'.revision
  BY <1>1, <1>2, <1>5
<1>7. /\ page[p].revision <= form.revision
      /\ page[p].revision = form.revision => page[p].content = form.columns
  BY <1>1 DEF UpToDate
<1>8. /\ page'[p].revision <= form'.revision
      /\ page'[p].revision = form'.revision => page'[p].content = form'.columns
  <2>1. CASE p = o
    BY <2>1, <1>2, <1>3, <1>5 DEF FormInductive
  <2>2. CASE p # o
    <3>1. page'[p] = page[p]
      BY <2>2, <1>3 DEF FormInductive
    <3> QED BY <3>1, <1>2, <1>5, <1>6, <1>7
  <2> QED BY <2>1, <2>2
<1>9. ASSUME call'[p].at \in {"close", "fields", "number", "commit"}
      PROVE  call'[p].revision <= form'.revision
  <2>1. call'[p] = call[p]
    BY <1>4, <1>9 DEF FormInductive, Resting
  <2>2. call[p].revision <= form.revision /\ call[p].revision \in Nat
    BY <1>1, <1>9, <2>1, HeldRevision DEF UpToDate
  <2> QED BY <2>1, <2>2, <1>2, <1>5, <1>6
<1> QED BY <1>8, <1>9

\* A read of the row takes its revision, and a page that is loaded its content too.
LEMMA ReadStaysUpToDate ==
  ASSUME FormInductive, UpToDate, NEW o \in Organizers,
         \/ LoadPage(o) \/ ReadsColumns(o) \/ ReadsFields(o) \/ ReadsNumber(o)
         \/ CloseReads(o) \/ PublishFails(o)
  PROVE  UpToDate'
<1> SUFFICES ASSUME ~rewound', NEW p \in Organizers
             PROVE  /\ page'[p].revision <= form'.revision
                    /\ page'[p].revision = form'.revision => page'[p].content = form'.columns
                    /\ call'[p].at \in {"close", "fields", "number", "commit"} =>
                         call'[p].revision <= form'.revision
  BY DEF UpToDate
<1>1. ~rewound /\ form' = form
  BY DEF LoadPage, ReadsColumns, ReadsFields, ReadsNumber, CloseReads, PublishFails
<1>2. form.revision \in Nat
  BY DEF FormInductive
<1>3. page'[p] = page[p] \/ page'[p] = [content |-> form.columns, revision |-> form.revision]
  BY DEF LoadPage, Shown, FormInductive, ReadsColumns, ReadsFields, ReadsNumber, CloseReads,
     PublishFails
<1>4. /\ page[p].revision <= form.revision
      /\ page[p].revision = form.revision => page[p].content = form.columns
  BY <1>1 DEF UpToDate
<1>5. ASSUME call'[p].at \in {"close", "fields", "number", "commit"}
      PROVE  call'[p].revision <= form.revision
  <2>1. \/ call'[p] = call[p] \/ call'[p].revision = form.revision
        \/ call[p].at \in {"fields", "number"} /\ call'[p].revision = call[p].revision
    BY <1>5 DEF LoadPage, FormInductive, ReadsColumns, ReadsFields, ReadsNumber, CloseReads,
       PublishFails, Resting
  <2>2. call[p].at \in {"close", "fields", "number", "commit"} => call[p].revision <= form.revision
    BY <1>1 DEF UpToDate
  <2>3. CASE call'[p] = call[p]
    BY <2>2, <2>3, <1>5
  <2>4. CASE call'[p].revision = form.revision
    BY <2>4, <1>2
  <2>5. CASE call[p].at \in {"fields", "number"} /\ call'[p].revision = call[p].revision
    BY <2>2, <2>5
  <2> QED BY <2>1, <2>3, <2>4, <2>5
<1> QED BY <1>1, <1>2, <1>3, <1>4, <1>5

\* Nobody saves over what their page does not show, as long as no publish and no
\* close took the revision back: then a page at the revision of the row shows it.
THEOREM SavesReplaceWhatIsShown == CfpFormSpec => SavesSeeWhatTheyReplace
<1>1. CfpFormInit => UpToDate
  <2> SUFFICES ASSUME CfpFormInit, NEW o \in Organizers
               PROVE  /\ page[o].revision <= form.revision
                      /\ page[o].revision = form.revision => page[o].content = form.columns
                      /\ call[o].at \in {"close", "fields", "number", "commit"} =>
                           call[o].revision <= form.revision
    BY DEF UpToDate
  <2>1. page[o] = Blank /\ call[o] = Resting
    BY DEF CfpFormInit
  <2>2. form.revision = 0 /\ form.columns = "blank"
    BY DEF CfpFormInit
  <2> QED BY <2>1, <2>2 DEF Blank, Resting
<1>2. FormInductive /\ UpToDate /\ [CfpFormNext]_formVars => UpToDate'
  <2> SUFFICES ASSUME FormInductive, UpToDate, [CfpFormNext]_formVars PROVE UpToDate'
    OBVIOUS
  <2>1. CASE UNCHANGED formVars
    BY <2>1 DEF formVars, UpToDate
  <2>2. ASSUME NEW o \in Organizers, NEW c \in Contents, NEW publish \in BOOLEAN,
               Persist(o, c, publish)
        PROVE  UpToDate'
    BY <2>2, SaveStaysUpToDate
  <2>3. ASSUME NEW o \in Organizers, PublishCommits(o) \/ CloseWrites(o)
        PROVE  UpToDate'
    BY <2>3, CommitStaysUpToDate
  <2>4. ASSUME NEW o \in Organizers,
               \/ LoadPage(o) \/ ReadsColumns(o) \/ ReadsFields(o) \/ ReadsNumber(o)
               \/ CloseReads(o) \/ PublishFails(o)
        PROVE  UpToDate'
    BY <2>4, ReadStaysUpToDate
  <2> QED BY <2>1, <2>2, <2>3, <2>4 DEF CfpFormNext
<1>3. ASSUME UpToDate
      PROVE  [~rewound => \A o \in Organizers, c \in Contents, publish \in BOOLEAN :
                Persist(o, c, publish) => page[o].content = form.columns]_formVars
  BY <1>3 DEF UpToDate, Persist, Current
<1> QED BY <1>1, <1>2, <1>3, FormInvariance, PTL DEF CfpFormSpec, SavesSeeWhatTheyReplace

-----------------------------------------------------------------------------
(***************************************************************************)
(* Proposals: the proposals to the form, for every set of definitions,     *)
(* requests and proposals.                                                 *)
(***************************************************************************)

Creates == [at : {"create"}, draft : BOOLEAN, answers : SUBSET Keys, version : 1..Len(published)]
Updates == [at : {"update"}, of : Proposals, draft : BOOLEAN, answers : SUBSET Keys,
            was : {"draft", "submitted"}, current : Nat, reminds : BOOLEAN]

\* What a request has checked still holds of the version of the form it is for; an update
\* that may still be saved knows the state it found.
RequestFits(r) ==
  \/ request[r] = NoRequest
  \/ /\ request[r] \in Creates
     /\ Valid(published[request[r].version], request[r].answers, request[r].draft)
  \/ /\ request[r] \in Updates
     /\ proposal[request[r].of].state # "absent"
     /\ Valid(OwnDefinition(request[r].of), request[r].answers, request[r].draft)
     /\ request[r].current \in 1..proposal[request[r].of].current
     /\ request[r].current = proposal[request[r].of].current =>
          request[r].was = proposal[request[r].of].state
     /\ request[r].was = "submitted" => ~request[r].draft
     /\ decided[request[r].of] # 0 => request[r].current <= decided[request[r].of]

\* Its events tell of one submission, and of every version after it.
TellsOnce(s) ==
  IF proposal[s].state # "submitted"
  THEN \A e \in notice : e.of = s => e.kind = "reminder"
  ELSE \E first \in 1..proposal[s].current :
         /\ \E e \in notice : e.of = s /\ e.kind \in Entered /\ e.number = first
         /\ \A e \in notice : e.of = s =>
              /\ e.kind \in Entered => e.number = first
              /\ e.kind = "updated" => e.number \in (first + 1)..proposal[s].current
         /\ \A n \in (first + 1)..proposal[s].current : Event("updated", s, n) \in notice

\* Of one proposal: its versions, answers, events and decision.
ProposalFits(s) ==
  /\ numbers[s] = 1..proposal[s].current /\ TellsOnce(s)
  /\ IF proposal[s].state = "absent"
     THEN proposal[s].current = 0 /\ \A e \in notice : e.of # s
     ELSE proposal[s].current >= 1 /\ proposal[s].version \in 1..Len(published)
  /\ proposal[s].state = "submitted" => proposal[s].answers = OwnDefinition(s).needs
  /\ decided[s] # 0 => proposal[s].state = "submitted" /\ proposal[s].current <= decided[s] + 1

\* The requests that are about to submit a proposal.
Submitting ==
  {r \in Requests : /\ request[r].at # "rest" /\ ~request[r].draft
                    /\ request[r].at = "update" => request[r].was = "draft"}

Own == {s \in Proposals : /\ proposal[s].state = "submitted"
                          /\ Event("manually_entered", s, 1) \notin notice}
Limits == {published[i].limit : i \in 1..Len(published)}

\* Each of them has found room before.
RoomLeft ==
  0 \notin Limits =>
    \E n \in Limits : Cardinality(Own) + Cardinality(Submitting) <= n + Cardinality(Requests) - 1

ProposalsTyped ==
  /\ published \in Seq(Definitions) /\ Len(published) >= 1 /\ window \in {"open", "shut", "closed"}
  /\ proposal \in [Proposals ->
       [state : {"absent", "draft", "submitted"}, version : Nat, current : Nat,
        answers : SUBSET Keys]]
  /\ numbers \in [Proposals -> SUBSET Nat] /\ decided \in [Proposals -> Nat]
  /\ notice \subseteq Events
  /\ request = [r \in Requests |-> request[r]]

ProposalsInductive ==
  /\ ProposalsTyped
  /\ \A r \in Requests : RequestFits(r)
  /\ \A s \in Proposals : ProposalFits(s)
  /\ RoomLeft

-----------------------------------------------------------------------------
(* What stays.                                                             *)

\* Definitions are only ever added.
Longer ==
  /\ Len(published) <= Len(published')
  /\ \A i \in 1..Len(published) : published'[i] = published[i]

\* A proposal may gain versions and a decision.
Forward(p) ==
  proposal[p].state # "absent" =>
    /\ proposal'[p].state # "absent" /\ proposal'[p].version = proposal[p].version
    /\ proposal[p].current <= proposal'[p].current
    /\ proposal'[p].current = proposal[p].current => proposal'[p].state = proposal[p].state
    /\ decided'[p] = decided[p] \/ decided'[p] >= proposal[p].current

\* Or it may have nothing done to it.
Untouched(p) ==
  /\ proposal'[p] = proposal[p] /\ numbers'[p] = numbers[p] /\ decided'[p] = decided[p]
  /\ \A e \in notice' : e.of = p => e \in notice

\* A proposal that nothing is done to is as fit as it was.
LEMMA ProposalFitsStill ==
  ASSUME NEW p \in Proposals, ProposalsTyped, ProposalFits(p), Untouched(p), notice \subseteq notice',
         Longer
  PROVE  ProposalFits(p)'
<1>1. /\ proposal'[p] = proposal[p] /\ numbers'[p] = numbers[p] /\ decided'[p] = decided[p]
      /\ \A e \in notice' : e.of = p => e \in notice
  BY DEF Untouched
<1>2. TellsOnce(p) => TellsOnce(p)'
  <2>1. \A e : e \in notice' /\ e.of = p <=> e \in notice /\ e.of = p
    BY <1>1
  <2>2. CASE proposal[p].state # "submitted"
    BY <1>1, <2>1, <2>2 DEF TellsOnce
  <2>3. ASSUME proposal[p].state = "submitted", TellsOnce(p) PROVE TellsOnce(p)'
    <3>1. PICK first \in 1..proposal[p].current :
            /\ \E e \in notice : e.of = p /\ e.kind \in Entered /\ e.number = first
            /\ \A e \in notice : e.of = p =>
                 /\ e.kind \in Entered => e.number = first
                 /\ e.kind = "updated" => e.number \in (first + 1)..proposal[p].current
            /\ \A n \in (first + 1)..proposal[p].current : Event("updated", p, n) \in notice
      BY <2>3 DEF TellsOnce
    <3>2. /\ \E e \in notice' : e.of = p /\ e.kind \in Entered /\ e.number = first
          /\ \A e \in notice' : e.of = p =>
               /\ e.kind \in Entered => e.number = first
               /\ e.kind = "updated" => e.number \in (first + 1)..proposal'[p].current
          /\ \A n \in (first + 1)..proposal'[p].current : Event("updated", p, n) \in notice'
      BY <1>1, <2>1, <3>1
    <3> QED BY <1>1, <2>3, <3>1, <3>2 DEF TellsOnce, Entered, Event
  <2> QED BY <2>2, <2>3
<1>3. proposal[p].state # "absent" =>
        proposal[p].version \in 1..Len(published') /\ OwnDefinition(p)' = OwnDefinition(p)
  BY <1>1 DEF ProposalFits, Longer, OwnDefinition, ProposalsTyped
<1> QED BY <1>1, <1>2, <1>3 DEF ProposalFits

\* A request that does not move is as fit as it was.
LEMMA RequestFitsStill ==
  ASSUME NEW r \in Requests, ProposalsTyped, ProposalsTyped', RequestFits(r),
         request'[r] = request[r], Longer,
         \A p \in Proposals : Forward(p) /\ ProposalFits(p)
  PROVE  RequestFits(r)'
<1>1. CASE request[r] = NoRequest
  BY <1>1 DEF RequestFits, NoRequest
<1>2. PICK j : j = request[r]
  OBVIOUS
<1>3. CASE j \in Creates /\ Valid(published[j.version], j.answers, j.draft)
  <2>1. j \in Creates' /\ j.version \in 1..Len(published)
    BY <1>3 DEF Creates, Longer, ProposalsTyped
  <2>2. Valid(published'[j.version], j.answers, j.draft)
    BY <1>3, <2>1 DEF Longer
  <2>3. request'[r] \in Creates' /\ Valid(published[request[r].version], request[r].answers, request[r].draft)'
    BY <1>2, <2>1, <2>2 DEF Valid
  <2> QED BY <2>3 DEF RequestFits
<1>4. CASE /\ j \in Updates /\ proposal[j.of].state # "absent"
           /\ Valid(OwnDefinition(j.of), j.answers, j.draft)
           /\ j.current \in 1..proposal[j.of].current
           /\ j.current = proposal[j.of].current => j.was = proposal[j.of].state
           /\ j.was = "submitted" => ~j.draft
           /\ decided[j.of] # 0 => j.current <= decided[j.of]
  <2>1. PICK p \in Proposals : p = j.of
    BY <1>4 DEF Updates
  <2>2. Forward(p) /\ ProposalFits(p)
    OBVIOUS
  <2>3. /\ proposal'[p].state # "absent" /\ proposal'[p].version = proposal[p].version
        /\ proposal[p].current <= proposal'[p].current
        /\ proposal'[p].current = proposal[p].current => proposal'[p].state = proposal[p].state
        /\ decided'[p] = decided[p] \/ decided'[p] >= proposal[p].current
        /\ proposal[p].version \in 1..Len(published)
        /\ proposal[p].current \in Nat /\ proposal'[p].current \in Nat
        /\ decided[p] \in Nat /\ decided'[p] \in Nat /\ j.current \in Nat
    BY <1>4, <2>1, <2>2 DEF Forward, ProposalFits, ProposalsTyped, Updates
  <2>4. published'[proposal'[p].version] = published[proposal[p].version]
    BY <2>3 DEF Longer
  <2>5. j.current \in 1..proposal'[p].current
    BY <1>4, <2>1, <2>3
  <2>6. j.current = proposal'[p].current => j.was = proposal'[p].state
    BY <1>4, <2>1, <2>3
  <2>7. decided'[p] # 0 => j.current <= decided'[p]
    BY <1>4, <2>1, <2>3
  <2>8. Valid(published'[proposal'[p].version], j.answers, j.draft)
    BY <1>4, <2>1, <2>4 DEF OwnDefinition
  <2>9. Updates' = Updates
    BY DEF Updates
  <2>10. Valid(OwnDefinition(request[r].of), request[r].answers, request[r].draft)'
    BY <1>2, <2>1, <2>8 DEF Valid, OwnDefinition
  <2> QED BY <1>2, <1>4, <2>1, <2>3, <2>5, <2>6, <2>7, <2>9, <2>10 DEF RequestFits
<1> QED BY <1>1, <1>2, <1>3, <1>4 DEF RequestFits

\* A step of one request, on one proposal at most.
LEMMA ProposalStep ==
  ASSUME ProposalsInductive, ProposalsTyped', Longer, notice \subseteq notice',
         \A p \in Proposals : Untouched(p) \/ (Forward(p) /\ ProposalFits(p)'),
         \A r \in Requests : request'[r] # request[r] => RequestFits(r)',
         RoomLeft'
  PROVE  ProposalsInductive'
<1>1. ASSUME NEW p \in Proposals PROVE Forward(p) /\ ProposalFits(p)'
  <2>1. ProposalFits(p) /\ ProposalsTyped
    BY DEF ProposalsInductive
  <2>2. CASE Untouched(p)
    <3>1. Forward(p)
      BY <2>1, <2>2 DEF Untouched, Forward, ProposalsTyped
    <3> QED BY <2>1, <2>2, <3>1, ProposalFitsStill
  <2> QED BY <2>2
<1>2. \A r \in Requests : RequestFits(r)'
  BY <1>1, RequestFitsStill DEF ProposalsInductive
<1> QED BY <1>1, <1>2 DEF ProposalsInductive

-----------------------------------------------------------------------------
(* The room left by the limits.                                            *)

\* The sets that are counted are finite, and the limits numbers.
LEMMA RoomTyped ==
  ASSUME ProposalsTyped
  PROVE  /\ \A S \in SUBSET Proposals : IsFiniteSet(S) /\ Cardinality(S) \in Nat
         /\ \A S \in SUBSET Requests : /\ IsFiniteSet(S) /\ Cardinality(S) \in Nat
                                       /\ Cardinality(S) <= Cardinality(Requests)
         /\ Own \subseteq Proposals /\ Submitting \subseteq Requests
         /\ Limits \subseteq Nat
         /\ \A i \in 1..Len(published) : published[i] \in Definitions /\ published[i].limit \in Limits
<1>1. \A S \in SUBSET Proposals : IsFiniteSet(S) /\ Cardinality(S) \in Nat
  BY ProposalsAssumption, FS_Subset, FS_CardinalityType
<1>2. \A S \in SUBSET Requests : /\ IsFiniteSet(S) /\ Cardinality(S) \in Nat
                                 /\ Cardinality(S) <= Cardinality(Requests)
  BY ProposalsAssumption, FS_Subset, FS_CardinalityType
<1>3. \A i \in 1..Len(published) : published[i] \in Definitions
  BY DEF ProposalsTyped
<1>4. \A d \in Definitions : d.limit \in Nat
  BY ProposalsAssumption
<1> QED BY <1>1, <1>2, <1>3, <1>4 DEF Own, Submitting, Limits

\* Limits stay in force.
LEMMA LimitsStay == ASSUME ProposalsTyped, ProposalsTyped', Longer PROVE Limits \subseteq Limits'
<1> SUFFICES ASSUME NEW i \in 1..Len(published) PROVE published[i].limit \in Limits'
  BY DEF Limits
<1>1. i \in 1..Len(published') /\ published'[i] = published[i]
  BY DEF Longer, ProposalsTyped
<1> QED BY <1>1 DEF Limits

\* Nothing more is submitted or about to be.
LEMMA RoomStays ==
  ASSUME ProposalsTyped, ProposalsTyped', RoomLeft, Longer, Own' \subseteq Own,
         Submitting' \subseteq Submitting
  PROVE  RoomLeft'
<1> SUFFICES ASSUME 0 \notin Limits'
             PROVE  \E n \in Limits' :
                      Cardinality(Own') + Cardinality(Submitting') <= n + Cardinality(Requests) - 1
  BY DEF RoomLeft
<1>1. Limits \subseteq Limits'
  BY LimitsStay
<1>2. PICK n \in Limits : Cardinality(Own) + Cardinality(Submitting) <= n + Cardinality(Requests) - 1
  BY <1>1 DEF RoomLeft
<1>3. Cardinality(Own') <= Cardinality(Own) /\ Cardinality(Submitting') <= Cardinality(Submitting)
  BY RoomTyped, FS_Subset
<1>4. /\ n \in Nat /\ Cardinality(Requests) \in Nat /\ Cardinality(Own) \in Nat
      /\ Cardinality(Submitting) \in Nat /\ Cardinality(Own') \in Nat /\ Cardinality(Submitting') \in Nat
  <2>1. Own' \in SUBSET Proposals /\ Submitting' \in SUBSET Requests
    BY DEF Own, Submitting
  <2> QED BY <2>1, RoomTyped
<1> QED BY <1>1, <1>2, <1>3, <1>4

\* A request that has found room takes it.
LEMMA RoomIsTaken ==
  ASSUME ProposalsTyped, ProposalsTyped', RoomLeft, Longer, NEW s \in Proposals,
         NEW r \in Submitting, Own' \subseteq Own \cup {s}, Submitting' \subseteq Submitting \ {r}
  PROVE  RoomLeft'
<1> SUFFICES ASSUME 0 \notin Limits'
             PROVE  \E n \in Limits' :
                      Cardinality(Own') + Cardinality(Submitting') <= n + Cardinality(Requests) - 1
  BY DEF RoomLeft
<1>1. Limits \subseteq Limits'
  BY LimitsStay
<1>2. PICK n \in Limits : Cardinality(Own) + Cardinality(Submitting) <= n + Cardinality(Requests) - 1
  BY <1>1 DEF RoomLeft
<1>3. /\ Own \cup {s} \in SUBSET Proposals /\ Submitting \ {r} \in SUBSET Requests
      /\ Own' \in SUBSET Proposals /\ Submitting' \in SUBSET Requests
      /\ Own \in SUBSET Proposals /\ Submitting \in SUBSET Requests
  BY DEF Own, Submitting
<1>4. Cardinality(Own \cup {s}) <= Cardinality(Own) + 1
  BY SMTT(90), <1>3, RoomTyped, FS_AddElement
<1>5. Cardinality(Submitting \ {r}) = Cardinality(Submitting) - 1
  BY <1>3, RoomTyped, FS_RemoveElement
<1>6. /\ Cardinality(Own') <= Cardinality(Own \cup {s})
      /\ Cardinality(Submitting') <= Cardinality(Submitting \ {r})
  BY <1>3, RoomTyped, FS_Subset
<1>7. /\ n \in Nat /\ Cardinality(Requests) \in Nat /\ Cardinality(Own) \in Nat
      /\ Cardinality(Submitting) \in Nat /\ Cardinality(Own') \in Nat /\ Cardinality(Submitting') \in Nat
      /\ Cardinality(Own \cup {s}) \in Nat
  BY <1>3, RoomTyped
<1> QED BY <1>1, <1>2, <1>4, <1>5, <1>6, <1>7

\* A request finds room: others have left some.
LEMMA RoomIsFound ==
  ASSUME ProposalsTyped, ProposalsTyped', Longer, UNCHANGED <<proposal, notice>>,
         NEW n \in Limits, NEW S \in SUBSET Proposals, Own \subseteq S,
         n = 0 \/ Cardinality(S) < n
  PROVE  RoomLeft'
<1> SUFFICES ASSUME 0 \notin Limits'
             PROVE  Cardinality(Own') + Cardinality(Submitting') <= n + Cardinality(Requests) - 1
  BY LimitsStay DEF RoomLeft
<1>1. n # 0 /\ n \in Nat
  BY LimitsStay, RoomTyped
<1>2. Own' = Own /\ Own \in SUBSET Proposals /\ Submitting' \in SUBSET Requests
  BY DEF Own, Submitting, Event
<1>3. Cardinality(Own) <= Cardinality(S)
  BY RoomTyped, FS_Subset
<1>4. /\ Cardinality(Own) \in Nat /\ Cardinality(S) \in Nat /\ Cardinality(Submitting') \in Nat
      /\ Cardinality(Submitting') <= Cardinality(Requests) /\ Cardinality(Requests) \in Nat
  BY <1>2, RoomTyped
<1> QED BY <1>1, <1>2, <1>3, <1>4

-----------------------------------------------------------------------------
(* The steps.                                                              *)

\* What the invariant says of one request and one proposal.
LEMMA WhatFits ==
  ASSUME ProposalsInductive
  PROVE  /\ ProposalsTyped /\ RoomLeft
         /\ \A s \in Proposals : ProposalFits(s)
         /\ \A r \in Requests : /\ RequestFits(r)
                                /\ request[r].at = "create" => request[r] \in Creates
                                /\ request[r].at = "update" => request[r] \in Updates
         /\ Active \in Definitions /\ Active.limit \in Limits
         /\ Len(published) \in Nat /\ Len(published) >= 1
<1>1. /\ ProposalsTyped /\ RoomLeft
      /\ \A s \in Proposals : ProposalFits(s)
      /\ \A r \in Requests : RequestFits(r)
  BY DEF ProposalsInductive
<1>2. ASSUME NEW r \in Requests
      PROVE  /\ request[r].at = "create" => request[r] \in Creates
             /\ request[r].at = "update" => request[r] \in Updates
  <2>1. /\ NoRequest.at = "rest" /\ \A j \in Creates : j.at = "create"
        /\ \A j \in Updates : j.at = "update"
    BY DEF NoRequest, Creates, Updates
  <2> QED BY <1>1, <2>1 DEF RequestFits
<1>3. Len(published) \in Nat /\ Len(published) >= 1
  BY <1>1 DEF ProposalsTyped
<1>4. Active \in Definitions /\ Active.limit \in Limits
  BY <1>1, <1>3, RoomTyped DEF Active
<1> QED BY <1>1, <1>2, <1>3, <1>4

\* A check reads the tables and leaves them alone.
LEMMA CheckKeeps ==
  ASSUME ProposalsInductive, NEW r \in Requests, NEW j, request' = [request EXCEPT ![r] = j],
         UNCHANGED tables, RequestFits(r)', RoomLeft'
  PROVE  ProposalsInductive'
<1>1. UNCHANGED <<published, window, proposal, numbers, decided, notice>>
  BY DEF tables
<1>2. /\ ProposalsTyped' /\ \A q \in Requests : request'[q] # request[q] => RequestFits(q)'
  BY <1>1, WhatFits DEF ProposalsTyped, Events, Kinds
<1>3. Longer /\ notice \subseteq notice' /\ \A p \in Proposals : Untouched(p)
  BY <1>1, WhatFits DEF Longer, Untouched
<1> QED BY <1>2, <1>3, ProposalStep

\* A request is about to submit only if it has found room.
LEMMA CheckRoom ==
  ASSUME ProposalsInductive, NEW r \in Requests, NEW j, request' = [request EXCEPT ![r] = j],
         UNCHANGED tables, request[r] = NoRequest,
         \/ j.draft
         \/ j.at = "update" /\ j.was # "draft"
         \/ \E n \in Limits, S \in SUBSET Proposals :
              Own \subseteq S /\ (n = 0 \/ Cardinality(S) < n)
  PROVE  RoomLeft'
<1>1. UNCHANGED <<published, window, proposal, numbers, decided, notice>>
  BY DEF tables
<1>2. ProposalsTyped /\ ProposalsTyped' /\ Longer /\ RoomLeft
  <2>1. ProposalsTyped /\ RoomLeft
    BY WhatFits
  <2>2. request' = [q \in Requests |-> request'[q]]
    BY <2>1 DEF ProposalsTyped
  <2>3. Longer
    BY <1>1, <2>1 DEF Longer, ProposalsTyped
  <2> QED BY <1>1, <2>1, <2>2, <2>3 DEF ProposalsTyped, Events, Kinds
<1>3. CASE j.draft \/ (j.at = "update" /\ j.was # "draft")
  <2>1. request'[r] = j /\ \A q \in Requests : q # r => request'[q] = request[q]
    BY <1>2 DEF ProposalsTyped
  <2>2. Submitting' \subseteq Submitting
    BY <1>3, <2>1 DEF Submitting
  <2>3. Own' = Own
    BY <1>1 DEF Own, Event
  <2> QED BY <1>2, <2>2, <2>3, RoomStays
<1>4. CASE \E n \in Limits, S \in SUBSET Proposals : Own \subseteq S /\ (n = 0 \/ Cardinality(S) < n)
  BY <1>1, <1>2, <1>4, RoomIsFound
<1> QED BY <1>3, <1>4

\* The limit of a person leaves room beside the proposals of the others.
LEMMA RoomOfOthers ==
  ASSUME ProposalsInductive, NEW except \in SUBSET Proposals, MayStart(except),
         \A s \in except : proposal[s].state # "submitted"
  PROVE  \E n \in Limits, S \in SUBSET Proposals : Own \subseteq S /\ (n = 0 \/ Cardinality(S) < n)
<1> DEFINE S == {s \in Others(except) :
              proposal[s].state = "submitted" \/ (Active.counts /\ proposal[s].state = "draft")}
<1>1. Active.limit \in Limits
  BY WhatFits
<1>2. Own \subseteq S
  BY DEF Own, Others
<1>3. S \in SUBSET Proposals
  BY DEF Others
<1>4. Active.limit = 0 \/ Cardinality(S) < Active.limit
  BY DEF MayStart
<1> HIDE DEF S
<1> QED BY <1>1, <1>2, <1>3, <1>4

\* A new proposal is checked against the form.
LEMMA CreateChecksKeeps ==
  ASSUME ProposalsInductive, NEW r \in Requests, NEW draft \in BOOLEAN,
         NEW answers \in SUBSET Keys, CreateChecks(r, draft, answers)
  PROVE  ProposalsInductive'
<1>1. PICK j : j = [at |-> "create", draft |-> draft, answers |-> answers, version |-> Len(published)]
  OBVIOUS
<1>2. /\ request[r] = NoRequest /\ Open /\ MayStart({}) /\ Valid(Active, answers, draft)
      /\ request' = [request EXCEPT ![r] = j] /\ UNCHANGED tables
  BY <1>1 DEF CreateChecks
<1>3. UNCHANGED published /\ request'[r] = j
  BY <1>2, WhatFits DEF tables, ProposalsTyped
<1>4. j \in Creates /\ j.version = Len(published) /\ j.answers = answers /\ j.draft = draft
  BY <1>1, WhatFits DEF Creates
<1>5. RequestFits(r)'
  <2>1. Valid(published[j.version], j.answers, j.draft)
    BY <1>2, <1>4 DEF Active
  <2>2. Valid(published[request[r].version], request[r].answers, request[r].draft)'
    BY <1>3, <2>1 DEF Valid
  <2>3. request'[r] \in Creates'
    BY <1>3, <1>4 DEF Creates
  <2> QED BY <2>2, <2>3 DEF RequestFits
<1>6. RoomLeft'
  <2>1. \E n \in Limits, S \in SUBSET Proposals : Own \subseteq S /\ (n = 0 \/ Cardinality(S) < n)
    BY <1>2, RoomOfOthers
  <2> QED BY <1>2, <2>1, CheckRoom
<1> QED BY <1>2, <1>5, <1>6, CheckKeeps

\* A change of a proposal is checked.
LEMMA UpdateChecksKeeps ==
  ASSUME ProposalsInductive, NEW r \in Requests, NEW draft \in BOOLEAN,
         NEW answers \in SUBSET Keys, NEW s \in Proposals, UpdateChecks(r, s, draft, answers)
  PROVE  ProposalsInductive'
<1>1. PICK j : j = [at |-> "update", of |-> s, draft |-> draft, answers |-> answers,
                    was |-> proposal[s].state, current |-> proposal[s].current,
                    reminds |-> Active.reminds]
  OBVIOUS
<1>2. /\ request[r] = NoRequest /\ Editable(s) /\ Valid(OwnDefinition(s), answers, draft)
      /\ proposal[s].state = "submitted" => ~draft
      /\ proposal[s].state = "draft" /\ ~draft => MayStart({s})
      /\ request' = [request EXCEPT ![r] = j] /\ UNCHANGED tables
  BY <1>1 DEF UpdateChecks
<1>3. UNCHANGED <<published, proposal, decided>> /\ request'[r] = j
  BY <1>2, WhatFits DEF tables, ProposalsTyped
<1>4. /\ proposal[s].state \in {"draft", "submitted"} /\ decided[s] = 0
      /\ proposal[s].current \in Nat /\ proposal[s].current >= 1
  BY <1>2, WhatFits DEF Editable, ProposalFits, ProposalsTyped
<1>5. /\ j \in Updates /\ j.of = s /\ j.answers = answers /\ j.draft = draft
      /\ j.was = proposal[s].state /\ j.current = proposal[s].current
  <2>1. Active.reminds \in BOOLEAN
    BY WhatFits, ProposalsAssumption
  <2> QED BY <1>1, <1>4, <2>1 DEF Updates
<1>6. RequestFits(r)'
  <2>1. Valid(OwnDefinition(request[r].of), request[r].answers, request[r].draft)'
    BY <1>2, <1>3, <1>5 DEF Valid, OwnDefinition
  <2>2. request'[r] \in Updates'
    BY <1>3, <1>5 DEF Updates
  <2> QED BY <1>2, <1>3, <1>4, <1>5, <2>1, <2>2 DEF RequestFits
<1>7. RoomLeft'
  <2>1. CASE draft \/ proposal[s].state = "submitted"
    <3>1. j.draft \/ (j.at = "update" /\ j.was # "draft")
      BY <1>5, <2>1 DEF Updates
    <3> QED BY <1>2, <3>1, CheckRoom
  <2>2. CASE ~draft /\ proposal[s].state = "draft"
    <3>1. \E n \in Limits, S \in SUBSET Proposals : Own \subseteq S /\ (n = 0 \/ Cardinality(S) < n)
      BY <1>2, <2>2, RoomOfOthers
    <3> QED BY <1>2, <3>1, CheckRoom
  <2> QED BY <1>4, <2>1, <2>2
<1> QED BY <1>2, <1>6, <1>7, CheckKeeps

\* A commit takes the room its request has found, if it submits a proposal.
LEMMA CommitRoom ==
  ASSUME ProposalsInductive, ProposalsTyped', NEW r \in Requests, NEW s \in Proposals,
         request' = [request EXCEPT ![r] = NoRequest], Longer, notice \subseteq notice',
         \A p \in Proposals : p # s => proposal'[p] = proposal[p],
         \/ r \in Submitting
         \/ proposal[s].state = "submitted" \/ proposal'[s].state # "submitted"
  PROVE  RoomLeft'
<1>1. ProposalsTyped /\ RoomLeft
  BY WhatFits
<1>2. Submitting' \subseteq Submitting \ {r}
  BY <1>1 DEF Submitting, NoRequest, ProposalsTyped
<1>3. Own' \subseteq Own \cup {s}
  BY DEF Own, Event
<1>4. CASE r \in Submitting
  BY <1>1, <1>2, <1>3, <1>4, RoomIsTaken
<1>5. CASE proposal[s].state = "submitted" \/ proposal'[s].state # "submitted"
  <2>1. Own' \subseteq Own
    BY <1>5 DEF Own, Event
  <2> QED BY <1>1, <1>2, <2>1, RoomStays
<1> QED BY <1>4, <1>5

\* The first version of a proposal.
LEMMA FirstVersionFits ==
  ASSUME ProposalsInductive, NEW s \in Proposals, proposal[s] = Absent, ProposalsTyped',
         UNCHANGED <<published, decided>>, numbers'[s] = {1}, proposal'[s].current = 1,
         proposal'[s].version \in 1..Len(published),
         Valid(published[proposal'[s].version], proposal'[s].answers, proposal'[s].state = "draft"),
         \A e \in notice' : e.of = s => e \in notice \/ e.number = 1 \/ e.kind = "reminder",
         \A e \in notice' : e.of = s => e \in notice \/ e.kind # "updated",
         \/ /\ proposal'[s].state = "draft"
            /\ \A e \in notice' : e.of = s => e \in notice \/ e.kind = "reminder"
         \/ /\ proposal'[s].state = "submitted"
            /\ \E e \in notice' : e.of = s /\ e.kind \in Entered /\ e.number = 1
  PROVE  ProposalFits(s)' /\ Forward(s)
<1>1. /\ \A e \in notice : e.of # s
      /\ decided[s] = 0 /\ proposal[s].state = "absent"
  BY WhatFits DEF ProposalFits, Absent
<1>2. TellsOnce(s)'
  <2>1. CASE proposal'[s].state = "draft"
    BY <1>1, <2>1 DEF TellsOnce
  <2>2. CASE proposal'[s].state = "submitted"
    <3>1. /\ \E e \in notice' : e.of = s /\ e.kind \in Entered /\ e.number = 1
          /\ \A e \in notice' : e.of = s => (e.kind \in Entered => e.number = 1) /\ e.kind # "updated"
          /\ 1 \in 1..proposal'[s].current /\ (1 + 1)..proposal'[s].current = {}
      BY <1>1, <2>2 DEF Entered
    <3> QED BY <2>2, <3>1 DEF TellsOnce, Entered
  <2> QED BY <2>1, <2>2
<1>3. proposal'[s].state = "submitted" => proposal'[s].answers = OwnDefinition(s)'.needs
  BY DEF Valid, OwnDefinition
<1>4. numbers'[s] = 1..proposal'[s].current
  OBVIOUS
<1>5. Forward(s)
  BY <1>1 DEF Forward
<1> QED BY <1>1, <1>2, <1>3, <1>4, <1>5 DEF ProposalFits

\* The tables are typed after a proposal has got a version.
LEMMA VersionTyped ==
  ASSUME ProposalsInductive, NEW s \in Proposals,
         NEW v \in [state : {"absent", "draft", "submitted"}, version : Nat, current : Nat,
                    answers : SUBSET Keys],
         NEW n \in SUBSET Nat, proposal' = [proposal EXCEPT ![s] = v],
         numbers' = [numbers EXCEPT ![s] = n], UNCHANGED <<published, window, decided>>,
         notice' \subseteq Events, request' = [r \in Requests |-> request'[r]]
  PROVE  /\ ProposalsTyped' /\ proposal'[s] = v /\ numbers'[s] = n
         /\ \A p \in Proposals : p # s => proposal'[p] = proposal[p] /\ numbers'[p] = numbers[p]
         /\ Longer
<1>1. ProposalsTyped
  BY WhatFits
<1> QED BY <1>1 DEF ProposalsTyped, Events, Kinds, Longer

\* A new proposal is inserted.
LEMMA CreateCommitsKeeps ==
  ASSUME ProposalsInductive, NEW r \in Requests, NEW s \in Proposals, CreateCommits(r, s)
  PROVE  ProposalsInductive'
<1>1. PICK j : j = request[r]
  OBVIOUS
<1>2. /\ j \in Creates /\ Valid(published[j.version], j.answers, j.draft)
  <2>1. j.at = "create"
    BY <1>1 DEF CreateCommits
  <2> QED BY <1>1, <2>1, WhatFits DEF RequestFits, NoRequest, Updates
<1>3. PICK v : v = [state |-> IF j.draft THEN "draft" ELSE "submitted", version |-> j.version,
                    current |-> 1, answers |-> j.answers]
  OBVIOUS
<1>4. /\ proposal[s] = Absent /\ proposal' = [proposal EXCEPT ![s] = v]
      /\ numbers' = [numbers EXCEPT ![s] = {1}] /\ UNCHANGED <<published, window, decided>>
      /\ notice' = notice \cup (IF j.draft THEN ReminderEvent(published[j.version], s)
                                ELSE SubmittedEvent(published[j.version], s, 1))
      /\ request' = [request EXCEPT ![r] = NoRequest]
  BY <1>1, <1>3 DEF CreateCommits, Inserts
<1>5. /\ v \in [state : {"absent", "draft", "submitted"}, version : Nat, current : Nat,
                answers : SUBSET Keys]
      /\ v.state = (IF j.draft THEN "draft" ELSE "submitted") /\ v.version = j.version
      /\ v.current = 1 /\ v.answers = j.answers /\ j.version \in 1..Len(published)
      /\ j.draft \in BOOLEAN
  BY <1>2, <1>3 DEF Creates
<1>6. PICK X : /\ X = IF j.draft THEN ReminderEvent(published[j.version], s)
                      ELSE SubmittedEvent(published[j.version], s, 1)
               /\ notice' = notice \cup X
  BY <1>4
<1>7. /\ \A e \in X : e \in Events /\ e.of = s
      /\ j.draft => \A e \in X : e.kind = "reminder"
      /\ ~j.draft => \A e \in X : e.kind \in Entered /\ e.number = 1
      /\ ~j.draft => \E e \in X : TRUE
  <2>1. /\ \A n \in Nat, kind \in Kinds : Event(kind, s, n) \in Events
        /\ \A n, kind : /\ Event(kind, s, n).of = s /\ Event(kind, s, n).kind = kind
                        /\ Event(kind, s, n).number = n
    BY DEF Events, Event
  <2> QED BY <1>6, <2>1 DEF ReminderEvent, SubmittedEvent, Kinds, Entered
<1>8. notice' \subseteq Events /\ notice \subseteq notice'
  BY <1>6, <1>7, WhatFits DEF ProposalsTyped
<1>9. request' = [q \in Requests |-> request'[q]] /\ \A q \in Requests : q # r => request'[q] = request[q]
  BY <1>4, WhatFits DEF ProposalsTyped
<1>10. /\ ProposalsTyped' /\ proposal'[s] = v /\ numbers'[s] = {1}
       /\ \A p \in Proposals : p # s => proposal'[p] = proposal[p] /\ numbers'[p] = numbers[p]
       /\ Longer
  <2>1. {1} \in SUBSET Nat
    OBVIOUS
  <2> QED BY <1>4, <1>5, <1>8, <1>9, <2>1, VersionTyped
<1>11. ProposalFits(s)' /\ Forward(s)
  <2>1. Valid(published[v.version], v.answers, v.state = "draft")
    BY <1>2, <1>5 DEF Valid
  <2>2. \A e \in notice' : e.of = s => e \in notice \/ e \in X
    BY <1>6
  <2>3. /\ \A e \in notice' : e.of = s => e \in notice \/ e.number = 1 \/ e.kind = "reminder"
        /\ \A e \in notice' : e.of = s => e \in notice \/ e.kind # "updated"
        /\ v.state = "draft" => \A e \in notice' : e.of = s => e \in notice \/ e.kind = "reminder"
        /\ v.state = "submitted" => \E e \in notice' : e.of = s /\ e.kind \in Entered /\ e.number = 1
    BY <1>5, <1>6, <1>7, <2>2 DEF Entered
  <2> QED BY <1>4, <1>5, <1>10, <2>1, <2>3, FirstVersionFits
<1>12. \A p \in Proposals : p # s => Untouched(p)
  BY <1>4, <1>6, <1>7, <1>10 DEF Untouched
<1>13. \A q \in Requests : request'[q] # request[q] => RequestFits(q)'
  <2>1. request'[r] = NoRequest
    BY <1>4, WhatFits DEF ProposalsTyped
  <2> QED BY <1>9, <2>1 DEF RequestFits, NoRequest
<1>14. RoomLeft'
  <2>1. ~j.draft => r \in Submitting
    BY <1>1, <1>2 DEF Submitting, Creates
  <2> QED BY <1>4, <1>5, <1>8, <1>10, <2>1, CommitRoom
<1> QED BY <1>8, <1>10, <1>11, <1>12, <1>13, <1>14, ProposalStep

\* An organizer enters a proposal.
LEMMA ManualEntryKeeps ==
  ASSUME ProposalsInductive, NEW s \in Proposals, ManualEntry(s) PROVE ProposalsInductive'
<1>1. PICK v : v = [state |-> "submitted", version |-> Len(published), current |-> 1,
                    answers |-> Active.needs]
  OBVIOUS
<1>2. PICK e : e = Event("manually_entered", s, 1)
  OBVIOUS
<1>3. /\ proposal[s] = Absent /\ proposal' = [proposal EXCEPT ![s] = v]
      /\ numbers' = [numbers EXCEPT ![s] = {1}] /\ UNCHANGED <<published, window, decided, request>>
      /\ notice' = notice \cup {e}
  BY <1>1, <1>2 DEF ManualEntry, Inserts
<1>4. /\ v \in [state : {"absent", "draft", "submitted"}, version : Nat, current : Nat,
                answers : SUBSET Keys]
      /\ v.state = "submitted" /\ v.version = Len(published) /\ v.current = 1
      /\ v.answers = Active.needs /\ Len(published) \in 1..Len(published)
  <2>1. Active.needs \in SUBSET Keys
    BY WhatFits, ProposalsAssumption
  <2> QED BY <1>1, <2>1, WhatFits
<1>5. e \in Events /\ e.of = s /\ e.kind = "manually_entered" /\ e.number = 1
  BY <1>2 DEF Event, Events, Kinds
<1>6. notice' \subseteq Events /\ notice \subseteq notice'
  BY <1>3, <1>5, WhatFits DEF ProposalsTyped
<1>7. request' = [q \in Requests |-> request'[q]]
  BY <1>3, WhatFits DEF ProposalsTyped
<1>8. /\ ProposalsTyped' /\ proposal'[s] = v /\ numbers'[s] = {1}
      /\ \A p \in Proposals : p # s => proposal'[p] = proposal[p] /\ numbers'[p] = numbers[p]
      /\ Longer
  <2>1. {1} \in SUBSET Nat
    OBVIOUS
  <2> QED BY <1>3, <1>4, <1>6, <1>7, <2>1, VersionTyped
<1>9. ProposalFits(s)' /\ Forward(s)
  <2>1. Valid(published[v.version], v.answers, v.state = "draft")
    BY <1>4 DEF Valid, Active
  <2>2. \A d \in notice' : d \in notice \/ d = e
    BY <1>3
  <2>3. /\ \A d \in notice' : d.of = s => d \in notice \/ d.number = 1 \/ d.kind = "reminder"
        /\ \A d \in notice' : d.of = s => d \in notice \/ d.kind # "updated"
        /\ \E d \in notice' : d.of = s /\ d.kind \in Entered /\ d.number = 1
    BY <1>3, <1>5, <2>2 DEF Entered
  <2> QED BY <1>3, <1>4, <1>8, <2>1, <2>3, FirstVersionFits
<1>10. \A p \in Proposals : p # s => Untouched(p)
  BY <1>3, <1>5, <1>8 DEF Untouched
<1>11. RoomLeft'
  <2>1. Own' \subseteq Own
    BY <1>2, <1>3, <1>8 DEF Own, Event
  <2>2. Submitting' = Submitting
    BY <1>3 DEF Submitting
  <2> QED BY <1>8, <2>1, <2>2, RoomStays, WhatFits
<1> QED BY <1>3, <1>6, <1>8, <1>9, <1>10, <1>11, ProposalStep

\* A further version of a proposal that goes on telling its story.
LEMMA NextVersionFits ==
  ASSUME ProposalsInductive, NEW r \in Requests, NEW s \in Proposals, ProposalsTyped',
         request[r] \in Updates, RequestFits(r), request[r].of = s, NumberFree(r),
         UNCHANGED <<published, decided>>,
         proposal'[s].state = IF request[r].draft THEN "draft" ELSE "submitted",
         proposal'[s].version = proposal[s].version,
         proposal'[s].current = request[r].current + 1,
         proposal'[s].answers = request[r].answers,
         numbers'[s] = numbers[s] \cup {request[r].current + 1}, notice \subseteq notice',
         \A e \in notice' \ notice :
           /\ request[r].draft => e.kind = "reminder"
           /\ FirstSubmission(r) => e.kind \in Entered /\ e.number = request[r].current + 1
           /\ ~request[r].draft /\ ~FirstSubmission(r) =>
                e.kind = "updated" /\ e.number = request[r].current + 1,
         FirstSubmission(r) => \E e \in notice' \ notice : e.of = s,
         ~request[r].draft /\ ~FirstSubmission(r) =>
           Event("updated", s, request[r].current + 1) \in notice'
  PROVE  /\ ProposalFits(s)' /\ Forward(s)
         /\ ~request[r].draft => r \in Submitting \/ proposal[s].state = "submitted"
<1>1. /\ ProposalFits(s) /\ proposal[s].state \in {"draft", "submitted"}
      /\ proposal[s].current \in Nat /\ proposal[s].current >= 1 /\ decided[s] \in Nat
  BY WhatFits DEF RequestFits, NoRequest, Creates, Updates, ProposalFits, ProposalsTyped
<1>2. PICK c \in Nat : c = proposal[s].current
  BY <1>1
<1>3. /\ request[r].current \in 1..c /\ request[r].draft \in BOOLEAN
      /\ request[r].current = c => request[r].was = proposal[s].state
      /\ request[r].was = "submitted" => ~request[r].draft
      /\ decided[s] # 0 => request[r].current <= decided[s]
      /\ Valid(OwnDefinition(s), request[r].answers, request[r].draft)
  BY <1>2 DEF RequestFits, NoRequest, Creates, Updates
<1>4. request[r].current = c /\ numbers[s] = 1..c /\ numbers'[s] = 1..(c + 1)
  BY <1>1, <1>2, <1>3 DEF ProposalFits, NumberFree
<1>5. request[r].was = proposal[s].state
  BY <1>3, <1>4
<1>6. proposal'[s].current = c + 1
  BY <1>4
<1>7. TellsOnce(s)'
  <2>1. CASE request[r].draft
    <3>1. proposal[s].state = "draft" /\ proposal'[s].state = "draft"
      BY <1>1, <1>3, <1>5, <2>1
    <3>2. \A e \in notice : e.of = s => e.kind = "reminder"
      BY <1>1, <3>1 DEF ProposalFits, TellsOnce
    <3> QED BY <2>1, <3>1, <3>2 DEF TellsOnce
  <2>2. CASE FirstSubmission(r)
    <3>1. proposal[s].state = "draft" /\ proposal'[s].state = "submitted"
      BY <1>5, <2>2 DEF FirstSubmission
    <3>2. \A e \in notice : e.of = s => e.kind = "reminder"
      BY <1>1, <3>1 DEF ProposalFits, TellsOnce
    <3>3. /\ \E e \in notice' : e.of = s /\ e.kind \in Entered /\ e.number = c + 1
          /\ \A e \in notice' : e.of = s =>
               (e.kind \in Entered => e.number = c + 1) /\ e.kind # "updated"
      BY <1>4, <2>2, <3>2 DEF Entered
    <3>4. c + 1 \in 1..(c + 1) /\ ((c + 1) + 1)..(c + 1) = {}
      OBVIOUS
    <3>5. \E first \in 1..(c + 1) :
            /\ \E e \in notice' : e.of = s /\ e.kind \in Entered /\ e.number = first
            /\ \A e \in notice' : e.of = s =>
                 /\ e.kind \in Entered => e.number = first
                 /\ e.kind = "updated" => e.number \in (first + 1)..(c + 1)
            /\ \A n \in (first + 1)..(c + 1) : Event("updated", s, n) \in notice'
      BY <3>3, <3>4
    <3> QED BY <1>6, <3>1, <3>5 DEF TellsOnce, Entered, Event
  <2>3. CASE ~request[r].draft /\ ~FirstSubmission(r)
    <3>1. proposal[s].state = "submitted" /\ proposal'[s].state = "submitted"
      BY <1>1, <1>5, <2>3 DEF FirstSubmission
    <3>2. PICK first \in 1..c :
            /\ \E e \in notice : e.of = s /\ e.kind \in Entered /\ e.number = first
            /\ \A e \in notice : e.of = s =>
                 /\ e.kind \in Entered => e.number = first
                 /\ e.kind = "updated" => e.number \in (first + 1)..c
            /\ \A n \in (first + 1)..c : Event("updated", s, n) \in notice
      BY <1>1, <1>2, <3>1 DEF ProposalFits, TellsOnce
    <3>3. \A e \in notice' : e.of = s =>
            /\ e.kind \in Entered => e.number = first
            /\ e.kind = "updated" => e.number \in (first + 1)..(c + 1)
      <4> SUFFICES ASSUME NEW e \in notice', e.of = s
                   PROVE  /\ e.kind \in Entered => e.number = first
                          /\ e.kind = "updated" => e.number \in (first + 1)..(c + 1)
        OBVIOUS
      <4>1. CASE e \in notice
        BY <3>2, <4>1
      <4>2. CASE e \notin notice
        BY <1>4, <2>3, <4>2 DEF Entered
      <4> QED BY <4>1, <4>2
    <3>4. \A n \in (first + 1)..(c + 1) : Event("updated", s, n) \in notice'
      <4> SUFFICES ASSUME NEW n \in (first + 1)..(c + 1) PROVE Event("updated", s, n) \in notice'
        OBVIOUS
      <4>1. n = c + 1 \/ n \in (first + 1)..c
        OBVIOUS
      <4> QED BY <1>4, <2>3, <3>2, <4>1
    <3>5. \E f \in 1..(c + 1) :
            /\ \E e \in notice' : e.of = s /\ e.kind \in Entered /\ e.number = f
            /\ \A e \in notice' : e.of = s =>
                 /\ e.kind \in Entered => e.number = f
                 /\ e.kind = "updated" => e.number \in (f + 1)..(c + 1)
            /\ \A n \in (f + 1)..(c + 1) : Event("updated", s, n) \in notice'
      BY <3>2, <3>3, <3>4
    <3> QED BY <1>6, <3>1, <3>5 DEF TellsOnce, Entered, Event
  <2>4. request[r].draft \/ FirstSubmission(r) \/ (~request[r].draft /\ ~FirstSubmission(r))
    OBVIOUS
  <2> QED BY <2>1, <2>2, <2>3, <2>4
<1>8. proposal'[s].state = "submitted" => proposal'[s].answers = OwnDefinition(s)'.needs
  <2>1. published'[proposal'[s].version] = published[proposal[s].version]
    OBVIOUS
  <2>2. OwnDefinition(s)'.needs = OwnDefinition(s).needs
    BY <2>1 DEF OwnDefinition
  <2>3. ~request[r].draft => request[r].answers = OwnDefinition(s).needs
    BY <1>3 DEF Valid
  <2> QED BY <1>3, <2>2, <2>3
<1>9. decided'[s] # 0 => proposal'[s].state = "submitted" /\ proposal'[s].current <= decided'[s] + 1
  BY <1>1, <1>3, <1>4, <1>5 DEF ProposalFits
<1>10. Forward(s)
  BY <1>1, <1>2, <1>4 DEF Forward
<1>11. ~request[r].draft => r \in Submitting \/ proposal[s].state = "submitted"
  BY <1>1, <1>5 DEF Submitting, Updates
<1>12. proposal'[s].version \in 1..Len(published')
  BY <1>1 DEF ProposalFits
<1> QED BY <1>1, <1>4, <1>6, <1>7, <1>8, <1>9, <1>10, <1>11, <1>12 DEF ProposalFits

\* A change of a proposal is saved.
LEMMA UpdateCommitsKeeps ==
  ASSUME ProposalsInductive, NEW r \in Requests, UpdateCommits(r) PROVE ProposalsInductive'
<1>1. PICK s, n, d : s = request[r].of /\ n = request[r].current + 1 /\ d = request[r].draft
  OBVIOUS
<1>2. /\ request[r] \in Updates /\ RequestFits(r) /\ NumberFree(r)
  BY WhatFits DEF UpdateCommits
<1>3. s \in Proposals /\ n \in Nat /\ d \in BOOLEAN /\ request[r].answers \in SUBSET Keys
  BY <1>1, <1>2 DEF Updates
<1>4. PICK v : v = [state |-> IF d THEN "draft" ELSE "submitted",
                    version |-> proposal[s].version, current |-> n, answers |-> request[r].answers]
  OBVIOUS
<1>5. PICK X : X = IF FirstSubmission(r) THEN SubmittedEvent(OwnDefinition(s), s, n)
                   ELSE IF d THEN ReminderEvent([reminds |-> request[r].reminds], s)
                   ELSE {Event("updated", s, n)}
  OBVIOUS
<1>6. /\ proposal' = [proposal EXCEPT ![s] = v] /\ numbers' = [numbers EXCEPT ![s] = @ \cup {n}]
      /\ notice' = notice \cup X /\ request' = [request EXCEPT ![r] = NoRequest]
      /\ UNCHANGED <<published, window, decided>>
  BY <1>1, <1>4, <1>5 DEF UpdateCommits
<1>7. /\ v \in [state : {"absent", "draft", "submitted"}, version : Nat, current : Nat,
                answers : SUBSET Keys]
      /\ v.state = (IF d THEN "draft" ELSE "submitted") /\ v.version = proposal[s].version
      /\ v.current = n /\ v.answers = request[r].answers
  <2>1. proposal[s].version \in Nat
    BY <1>3, WhatFits DEF ProposalsTyped
  <2> QED BY <1>3, <1>4, <2>1
<1>8. /\ \A e \in X : /\ e \in Events /\ e.of = s
                      /\ d => e.kind = "reminder"
                      /\ FirstSubmission(r) => e.kind \in Entered /\ e.number = n
                      /\ ~d /\ ~FirstSubmission(r) => e.kind = "updated" /\ e.number = n
      /\ FirstSubmission(r) => X # {}
      /\ ~d /\ ~FirstSubmission(r) => Event("updated", s, n) \in X
  <2>1. /\ \A m \in Nat, kind \in Kinds : Event(kind, s, m) \in Events
        /\ \A m, kind : /\ Event(kind, s, m).of = s /\ Event(kind, s, m).kind = kind
                        /\ Event(kind, s, m).number = m
    BY <1>3 DEF Events, Event
  <2>2. FirstSubmission(r) => ~d
    BY <1>1 DEF FirstSubmission
  <2> QED BY <1>3, <1>5, <2>1, <2>2 DEF ReminderEvent, SubmittedEvent, Kinds, Entered
<1>9. notice' \subseteq Events /\ notice \subseteq notice'
  BY <1>6, <1>8, WhatFits DEF ProposalsTyped
<1>10. request' = [q \in Requests |-> request'[q]] /\ \A q \in Requests : q # r => request'[q] = request[q]
  BY <1>6, WhatFits DEF ProposalsTyped
<1>11. /\ ProposalsTyped' /\ proposal'[s] = v /\ numbers'[s] = numbers[s] \cup {n}
       /\ \A p \in Proposals : p # s => proposal'[p] = proposal[p] /\ numbers'[p] = numbers[p]
       /\ Longer
  <2>1. PICK m \in SUBSET Nat : m = numbers[s] \cup {n}
    BY <1>3, WhatFits DEF ProposalsTyped
  <2>2. numbers' = [numbers EXCEPT ![s] = m]
    BY <1>6, <2>1
  <2> QED BY <1>3, <1>6, <1>7, <1>9, <1>10, <2>1, <2>2, VersionTyped
<1>12. /\ ProposalFits(s)' /\ Forward(s)
       /\ ~d => r \in Submitting \/ proposal[s].state = "submitted"
  <2>1. \A e \in notice' \ notice : e \in X
    BY <1>6
  <2>2. FirstSubmission(r) => \E e \in notice' \ notice : e.of = s
    <3> SUFFICES ASSUME FirstSubmission(r) PROVE \E e \in notice' \ notice : e.of = s
      OBVIOUS
    <3>1. PICK e \in X : TRUE
      BY <1>8
    <3>2. e.of = s /\ e.kind \in Entered
      BY <1>8
    <3>3. e \notin notice
      <4>1. /\ ProposalFits(s)
            /\ request[r].current \in 1..proposal[s].current
            /\ request[r].current = proposal[s].current => request[r].was = proposal[s].state
        BY <1>1, <1>2, <1>3, WhatFits DEF RequestFits, NoRequest, Creates, Updates
      <4>2. proposal[s].current \in Nat
        BY <1>3, WhatFits DEF ProposalsTyped
      <4>3. proposal[s].state = "draft"
        BY <1>1, <1>2, <4>1, <4>2 DEF NumberFree, ProposalFits, FirstSubmission
      <4> QED BY <3>2, <4>1, <4>3 DEF ProposalFits, TellsOnce, Entered
    <3> QED BY <1>6, <3>1, <3>2, <3>3
  <2>3. ~d /\ ~FirstSubmission(r) => Event("updated", s, n) \in notice'
    BY <1>6, <1>8
  <2> QED BY <1>1, <1>2, <1>3, <1>6, <1>7, <1>8, <1>9, <1>11, <2>1, <2>2, <2>3, NextVersionFits
<1>13. \A p \in Proposals : p # s => Untouched(p)
  BY <1>6, <1>8, <1>11 DEF Untouched
<1>14. \A q \in Requests : request'[q] # request[q] => RequestFits(q)'
  <2>1. request'[r] = NoRequest
    BY <1>6, WhatFits DEF ProposalsTyped
  <2> QED BY <1>10, <2>1 DEF RequestFits, NoRequest
<1>15. RoomLeft'
  <2>1. r \in Submitting \/ proposal[s].state = "submitted" \/ proposal'[s].state # "submitted"
    BY <1>7, <1>11, <1>12
  <2> QED BY <1>3, <1>6, <1>9, <1>11, <2>1, CommitRoom
<1> QED BY <1>9, <1>11, <1>12, <1>13, <1>14, <1>15, ProposalStep

\* A decision is on the current version of a proposal.
LEMMA DecideKeeps ==
  ASSUME ProposalsInductive, NEW s \in Proposals, Decide(s) PROVE ProposalsInductive'
<1>1. /\ proposal[s].state = "submitted" /\ decided[s] = 0
      /\ decided' = [decided EXCEPT ![s] = proposal[s].current]
      /\ UNCHANGED <<published, window, proposal, numbers, notice, request>>
  BY DEF Decide
<1>2. ProposalsTyped /\ ProposalFits(s) /\ RoomLeft
  BY WhatFits
<1>3. /\ ProposalsTyped' /\ Longer /\ decided'[s] = proposal[s].current
      /\ proposal[s].current \in Nat
      /\ \A p \in Proposals : p # s => decided'[p] = decided[p]
  BY <1>1, <1>2 DEF ProposalsTyped, Longer, Events, Kinds
<1>4. TellsOnce(s)'
  BY <1>1, <1>2 DEF ProposalFits, TellsOnce, Entered, Event
<1>5. ProposalFits(s)' /\ Forward(s)
  BY <1>1, <1>2, <1>3, <1>4 DEF ProposalFits, Forward, OwnDefinition
<1>6. \A p \in Proposals : p # s => Untouched(p)
  BY <1>1, <1>3 DEF Untouched
<1>7. RoomLeft'
  <2>1. Own' = Own /\ Submitting' = Submitting
    BY <1>1 DEF Own, Submitting, Event
  <2> QED BY <1>2, <1>3, <2>1, RoomStays
<1> QED BY <1>1, <1>3, <1>5, <1>6, <1>7, ProposalStep

\* A step on the form alone.
LEMMA FormKeeps ==
  ASSUME ProposalsInductive, ProposalsTyped', Longer,
         UNCHANGED <<proposal, numbers, decided, notice, request>>
  PROVE  ProposalsInductive'
<1>1. RoomLeft'
  <2>1. Own' = Own /\ Submitting' = Submitting
    BY DEF Own, Submitting, Event
  <2> QED BY <2>1, RoomStays, WhatFits
<1>2. \A p \in Proposals : Untouched(p)
  BY DEF Untouched
<1> QED BY <1>1, <1>2, ProposalStep

\* A new definition is added to those before.
LEMMA PublishKeeps ==
  ASSUME ProposalsInductive, NEW d \in Definitions, NEW dates \in {"open", "shut"}, Publish(d, dates)
  PROVE  ProposalsInductive'
<1>1. /\ published' = Append(published, d) /\ window' = dates
      /\ UNCHANGED <<proposal, numbers, decided, notice, request>>
  BY DEF Publish
<1>2. ProposalsTyped
  BY WhatFits
<1>3. /\ published' \in Seq(Definitions) /\ Len(published') = Len(published) + 1
      /\ \A i \in 1..Len(published) : published'[i] = published[i]
      /\ Len(published) \in Nat /\ Len(published) >= 1
  BY <1>1, <1>2 DEF ProposalsTyped
<1>4. ProposalsTyped' /\ Longer
  BY <1>1, <1>2, <1>3 DEF ProposalsTyped, Longer, Events, Kinds
<1> QED BY <1>1, <1>4, FormKeeps

\* Its window opens and shuts.
LEMMA WindowKeeps ==
  ASSUME ProposalsInductive, CloseForm \/ DatePasses \/ UNCHANGED proposalVars PROVE ProposalsInductive'
<1>1. ProposalsTyped
  BY WhatFits
<1>2. window' \in {"open", "shut", "closed"}
  BY <1>1 DEF ProposalsTyped, CloseForm, DatePasses, proposalVars, tables
<1>3. UNCHANGED <<published, proposal, numbers, decided, notice, request>>
  BY DEF CloseForm, DatePasses, proposalVars, tables
<1>4. ProposalsTyped' /\ Longer
  BY <1>1, <1>2, <1>3 DEF ProposalsTyped, Longer, Events, Kinds
<1> QED BY <1>3, <1>4, FormKeeps

\* A save whose number is taken changes nothing.
LEMMA UpdateFailsKeeps ==
  ASSUME ProposalsInductive, NEW r \in Requests, UpdateFails(r) PROVE ProposalsInductive'
<1>1. request' = [request EXCEPT ![r] = NoRequest] /\ UNCHANGED tables
  BY DEF UpdateFails
<1>2. /\ ProposalsTyped /\ RoomLeft /\ request'[r] = NoRequest
      /\ \A q \in Requests : q # r => request'[q] = request[q]
      /\ request' = [q \in Requests |-> request'[q]]
  BY <1>1, WhatFits DEF ProposalsTyped
<1>3. UNCHANGED <<published, window, proposal, numbers, decided, notice>>
  BY <1>1 DEF tables
<1>4. ProposalsTyped' /\ Longer
  BY <1>1, <1>2, <1>3 DEF ProposalsTyped, Longer, Events, Kinds
<1>5. RoomLeft'
  <2>1. Submitting' \subseteq Submitting
    BY <1>2 DEF Submitting, NoRequest
  <2>2. Own' = Own
    BY <1>3 DEF Own, Event
  <2> QED BY <1>2, <1>4, <2>1, <2>2, RoomStays
<1>6. RequestFits(r)'
  BY <1>2 DEF RequestFits, NoRequest
<1> QED BY <1>1, <1>5, <1>6, CheckKeeps

\* At first there is no proposal.
LEMMA ProposalsStarts == ASSUME ProposalsInit PROVE ProposalsInductive
<1>1. PICK d \in Definitions : published = <<d>>
  BY DEF ProposalsInit
<1>2. /\ window = "open" /\ proposal = [s \in Proposals |-> Absent]
      /\ numbers = [s \in Proposals |-> {}] /\ decided = [s \in Proposals |-> 0]
      /\ notice = {} /\ request = [r \in Requests |-> NoRequest]
  BY DEF ProposalsInit
<1>3. ProposalsTyped
  BY <1>1, <1>2 DEF ProposalsTyped, Absent
<1>4. \A r \in Requests : RequestFits(r)
  BY <1>2 DEF RequestFits
<1>5. ASSUME NEW s \in Proposals PROVE ProposalFits(s)
  <2>1. /\ proposal[s].state = "absent" /\ proposal[s].current = 0 /\ numbers[s] = {} /\ decided[s] = 0
    BY <1>2 DEF Absent
  <2>2. 1..0 = {}
    OBVIOUS
  <2> QED BY <1>2, <2>1, <2>2 DEF ProposalFits, TellsOnce
<1>6. RoomLeft
  <2>1. Own = {} /\ Submitting = {}
    BY <1>2 DEF Own, Submitting, Absent, NoRequest
  <2>2. Cardinality(Own) = 0 /\ Cardinality(Submitting) = 0
    BY <2>1, FS_EmptySet
  <2>3. d.limit \in Limits /\ d.limit \in Nat
    BY <1>1, <1>3, RoomTyped DEF Limits
  <2>4. Cardinality(Requests) \in Nat
    BY <1>3, RoomTyped
  <2>5. 0 \notin Limits => d.limit >= 1
    BY <2>3
  <2> QED BY <2>2, <2>3, <2>4, <2>5 DEF RoomLeft
<1> QED BY <1>3, <1>4, <1>5, <1>6 DEF ProposalsInductive

\* Every step keeps the invariant.
LEMMA ProposalsSteps ==
  ASSUME ProposalsInductive, [ProposalsNext]_proposalVars PROVE ProposalsInductive'
<1>1. CASE UNCHANGED proposalVars
  BY <1>1, WindowKeeps
<1>2. ASSUME NEW r \in Requests, NEW draft \in BOOLEAN, NEW answers \in SUBSET Keys,
             \/ CreateChecks(r, draft, answers)
             \/ \E s \in Proposals : UpdateChecks(r, s, draft, answers)
      PROVE  ProposalsInductive'
  BY <1>2, CreateChecksKeeps, UpdateChecksKeeps
<1>3. ASSUME NEW r \in Requests,
             (\E s \in Proposals : CreateCommits(r, s)) \/ UpdateCommits(r) \/ UpdateFails(r)
      PROVE  ProposalsInductive'
  BY <1>3, CreateCommitsKeeps, UpdateCommitsKeeps, UpdateFailsKeeps
<1>4. ASSUME NEW s \in Proposals, Decide(s) \/ ManualEntry(s) PROVE ProposalsInductive'
  BY <1>4, DecideKeeps, ManualEntryKeeps
<1>5. ASSUME NEW d \in Definitions, NEW dates \in {"open", "shut"}, Publish(d, dates)
      PROVE  ProposalsInductive'
  BY <1>5, PublishKeeps
<1>6. CASE CloseForm \/ DatePasses
  BY <1>6, WindowKeeps
<1> QED BY <1>1, <1>2, <1>3, <1>4, <1>5, <1>6 DEF ProposalsNext

\* The invariant holds in every state, for any definitions and any number of requests.
THEOREM ProposalsInvariance == ProposalsSpec => []ProposalsInductive
BY ProposalsStarts, ProposalsSteps, PTL DEF ProposalsSpec

-----------------------------------------------------------------------------
(* What the run checks.                                                    *)

\* The events of a proposal, as the ledger counts them.
LEMMA ToldOnceFollows ==
  ASSUME NEW s \in Proposals, ProposalsTyped, ProposalFits(s) PROVE ToldOnce(s)
<1>1. CASE proposal[s].state # "submitted"
  BY <1>1 DEF ProposalFits, TellsOnce, ToldOnce
<1>2. CASE proposal[s].state = "submitted"
  <2>1. PICK first \in 1..proposal[s].current :
          /\ \E e \in notice : e.of = s /\ e.kind \in Entered /\ e.number = first
          /\ \A e \in notice : e.of = s =>
               /\ e.kind \in Entered => e.number = first
               /\ e.kind = "updated" => e.number \in (first + 1)..proposal[s].current
          /\ \A n \in (first + 1)..proposal[s].current : Event("updated", s, n) \in notice
    BY <1>2 DEF ProposalFits, TellsOnce
  <2>2. {e.number : e \in {x \in notice : x.of = s /\ x.kind \in Entered}} = {first}
    BY <2>1
  <2>3. {e.number : e \in {x \in notice : x.of = s /\ x.kind = "updated"}}
          = (first + 1)..proposal[s].current
    <3>1. ASSUME NEW n \in (first + 1)..proposal[s].current
          PROVE  n \in {e.number : e \in {x \in notice : x.of = s /\ x.kind = "updated"}}
      <4>1. PICK e \in notice : e = Event("updated", s, n)
        BY <2>1
      <4>2. e.of = s /\ e.kind = "updated" /\ e.number = n
        BY <4>1 DEF Event
      <4> QED BY <4>2
    <3>2. ASSUME NEW e \in notice, e.of = s, e.kind = "updated"
          PROVE  e.number \in (first + 1)..proposal[s].current
      BY <2>1, <3>2
    <3> QED BY <3>1, <3>2
  <2> QED BY <1>2, <2>2, <2>3 DEF ToldOnce
<1> QED BY <1>1, <1>2

\* What a speaker has sent is complete, told once and within the limit.
LEMMA ProposalsFollow == ProposalsInductive => ProposalsSafe
<1> SUFFICES ASSUME ProposalsInductive PROVE ProposalsSafe
  OBVIOUS
<1>1. /\ ProposalsTyped /\ RoomLeft /\ \A s \in Proposals : ProposalFits(s)
      /\ \A r \in Requests : RequestFits(r)
  BY WhatFits
<1>2. ProposalsTypeOK
  BY <1>1 DEF ProposalsTyped, ProposalsTypeOK, RequestFits, NoRequest, Creates, Updates
<1>3. ProposalLedger
  BY <1>1, ToldOnceFollows DEF ProposalLedger, ProposalFits
<1>4. SubmittedIsComplete /\ OneCrossingEdit
  BY <1>1 DEF SubmittedIsComplete, OneCrossingEdit, ProposalFits
<1>5. LimitOverrun
  <2> SUFFICES ASSUME 0 \notin Limits
               PROVE  \E n \in Limits : Cardinality(Own) <= n + Cardinality(Requests) - 1
    BY DEF LimitOverrun, Limits, Own
  <2>1. PICK n \in Limits : Cardinality(Own) + Cardinality(Submitting) <= n + Cardinality(Requests) - 1
    BY <1>1 DEF RoomLeft
  <2>2. Own \in SUBSET Proposals /\ Submitting \in SUBSET Requests /\ {} \in SUBSET Requests
    BY DEF Own, Submitting
  <2>3. /\ Cardinality(Own) \in Nat /\ Cardinality(Submitting) \in Nat /\ n \in Nat
        /\ Cardinality(Requests) \in Nat
    <3>1. Cardinality(Requests) \in Nat
      BY ProposalsAssumption, FS_CardinalityType
    <3> QED BY <1>1, <2>2, <3>1, RoomTyped
  <2> QED BY <2>1, <2>3
<1> QED BY <1>2, <1>3, <1>4, <1>5 DEF ProposalsSafe

\* However saves, decisions and new definitions of the form interleave, a speaker's proposal
\* is submitted once, complete by the version it names, with one event per version, at most
\* one version ahead of its decision, and the limit is overrun by overlapping requests only
\* (createSpeakerSubmission, updateSpeakerSubmission, assertSubmissionLimit).
THEOREM ProposalsAreSafe == ProposalsSpec => []ProposalsSafe
BY ProposalsInvariance, ProposalsFollow, PTL

-----------------------------------------------------------------------------
(***************************************************************************)
(* Portal: what a speaker is shown of decisions, sessions and tasks, for   *)
(* every set of proposals and tasks.                                       *)
(***************************************************************************)

AskRows == [is : {"asked"}, kind : AskKinds, about : Talks \cup {NoTalk}, assigned : BOOLEAN,
            file : BOOLEAN, session : Talks \cup {NoTalk}, overdue : BOOLEAN, complete : BOOLEAN]

\* A task is about the session it is linked to, if it has a file; and only a session
\* file is about a session, which is there.
AskFits(k) ==
  ask[k] # Unasked =>
    /\ ask[k] \in AskRows
    /\ ask[k].session \in Inserted \cup {NoTalk}
    /\ ask[k].file => ask[k].session = ask[k].about
    /\ ask[k].kind # "session_file" => ask[k].about = NoTalk

PortalInductive ==
  /\ PortalTypeOK
  /\ ask = [k \in Asks |-> ask[k]]
  /\ \A k \in Asks : AskFits(k)
  /\ \A p \in saving \ overtaken : outcome[p] = "none"
  /\ told \subseteq overtaken

-----------------------------------------------------------------------------
(* Sessions.                                                               *)

\* A session that is inserted is inserted once more among the others.
LEMMA InsertedGrows ==
  ASSUME PortalTypeOK, NEW p \in Talks, created' = Append(created, p)
  PROVE  /\ Inserted' = Inserted \cup {p} /\ created' \in Seq(Talks)
         /\ p \notin Inserted =>
              \A i, j \in DOMAIN created' : created'[i] = created'[j] => i = j
<1>1. created \in Seq(Talks)
  BY DEF PortalTypeOK
<1>2. /\ Len(created) \in Nat /\ DOMAIN created = 1..Len(created)
      /\ DOMAIN created' = 1..(Len(created) + 1)
      /\ created'[Len(created) + 1] = p
      /\ \A i \in 1..Len(created) : created'[i] = created[i]
      /\ created' \in Seq(Talks)
  BY <1>1
<1>3. Inserted' = Inserted \cup {p}
  BY <1>2 DEF Inserted
<1>4. ASSUME p \notin Inserted, NEW i \in DOMAIN created', NEW j \in DOMAIN created',
             created'[i] = created'[j]
      PROVE  i = j
  <2>1. \A m \in 1..Len(created) : created[m] # p
    BY <1>2, <1>4 DEF Inserted
  <2>2. \A m, n \in 1..Len(created) : created[m] = created[n] => m = n
    BY <1>2 DEF PortalTypeOK
  <2>3. CASE i = Len(created) + 1
    BY <1>2, <1>4, <2>1, <2>3
  <2>4. CASE j = Len(created) + 1
    BY <1>2, <1>4, <2>1, <2>4
  <2>5. CASE i \in 1..Len(created) /\ j \in 1..Len(created)
    BY <1>2, <1>4, <2>2, <2>5
  <2> QED BY <1>2, <2>3, <2>4, <2>5
<1> QED BY <1>2, <1>3, <1>4

\* The oldest session is one that is there.
LEMMA OldestIsInserted == ASSUME PortalTypeOK PROVE Oldest \in Inserted \cup {NoTalk}
<1>1. created \in Seq(Talks)
  BY DEF PortalTypeOK
<1>2. created # <<>> => 1 \in DOMAIN created /\ Head(created) = created[1]
  BY <1>1
<1> QED BY <1>2 DEF Oldest, Inserted

\* Sessions are those of proposals.
LEMMA InsertedAreTalks == ASSUME PortalTypeOK PROVE Inserted \subseteq Talks
<1>1. created \in Seq(Talks)
  BY DEF PortalTypeOK
<1> QED BY <1>1 DEF Inserted

\* No proposal has two sessions, so the rows are as many as the sessions.
LEMMA InsertedOnce == ASSUME PortalTypeOK PROVE Cardinality(Inserted) = Len(created)
<1>1. created \in Seq(Talks) /\ \A i, j \in DOMAIN created : created[i] = created[j] => i = j
  BY DEF PortalTypeOK
<1>2. Len(created) \in Nat /\ DOMAIN created = 1..Len(created)
  BY <1>1
<1>3. created \in [1..Len(created) -> Inserted]
  BY <1>1, <1>2 DEF Inserted
<1>4. created \in Bijection(1..Len(created), Inserted)
  <2>1. IsInjective(created)
    BY <1>1 DEF IsInjective
  <2>2. \A p \in Inserted : \E i \in 1..Len(created) : created[i] = p
    BY <1>2 DEF Inserted
  <2>3. created \in Injection(1..Len(created), Inserted)
    BY <1>3, <2>1 DEF Injection
  <2>4. created \in Surjection(1..Len(created), Inserted)
    BY <1>3, <2>2 DEF Surjection
  <2> QED BY <2>3, <2>4 DEF Bijection
<1>5. ExistsBijection(1..Len(created), Inserted)
  BY <1>4 DEF ExistsBijection
<1> QED BY <1>2, <1>5, FS_CountingElements

-----------------------------------------------------------------------------
(* The steps.                                                              *)

\* What is asked stays asked for as long as sessions stay.
LEMMA AsksStay ==
  ASSUME PortalInductive, Inserted \subseteq Inserted', NEW k \in Asks, ask'[k] = ask[k]
  PROVE  AskFits(k)'
<1>1. AskFits(k)
  BY DEF PortalInductive
<1> QED BY <1>1 DEF AskFits, Unasked, AskRows, AskKinds

\* A decision, with the session an acceptance inserts.
LEMMA DecisionsKeep ==
  ASSUME PortalInductive, NEW p \in Talks, Rejects(p) \/ Accepts(p) PROVE PortalInductive'
<1>1. PortalTypeOK /\ outcome \in [Talks -> {"none", "accepted", "rejected"}]
  BY DEF PortalInductive, PortalTypeOK
<1>2. /\ UNCHANGED <<ask, owing, saving, told>> /\ overtaken' = overtaken \cup ({p} \cap saving)
      /\ speaking' \in BOOLEAN /\ released' \subseteq released
      /\ p \in released' => outcome'[p] # "none"
      /\ outcome' \in [Talks -> {"none", "accepted", "rejected"}]
      /\ \A q \in Talks : q # p => outcome'[q] = outcome[q]
  BY <1>1 DEF Rejects, Accepts, PortalTypeOK
<1>3. /\ created' \in Seq(Talks) /\ Inserted \subseteq Inserted'
      /\ \A q \in Talks : outcome'[q] = "accepted" <=> q \in Inserted'
      /\ \A i, j \in DOMAIN created' : created'[i] = created'[j] => i = j
  <2>1. CASE Rejects(p)
    <3>1. created' = created /\ outcome' = [outcome EXCEPT ![p] = "rejected"] /\ outcome[p] = "none"
      BY <2>1 DEF Rejects
    <3>2. Inserted' = Inserted
      BY <3>1 DEF Inserted
    <3> QED BY <1>1, <3>1, <3>2 DEF PortalTypeOK
  <2>2. CASE Accepts(p)
    <3>1. /\ created' = Append(created, p) /\ outcome' = [outcome EXCEPT ![p] = "accepted"]
          /\ outcome[p] # "accepted"
      BY <2>2 DEF Accepts
    <3>2. p \notin Inserted
      BY <1>1, <3>1 DEF PortalTypeOK
    <3>3. /\ Inserted' = Inserted \cup {p} /\ created' \in Seq(Talks)
          /\ \A i, j \in DOMAIN created' : created'[i] = created'[j] => i = j
      BY <1>1, <3>1, <3>2, InsertedGrows
    <3> QED BY <1>1, <3>1, <3>3 DEF PortalTypeOK
  <2> QED BY <2>1, <2>2
<1>4. \A k \in Asks : AskFits(k)'
  BY <1>2, <1>3, AsksStay
<1>5. released' \subseteq {q \in Talks : outcome'[q] # "none"}
  BY <1>1, <1>2 DEF PortalTypeOK
<1>6. PortalTypeOK'
  BY <1>1, <1>2, <1>3, <1>5 DEF PortalTypeOK
<1>7. \A q \in saving' \ overtaken' : outcome'[q] = "none"
  BY <1>1, <1>2 DEF PortalInductive, PortalTypeOK
<1> QED BY <1>2, <1>4, <1>6, <1>7 DEF PortalInductive

\* A step that leaves decisions and sessions alone.
LEMMA OthersKeep ==
  ASSUME PortalInductive, UNCHANGED <<outcome, created>>,
         released' \subseteq {p \in Talks : outcome[p] # "none"},
         {owing', speaking'} \subseteq BOOLEAN, saving' \subseteq Talks, overtaken' = overtaken,
         \A p \in saving' \ overtaken : outcome[p] = "none", told' \subseteq overtaken,
         ask' = [k \in Asks |-> ask'[k]], \A k \in Asks : ask'[k] # ask[k] => AskFits(k)'
  PROVE  PortalInductive'
<1>1. PortalTypeOK
  BY DEF PortalInductive
<1>2. Inserted' = Inserted
  BY DEF Inserted
<1>3. \A k \in Asks : AskFits(k)'
  BY <1>2, AsksStay
<1>4. PortalTypeOK'
  BY <1>1, <1>2 DEF PortalTypeOK
<1> QED BY <1>3, <1>4 DEF PortalInductive

\* A task that is asked, of the speaker or of the colleague.
LEMMA AskingKeeps ==
  ASSUME PortalInductive, NEW k \in Asks, NEW kind \in AskKinds,
         AsksSpeaker(k, kind) \/ AsksColleague(k, kind)
  PROVE  PortalInductive'
<1>1. PICK linked : linked = IF kind = "session_file" THEN Oldest ELSE NoTalk
  OBVIOUS
<1>2. linked \in Inserted \cup {NoTalk} /\ linked \in Talks \cup {NoTalk}
  BY <1>1, OldestIsInserted, InsertedAreTalks DEF PortalInductive
<1>3. PICK a : /\ ask' = [ask EXCEPT ![k] = a]
               /\ \/ a = [Asked(kind, linked) EXCEPT !.assigned = TRUE, !.file = (kind # "action"),
                                                     !.session = linked]
                  \/ a = Asked(kind, linked)
  BY <1>1 DEF AsksSpeaker, AsksColleague
<1> DEFINE b == Asked(kind, linked)
<1>10. /\ b \in AskRows /\ b.kind = kind /\ b.about = linked
       /\ b.session = NoTalk /\ b.file = FALSE
  BY <1>2 DEF AskRows, Asked
<1>4. /\ a \in AskRows /\ a.kind = kind /\ a.about = linked
      /\ \/ a.session = linked
         \/ a.session = NoTalk /\ ~a.file
  <2> HIDE DEF b
  <2>1. a = b \/ a = [b EXCEPT !.assigned = TRUE, !.file = (kind # "action"), !.session = linked]
    BY <1>3 DEF b
  <2>2. (kind # "action") \in BOOLEAN
    OBVIOUS
  <2>3. CASE a = b
    BY <1>10, <2>3
  <2>4. CASE a = [b EXCEPT !.assigned = TRUE, !.file = (kind # "action"), !.session = linked]
    <3>1. PICK v \in BOOLEAN : v = (kind # "action")
      BY <2>2
    <3>2. a = [b EXCEPT !.assigned = TRUE, !.file = v, !.session = linked]
      BY <2>4, <3>1
    <3> QED BY <1>2, <1>10, <3>2 DEF AskRows
  <2> QED BY <2>1, <2>3, <2>4
<1>5. UNCHANGED <<outcome, released, created, speaking, owing, saving, overtaken, told>>
  BY DEF AsksSpeaker, AsksColleague
<1>6. /\ ask' = [q \in Asks |-> ask'[q]] /\ ask'[k] = a
      /\ \A q \in Asks : q # k => ask'[q] = ask[q]
  BY <1>3 DEF PortalInductive
<1>7. Inserted' = Inserted
  BY <1>5 DEF Inserted
<1>8. AskFits(k)'
  BY <1>1, <1>2, <1>4, <1>6, <1>7 DEF AskFits, AskRows, AskKinds
<1>9. \A q \in Asks : ask'[q] # ask[q] => AskFits(q)'
  BY <1>6, <1>8
<1> QED BY <1>5, <1>6, <1>9, OthersKeep DEF PortalInductive, PortalTypeOK

\* An assignment that is made, dated or completed.
LEMMA AssignmentsKeep ==
  ASSUME PortalInductive, UNCHANGED <<outcome, released, created, speaking, saving, overtaken, told>>,
         owing' \in BOOLEAN, ask' = [k \in Asks |-> ask'[k]],
         \A k \in Asks : ask'[k] # ask[k] =>
           /\ ask[k] # Unasked
           /\ \E v \in BOOLEAN : \/ ask'[k] = [ask[k] EXCEPT !.assigned = v]
                                 \/ ask'[k] = [ask[k] EXCEPT !.overdue = v]
                                 \/ ask'[k] = [ask[k] EXCEPT !.complete = v]
  PROVE  PortalInductive'
<1>1. Inserted' = Inserted
  BY DEF Inserted
<1>2. ASSUME NEW k \in Asks, ask'[k] # ask[k] PROVE AskFits(k)'
  <2>1. AskFits(k) /\ ask[k] \in AskRows
    BY <1>2 DEF PortalInductive, AskFits
  <2>2. /\ ask'[k] \in AskRows /\ ask'[k].session = ask[k].session /\ ask'[k].file = ask[k].file
        /\ ask'[k].about = ask[k].about /\ ask'[k].kind = ask[k].kind
    BY <1>2, <2>1 DEF AskRows
  <2>3. AskRows' = AskRows
    BY DEF AskRows, AskKinds
  <2> QED BY <1>1, <1>2, <2>1, <2>2, <2>3 DEF AskFits
<1> QED BY <1>2, OthersKeep DEF PortalInductive, PortalTypeOK

\* The first state.
LEMMA PortalStarts == PortalInit => PortalInductive
<1> SUFFICES ASSUME PortalInit PROVE PortalInductive
  OBVIOUS
<1>1. Inserted = {} /\ created \in Seq(Talks)
  BY DEF PortalInit, Inserted
<1>2. PortalTypeOK
  <2>1. DOMAIN created = {}
    BY DEF PortalInit
  <2> QED BY <1>1, <2>1 DEF PortalInit, PortalTypeOK
<1> QED BY <1>2 DEF PortalInit, PortalInductive, AskFits

\* Every step of the portal keeps the invariant.
LEMMA PortalSteps == PortalInductive /\ [PortalNext]_portalVars => PortalInductive'
<1> SUFFICES ASSUME PortalInductive, [PortalNext]_portalVars PROVE PortalInductive'
  OBVIOUS
<1>1. ASSUME NEW p \in Talks, Rejects(p) \/ Accepts(p) PROVE PortalInductive'
  BY <1>1, DecisionsKeep
<1>2. ASSUME NEW p \in Talks, Releases(p) PROVE PortalInductive'
  BY <1>2, OthersKeep DEF Releases, PortalInductive, PortalTypeOK
<1>3. ASSUME NEW p \in Talks, SaveChecked(p) PROVE PortalInductive'
  BY <1>3, OthersKeep DEF SaveChecked, StillEditable, PortalInductive, PortalTypeOK
<1>4. ASSUME NEW p \in Talks, SaveAnswered(p) PROVE PortalInductive'
  <2>1. /\ UNCHANGED <<outcome, released, created, speaking, ask, owing, overtaken>>
        /\ p \in saving /\ saving' = saving \ {p}
        /\ told' = told \/ (told' = told \cup {p} /\ outcome[p] # "none")
    BY <1>4 DEF SaveAnswered, SubmissionRecord
  <2>2. told' \subseteq overtaken
    BY <2>1 DEF PortalInductive
  <2> QED BY <2>1, <2>2, OthersKeep DEF PortalInductive, PortalTypeOK
<1>5. ASSUME AddedByOrganizer PROVE PortalInductive'
  BY <1>5, OthersKeep DEF AddedByOrganizer, PortalInductive, PortalTypeOK
<1>6. ASSUME HandsOverTasks PROVE PortalInductive'
  BY <1>6, AssignmentsKeep DEF HandsOverTasks
<1>7. ASSUME NEW k \in Asks, NEW kind \in AskKinds, AsksSpeaker(k, kind) \/ AsksColleague(k, kind)
      PROVE  PortalInductive'
  BY <1>7, AskingKeeps
<1>8. ASSUME NEW k \in Asks, NEW v \in BOOLEAN, SetsDueDate(k, v) PROVE PortalInductive'
  <2>1. /\ ask[k] # Unasked /\ ask' = [ask EXCEPT ![k].overdue = v]
        /\ UNCHANGED <<outcome, released, created, speaking, owing, saving, overtaken, told>>
    BY <1>8 DEF SetsDueDate
  <2>2. /\ ask' = [q \in Asks |-> ask'[q]] /\ ask'[k] = [ask[k] EXCEPT !.overdue = v]
        /\ \A q \in Asks : q # k => ask'[q] = ask[q]
    BY <2>1 DEF PortalInductive
  <2> QED BY <2>1, <2>2, AssignmentsKeep DEF PortalInductive, PortalTypeOK
<1>9. ASSUME NEW k \in Asks, Completes(k) PROVE PortalInductive'
  <2>1. /\ ask[k] # Unasked /\ ask' = [ask EXCEPT ![k].complete = TRUE]
        /\ UNCHANGED <<outcome, released, created, speaking, owing, saving, overtaken, told>>
    BY <1>9 DEF Completes, DetailTasks, Assigned
  <2>2. /\ ask' = [q \in Asks |-> ask'[q]] /\ ask'[k] = [ask[k] EXCEPT !.complete = TRUE]
        /\ \A q \in Asks : q # k => ask'[q] = ask[q]
    BY <2>1 DEF PortalInductive
  <2> QED BY <2>1, <2>2, AssignmentsKeep DEF PortalInductive, PortalTypeOK
<1>10. CASE UNCHANGED portalVars
  BY <1>10, OthersKeep DEF portalVars, PortalInductive, PortalTypeOK
<1> QED BY <1>1, <1>2, <1>3, <1>4, <1>5, <1>6, <1>7, <1>8, <1>9, <1>10 DEF PortalNext

\* Sessions are those of accepted proposals, files are of sessions that are there, and
\* an answer tells of a decision that is not released only if it crossed it.
THEOREM PortalInvariance == PortalSpec => []PortalInductive
<1> QED BY PortalStarts, PortalSteps, PTL DEF PortalSpec

-----------------------------------------------------------------------------
(* What is shown.                                                          *)

\* A speaker's page counts the same tasks in the same way.
LEMMA ProgressOfSame ==
  ASSUME NEW tasks, NEW a, NEW b,
         \A k \in tasks : a[k].complete = b[k].complete /\ a[k].overdue = b[k].overdue
  PROVE  Progress(tasks, a) = Progress(tasks, b)
<1>1. {k \in tasks : a[k].complete} = {k \in tasks : b[k].complete}
  OBVIOUS
<1>2. {k \in tasks : ~a[k].complete /\ a[k].overdue} = {k \in tasks : ~b[k].complete /\ b[k].overdue}
  OBVIOUS
<1> QED BY <1>1, <1>2 DEF Progress

\* Nothing that is shown tells of a decision that is not released.
LEMMA ShowsReleasedOnly == ASSUME PortalInductive PROVE OnlyReleasedShows
<1> DEFINE undecided == [p \in Talks |-> IF p \in released THEN outcome[p] ELSE "none"]
           unlinked == [k \in Asks |->
             IF ask[k] # Unasked /\ ask[k].session \notin released
             THEN [ask[k] EXCEPT !.session = NoTalk] ELSE ask[k]]
           there == Inserted \cap released
<1>1. released \subseteq Talks /\ NoTalk \notin released
  BY PortalAssumption DEF PortalInductive, PortalTypeOK
<1>2. ASSUME NEW k \in Asks
      PROVE  /\ unlinked[k] = Unasked <=> ask[k] = Unasked
             /\ ask[k] # Unasked =>
                  /\ unlinked[k].assigned = ask[k].assigned /\ unlinked[k].file = ask[k].file
                  /\ unlinked[k].kind = ask[k].kind /\ unlinked[k].overdue = ask[k].overdue
                  /\ unlinked[k].complete = ask[k].complete
                  /\ ReleasedSpeakerDeliverable(unlinked[k], released)
                       <=> ReleasedSpeakerDeliverable(ask[k], released)
  <2>1. CASE ask[k] = Unasked
    BY <2>1
  <2>2. CASE ask[k] # Unasked
    <3>1. ask[k] \in AskRows
      BY <2>2 DEF PortalInductive, AskFits
    <3>2. PICK u : u = unlinked[k]
      OBVIOUS
    <3>3. u = IF ask[k].session \notin released THEN [ask[k] EXCEPT !.session = NoTalk] ELSE ask[k]
      BY <2>2, <3>2
    <3>4. /\ u \in AskRows /\ u.assigned = ask[k].assigned /\ u.file = ask[k].file
          /\ u.kind = ask[k].kind /\ u.overdue = ask[k].overdue /\ u.complete = ask[k].complete
          /\ u.session = IF ask[k].session \notin released THEN NoTalk ELSE ask[k].session
      BY <3>1, <3>3 DEF AskRows
    <3>5. u # Unasked
      BY <3>4 DEF AskRows, Unasked
    <3> HIDE DEF unlinked
    <3> QED BY <1>1, <2>2, <3>2, <3>4, <3>5 DEF ReleasedSpeakerDeliverable, ReleasedSpeakerSession
  <2> QED BY <2>1, <2>2
<1> HIDE DEF unlinked
<1>3. Assigned(unlinked) = Assigned(ask)
  BY <1>2 DEF Assigned
<1>4. \A k \in Assigned(ask) : k \in Asks /\ ask[k] # Unasked
  BY DEF Assigned
<1>5. DetailTasks(unlinked, released, FALSE) = DetailTasks(ask, released, FALSE)
  BY <1>2, <1>3, <1>4 DEF DetailTasks
<1>6. AssignedSessions(there, released, FALSE) = AssignedSessions(Inserted, released, FALSE)
  BY DEF AssignedSessions, ReleasedSpeakerSession
<1>7. SpeakerDetail(unlinked, there, released, FALSE) = SpeakerDetail(ask, Inserted, released, FALSE)
  <2>1. \A k \in DetailTasks(ask, released, FALSE) : k \in Asks /\ ask[k] # Unasked
    BY <1>4 DEF DetailTasks
  <2>2. \A k \in DetailTasks(ask, released, FALSE) :
          ask[k].complete = unlinked[k].complete /\ ask[k].overdue = unlinked[k].overdue
    BY <1>2, <2>1
  <2>3. Progress(DetailTasks(ask, released, FALSE), ask)
          = Progress(DetailTasks(ask, released, FALSE), unlinked)
    BY <2>2, ProgressOfSame
  <2> QED BY <1>5, <1>6, <2>3 DEF SpeakerDetail
<1>8. OwnDeliverables(unlinked, released) = OwnDeliverables(ask, released)
  BY <1>2 DEF OwnDeliverables, WorkspaceTasks
<1>9. RemindedOf(unlinked, released) = RemindedOf(ask, released)
  BY <1>2, <1>3, <1>4 DEF RemindedOf
<1>10. /\ \A k \in Asks : MayUpload(k, unlinked, released) <=> MayUpload(k, ask, released)
       /\ \A k \in Asks : MayDownload(k, unlinked, released) <=> MayDownload(k, ask, released)
  BY <1>2, <1>3, <1>4 DEF MayUpload, MayDownload, WorkspaceTasks
<1>11. ASSUME NEW p \in Talks
       PROVE  SubmissionRecord(p, undecided, there, released, FALSE)
                = SubmissionRecord(p, outcome, Inserted, released, FALSE)
  <2>1. (IF FALSE \/ p \in released THEN undecided[p] ELSE "none")
          = (IF FALSE \/ p \in released THEN outcome[p] ELSE "none")
    OBVIOUS
  <2>2. ((IF FALSE \/ p \in released THEN outcome[p] ELSE "none") = "accepted" /\ p \in there)
          = ((IF FALSE \/ p \in released THEN outcome[p] ELSE "none") = "accepted" /\ p \in Inserted)
    OBVIOUS
  <2> HIDE DEF undecided, there
  <2> QED BY <2>1, <2>2 DEF SubmissionRecord
<1>12. SubmissionRecords(undecided, there, released, FALSE)
         = SubmissionRecords(outcome, Inserted, released, FALSE)
  <2>1. ASSUME NEW p \in Talks
        PROVE  /\ (IF FALSE \/ p \in released THEN undecided[p] ELSE "none")
                    = (IF FALSE \/ p \in released THEN outcome[p] ELSE "none")
               /\ ((IF FALSE \/ p \in released THEN outcome[p] ELSE "none") = "accepted" /\ p \in there)
                    = ((IF FALSE \/ p \in released THEN outcome[p] ELSE "none") = "accepted"
                         /\ p \in Inserted)
    OBVIOUS
  <2> HIDE DEF undecided, there
  <2> QED BY <2>1 DEF SubmissionRecords
<1>13. [p \in Talks |-> SubmissionRecord(p, undecided, there, released, FALSE)]
         = [p \in Talks |-> SubmissionRecord(p, outcome, Inserted, released, FALSE)]
  BY <1>11
<1>14. View(undecided, there, released, unlinked) = View(outcome, Inserted, released, ask)
  <2> HIDE DEF undecided, there
  <2>1. {k \in Asks : MayUpload(k, unlinked, released)} = {k \in Asks : MayUpload(k, ask, released)}
    BY <1>10
  <2>2. {k \in Asks : MayDownload(k, unlinked, released)} = {k \in Asks : MayDownload(k, ask, released)}
    BY <1>10
  <2> QED BY <1>7, <1>8, <1>9, <1>12, <1>13, <2>1, <2>2 DEF View
<1> QED BY <1>14 DEF OnlyReleasedShows, SpeakerSees, unlinked

\* What the speaker sees, part by part.
LEMMA Seen ==
  /\ SpeakerSees.detail.tasks = DetailTasks(ask, released, FALSE)
  /\ SpeakerSees.detail.sessions = AssignedSessions(Inserted, released, FALSE)
  /\ SpeakerSees.files = OwnDeliverables(ask, released)
  /\ SpeakerSees.reminders = RemindedOf(ask, released)
  /\ SpeakerSees.proposals = SubmissionRecords(outcome, Inserted, released, FALSE)
  /\ SpeakerSees.uploads = {k \in Asks : MayUpload(k, ask, released)}
<1>1. /\ SpeakerSees.detail = SpeakerDetail(ask, Inserted, released, FALSE)
      /\ SpeakerSees.files = OwnDeliverables(ask, released)
      /\ SpeakerSees.reminders = RemindedOf(ask, released)
      /\ SpeakerSees.proposals = SubmissionRecords(outcome, Inserted, released, FALSE)
      /\ SpeakerSees.uploads = {k \in Asks : MayUpload(k, ask, released)}
  BY DEF SpeakerSees, View
<1> QED BY <1>1 DEF SpeakerDetail

\* What the answers to a speaker's proposal say.
LEMMA AnswersFit ==
  ASSUME NEW p \in Talks
  PROVE  /\ SpeakerSees.proposals[p].decision = IF p \in released THEN outcome[p] ELSE "none"
         /\ SpeakerSees.proposals[p].session <=>
              p \in released /\ outcome[p] = "accepted" /\ p \in Inserted
<1>1. SpeakerSees.proposals[p] =
        [decision |-> IF FALSE \/ p \in released THEN outcome[p] ELSE "none",
         session |-> (IF FALSE \/ p \in released THEN outcome[p] ELSE "none") = "accepted"
                       /\ p \in Inserted]
  BY Seen DEF SubmissionRecords
<1>2. PICK d : d = IF p \in released THEN outcome[p] ELSE "none"
  OBVIOUS
<1>3. SpeakerSees.proposals[p] = [decision |-> d, session |-> d = "accepted" /\ p \in Inserted]
  BY <1>1, <1>2
<1>7. PICK b \in BOOLEAN : b = (d = "accepted" /\ p \in Inserted)
  OBVIOUS
<1>4. SpeakerSees.proposals[p].decision = d /\ SpeakerSees.proposals[p].session = b
  BY <1>3, <1>7
<1>5. SpeakerSees.proposals[p].session <=> d = "accepted" /\ p \in Inserted
  BY <1>4, <1>7
<1>6. d = "accepted" <=> p \in released /\ outcome[p] = "accepted"
  BY <1>2
<1> QED BY <1>2, <1>4, <1>5, <1>6

\* Titles of tasks whose sessions are not released show only if nothing is linked.
LEMMA TitlesShow == ASSUME PortalInductive PROVE OnlyUnlinkedTitlesShow
<1> SUFFICES ASSUME NEW k \in DetailTasks(ask, released, FALSE), ask[k].file
             PROVE  ask[k].about \in released \cup {NoTalk}
  BY Seen DEF OnlyUnlinkedTitlesShow
<1>1. /\ k \in Asks /\ ask[k] # Unasked /\ ReleasedSpeakerDeliverable(ask[k], released)
      /\ AskFits(k)
  BY DEF DetailTasks, Assigned, PortalInductive
<1> QED BY <1>1 DEF AskFits, ReleasedSpeakerDeliverable, ReleasedSpeakerSession

\* What is released is on every page.
LEMMA ShowsReleased == ASSUME PortalInductive PROVE ReleasedIsShown
<1>1. ASSUME NEW p \in released, outcome[p] = "accepted"
      PROVE  p \in SpeakerSees.detail.sessions /\ SpeakerSees.proposals[p].session
  <2>1. p \in Talks /\ p \in Inserted
    BY <1>1 DEF PortalInductive, PortalTypeOK
  <2> QED BY <1>1, <2>1, Seen, AnswersFit DEF AssignedSessions, ReleasedSpeakerSession
<1>2. ASSUME NEW k \in Assigned(ask), ask[k].file, ask[k].session \in released
      PROVE  k \in SpeakerSees.files \cap SpeakerSees.detail.tasks \cap SpeakerSees.uploads
  <2>1. /\ k \in Asks /\ ask[k] # Unasked /\ released \subseteq Talks
        /\ ReleasedSpeakerDeliverable(ask[k], released)
    BY <1>2, PortalAssumption
       DEF Assigned, PortalInductive, PortalTypeOK, ReleasedSpeakerDeliverable, ReleasedSpeakerSession
  <2> QED BY <1>2, <2>1, Seen DEF OwnDeliverables, WorkspaceTasks, DetailTasks, MayUpload
<1>3. \A k \in SpeakerSees.detail.tasks :
        ask[k].overdue /\ ~ask[k].complete <=> k \in SpeakerSees.reminders
  BY Seen DEF DetailTasks, RemindedOf
<1> QED BY <1>1, <1>2, <1>3 DEF ReleasedIsShown

\* The roster counts what the detail joins.
LEMMA RosterCounts == ASSUME PortalInductive PROVE RosterAgrees
<1> DEFINE detail == SpeakerDetail(ask, Inserted, released, TRUE)
<1>1. DetailTasks(ask, released, TRUE) = Assigned(ask)
  BY DEF DetailTasks
<1>2. AssignedSessions(Inserted, released, TRUE) = Inserted
  BY DEF AssignedSessions
<1>3. detail.progress = Progress(Assigned(ask), ask) /\ detail.sessions = Inserted
  BY <1>1, <1>2 DEF SpeakerDetail
<1>4. Cardinality(Inserted) = Len(created)
  BY InsertedOnce DEF PortalInductive
<1> HIDE DEF detail
<1>5. RosterItem.progress = detail.progress /\ RosterItem.sessionCount = Cardinality(detail.sessions)
  BY <1>3, <1>4 DEF RosterItem
<1> QED BY <1>5 DEF RosterAgrees, detail

\* At any moment every page of the speaker reads as if what is not released had not been
\* decided, and shows all that is; and the organizers' roster agrees with their detail.
THEOREM PortalIsSafe == PortalSpec => []PortalSafe
<1>1. PortalInductive => PortalSafe
  BY ShowsReleasedOnly, TitlesShow, ShowsReleased, RosterCounts
     DEF PortalSafe, PortalInductive, OnlyCrossingSavesTell
<1> QED BY <1>1, PortalInvariance, PTL

-----------------------------------------------------------------------------
(* What has been shown.                                                    *)

\* A task that is seen has its session among the released ones, which stays so.
LEMMA ReleasedStay ==
  ASSUME PortalInductive, [PortalNext]_portalVars, NEW p \in Inserted, p \in released
  PROVE  p \in released' /\ p \in Inserted'
<1>1. p \in Talks /\ outcome[p] = "accepted" /\ PortalTypeOK
  BY InsertedAreTalks DEF PortalInductive, PortalTypeOK
<1>2. CASE \E q \in Talks : Accepts(q)
  <2>1. PICK q \in Talks : Accepts(q)
    BY <1>2
  <2>2. Inserted' = Inserted \cup {q} /\ q # p /\ released' = released \ {q}
    BY <1>1, <2>1, InsertedGrows DEF Accepts
  <2> QED BY <2>2
<1>3. CASE UNCHANGED created /\ released \subseteq released'
  <2>1. Inserted' = Inserted
    BY <1>3 DEF Inserted
  <2> QED BY <1>3, <2>1
<1>4. (\E q \in Talks : Accepts(q)) \/ (UNCHANGED created /\ released \subseteq released')
  BY DEF PortalNext, portalVars, Rejects, Releases, SaveChecked, SaveAnswered, AddedByOrganizer,
         HandsOverTasks, AsksSpeaker, AsksColleague, SetsDueDate, Completes
<1> QED BY <1>2, <1>3, <1>4

\* A task that is assigned and has a file keeps both, with its kind and session.
LEMMA AssignedStay ==
  ASSUME PortalInductive, [PortalNext]_portalVars, NEW k \in Asks, ask[k] # Unasked
  PROVE  /\ ask'[k] # Unasked /\ (ask[k].assigned => ask'[k].assigned)
         /\ ask'[k].file = ask[k].file /\ ask'[k].kind = ask[k].kind
         /\ ask'[k].session = ask[k].session
<1>1. ask[k] \in AskRows /\ ask = [q \in Asks |-> ask[q]]
  BY DEF PortalInductive, AskFits
<1>2. \/ ask'[k] = ask[k]
      \/ ask'[k] = [ask[k] EXCEPT !.assigned = TRUE]
      \/ \E v \in BOOLEAN : ask'[k] = [ask[k] EXCEPT !.overdue = v]
      \/ ask'[k] = [ask[k] EXCEPT !.complete = TRUE]
  <2>1. CASE \E q \in Asks, kind \in AskKinds : AsksSpeaker(q, kind) \/ AsksColleague(q, kind)
    <3>1. PICK q, a : q \in Asks /\ ask[q] = Unasked /\ ask' = [ask EXCEPT ![q] = a]
      BY <2>1 DEF AsksSpeaker, AsksColleague
    <3> QED BY <1>1, <3>1
  <2>2. CASE \E q \in Asks, v \in BOOLEAN : SetsDueDate(q, v)
    <3>1. PICK q \in Asks, v \in BOOLEAN : ask' = [ask EXCEPT ![q].overdue = v]
      BY <2>2 DEF SetsDueDate
    <3> QED BY <1>1, <3>1
  <2>3. CASE \E q \in Asks : Completes(q)
    <3>1. PICK q \in Asks : ask' = [ask EXCEPT ![q].complete = TRUE]
      BY <2>3 DEF Completes
    <3> QED BY <1>1, <3>1
  <2>4. CASE HandsOverTasks
    BY <1>1, <2>4 DEF HandsOverTasks
  <2>5. CASE UNCHANGED ask
    BY <2>5
  <2>6. \/ \E q \in Asks, kind \in AskKinds : AsksSpeaker(q, kind) \/ AsksColleague(q, kind)
        \/ \E q \in Asks, v \in BOOLEAN : SetsDueDate(q, v)
        \/ \E q \in Asks : Completes(q)
        \/ HandsOverTasks \/ UNCHANGED ask
    BY DEF PortalNext, portalVars, Rejects, Accepts, Releases, SaveChecked, SaveAnswered,
           AddedByOrganizer
  <2> QED BY <2>1, <2>2, <2>3, <2>4, <2>5, <2>6
<1> QED BY <1>1, <1>2 DEF AskRows, Unasked

\* A decision that is shown changes only from a rejection to an acceptance.
LEMMA ShownDecisionStays ==
  ASSUME PortalInductive, [PortalNext]_portalVars, NEW p \in Talks,
         SpeakerSees.proposals[p].decision \notin {"none", SpeakerSees'.proposals[p].decision}
  PROVE  outcome[p] = "rejected" /\ outcome'[p] = "accepted"
<1>1. /\ outcome \in [Talks -> {"none", "accepted", "rejected"}]
      /\ p \in released /\ outcome[p] # "none"
      /\ p \in released' => outcome'[p] # outcome[p]
  <2>1. SpeakerSees'.proposals[p].decision = IF p \in released' THEN outcome'[p] ELSE "none"
    <3>1. SpeakerSees'.proposals = SubmissionRecords(outcome, Inserted, released, FALSE)'
      BY DEF SpeakerSees, View
    <3>2. SpeakerSees'.proposals[p] =
            [decision |-> IF FALSE \/ p \in released' THEN outcome'[p] ELSE "none",
             session |-> (IF FALSE \/ p \in released' THEN outcome'[p] ELSE "none") = "accepted"
                           /\ p \in Inserted']
      BY <3>1 DEF SubmissionRecords
    <3> QED BY <3>2
  <2> QED BY <2>1, AnswersFit DEF PortalInductive, PortalTypeOK
<1>2. CASE \E q \in Talks : Accepts(q)
  <2>1. PICK q \in Talks : /\ released' = released \ {q} /\ outcome[q] # "accepted"
                           /\ outcome' = [outcome EXCEPT ![q] = "accepted"]
    BY <1>2 DEF Accepts
  <2>2. q = p
    BY <1>1, <2>1
  <2> QED BY <1>1, <2>1, <2>2
<1>3. CASE \E q \in Talks : Rejects(q)
  <2>1. PICK q \in Talks : /\ released' = released /\ outcome[q] = "none"
                           /\ outcome' = [outcome EXCEPT ![q] = "rejected"]
    BY <1>3 DEF Rejects
  <2> QED BY <1>1, <2>1
<1>4. CASE UNCHANGED outcome /\ released \subseteq released'
  BY <1>1, <1>4
<1>5. \/ \E q \in Talks : Accepts(q) \/ Rejects(q)
      \/ UNCHANGED outcome /\ released \subseteq released'
  BY DEF PortalNext, portalVars, Releases, SaveChecked, SaveAnswered, AddedByOrganizer,
         HandsOverTasks, AsksSpeaker, AsksColleague, SetsDueDate, Completes
<1> QED BY <1>2, <1>3, <1>4, <1>5

\* Nothing that a speaker has been shown is taken back, except a rejection that becomes
\* an acceptance.
THEOREM ShownIsKept == PortalSpec => [][ShownStays]_portalVars
<1>1. ASSUME PortalInductive, [PortalNext]_portalVars PROVE ShownStays
  <2>7. /\ SpeakerSees'.detail = SpeakerDetail(ask, Inserted, released, FALSE)'
        /\ SpeakerSees'.files = OwnDeliverables(ask, released)'
    BY DEF SpeakerSees, View
  <2>1. /\ SpeakerSees'.detail.tasks = DetailTasks(ask, released, FALSE)'
        /\ SpeakerSees'.detail.sessions = AssignedSessions(Inserted, released, FALSE)'
        /\ SpeakerSees'.files = OwnDeliverables(ask, released)'
    BY <2>7 DEF SpeakerDetail
  <2>2. AssignedSessions(Inserted, released, FALSE) \subseteq AssignedSessions(Inserted, released, FALSE)'
    BY <1>1, ReleasedStay DEF AssignedSessions, ReleasedSpeakerSession
  <2>3. ASSUME NEW k \in Asks, ask[k] # Unasked, ReleasedSpeakerDeliverable(ask[k], released)
        PROVE  ReleasedSpeakerDeliverable(ask[k], released)'
    <3>1. /\ ask'[k].file = ask[k].file /\ ask'[k].kind = ask[k].kind
          /\ ask'[k].session = ask[k].session
      BY <1>1, <2>3, AssignedStay
    <3>2. AskFits(k)
      BY <1>1 DEF PortalInductive
    <3>3. ask[k].session \in released /\ ask[k].session # NoTalk => ask[k].session \in released'
      BY <1>1, <2>3, <3>2, ReleasedStay DEF AskFits
    <3> QED BY <2>3, <3>1, <3>3 DEF ReleasedSpeakerDeliverable, ReleasedSpeakerSession
  <2>4. DetailTasks(ask, released, FALSE) \subseteq DetailTasks(ask, released, FALSE)'
    BY <1>1, <2>3, AssignedStay DEF DetailTasks, Assigned
  <2>5. OwnDeliverables(ask, released) \subseteq OwnDeliverables(ask, released)'
    BY <1>1, <2>3, AssignedStay DEF OwnDeliverables, WorkspaceTasks
  <2>6. \A p \in Talks :
          SpeakerSees.proposals[p].decision \notin {"none", SpeakerSees'.proposals[p].decision} =>
            outcome[p] = "rejected" /\ outcome'[p] = "accepted"
    BY <1>1, ShownDecisionStays
  <2> QED BY <2>1, <2>2, <2>4, <2>5, <2>6, Seen DEF ShownStays
<1>2. PortalInductive /\ [PortalNext]_portalVars => [ShownStays]_portalVars
  BY <1>1
<1> QED BY <1>2, PortalInvariance, PTL DEF PortalSpec

-----------------------------------------------------------------------------
(***************************************************************************)
(* EventCatalog: the tracks of the event and the sessions that refer to    *)
(* them.                                                                   *)
(***************************************************************************)

\* A function.
IsItself(f) == f = [x \in DOMAIN f |-> f[x]]

(* The loop of a save, by induction over the entries of the list.          *)

\* The first turns that a save of a list takes from the catalog as it is, as a function.
Loop(asked, n, turn) ==
  turn = [i \in 0..n |->
            IF i = 0 THEN [rows |-> entry, kept |-> {}, failed |-> FALSE]
            ELSE SaveEntry(turn[i - 1], asked, i)]

\* There is such a function.
LEMMA LoopIsThere ==
  ASSUME NEW asked, NEW n \in Nat
  PROVE  \E turn : Loop(asked, n, turn)
<1> DEFINE Good == {k \in Nat : \E turn : Loop(asked, k, turn)}
<1>1. 0 \in Good
  <2>1. PICK turn : turn = [i \in 0..0 |-> [rows |-> entry, kept |-> {}, failed |-> FALSE]]
    OBVIOUS
  <2>2. Loop(asked, 0, turn)
    BY <2>1 DEF Loop
  <2> QED BY <2>2
<1>2. ASSUME NEW k \in Nat, k \in Good PROVE k + 1 \in Good
  <2>1. PICK turn : Loop(asked, k, turn)
    BY <1>2
  <2>2. PICK next : next = [i \in 0..(k + 1) |->
                              IF i = k + 1 THEN SaveEntry(turn[k], asked, k + 1) ELSE turn[i]]
    OBVIOUS
  <2>3. \A i \in 0..k : turn[i] = IF i = 0 THEN [rows |-> entry, kept |-> {}, failed |-> FALSE]
                                  ELSE SaveEntry(turn[i - 1], asked, i)
    BY <2>1 DEF Loop
  <2>4. \A i \in 0..k : next[i] = turn[i]
    BY <1>2, <2>2
  <2>5. \A i \in 0..(k + 1) :
          next[i] = IF i = 0 THEN [rows |-> entry, kept |-> {}, failed |-> FALSE]
                    ELSE SaveEntry(next[i - 1], asked, i)
    <3> SUFFICES ASSUME NEW i \in 0..(k + 1)
                 PROVE  next[i] = IF i = 0 THEN [rows |-> entry, kept |-> {}, failed |-> FALSE]
                                  ELSE SaveEntry(next[i - 1], asked, i)
      OBVIOUS
    <3>1. CASE i = k + 1
      <4>1. next[i] = SaveEntry(turn[k], asked, i) /\ i # 0 /\ i - 1 = k /\ k \in 0..k
        BY <1>2, <2>2, <3>1
      <4> QED BY <2>4, <4>1
    <3>2. CASE i \in 0..k
      <4>1. i # 0 => i - 1 \in 0..k
        BY <1>2, <3>2
      <4> QED BY <2>3, <2>4, <3>2, <4>1
    <3> QED BY <1>2, <3>1, <3>2
  <2>6. Loop(asked, k + 1, next)
    BY <2>2, <2>5 DEF Loop
  <2> QED BY <1>2, <2>6
<1>3. Nat \subseteq Good
  BY <1>1, <1>2, Induction
<1> QED BY <1>3

\* The entry that a list has at a place.
Entry(asked, i) == [name |-> asked[i], order |-> i - 1]

\* What is true after some turns, unless the save failed: nothing is removed yet,
\* and the rows that are kept are the entries so far, each under its name and place.
KeepsEntries(save, asked, i) ==
  /\ DOMAIN entry \subseteq DOMAIN save.rows /\ DOMAIN save.rows \subseteq TrackRows
  /\ save.kept \subseteq DOMAIN save.rows
  /\ IsFiniteSet(save.kept) /\ Cardinality(save.kept) = i
  /\ \A r \in save.kept : \E j \in 1..i : save.rows[r] = Entry(asked, j)
  /\ \A j \in 1..i : \E r \in save.kept : save.rows[r] = Entry(asked, j)
  /\ IsFiniteSet({asked[j] : j \in 1..i}) /\ Cardinality({asked[j] : j \in 1..i}) = i

\* A turn gives the entry to this row.
Takes(save, asked, i, row) ==
  SaveEntry(save, asked, i) =
    [rows |-> [r \in DOMAIN save.rows \cup {row} |->
                 IF r = row THEN Entry(asked, i) ELSE save.rows[r]],
     kept |-> save.kept \cup {row}, failed |-> FALSE]

\* A turn that does not fail takes a row that is not kept yet.
LEMMA TurnTakesRow ==
  ASSUME NEW save, NEW asked, NEW i,
         DOMAIN entry \subseteq TrackRows, save.kept \subseteq DOMAIN save.rows,
         ~SaveEntry(save, asked, i).failed
  PROVE  \E row \in TrackRows \ save.kept : Takes(save, asked, i, row)
<1> DEFINE match == Matching(save.kept, asked, i)
           fresh == {r \in TrackRows \ DOMAIN save.rows : \A s \in Accepted : picked[s] # r}
<1>1. PICK row : row = CHOOSE r \in (IF match # {} THEN match ELSE fresh) : TRUE
  OBVIOUS
<1>2. match \subseteq DOMAIN entry \ save.kept
  BY DEF Matching
<1>3. SaveEntry(save, asked, i) =
        IF save.failed \/ (match = {} /\ fresh = {}) \/ ~Fits(save.rows, row, Entry(asked, i))
        THEN [rows |-> save.rows, kept |-> save.kept, failed |-> TRUE]
        ELSE [rows |-> [r \in DOMAIN save.rows \cup {row} |->
                          IF r = row THEN Entry(asked, i) ELSE save.rows[r]],
              kept |-> save.kept \cup {row}, failed |-> FALSE]
  BY <1>1 DEF SaveEntry, Entry
<1> HIDE DEF match, fresh
<1>4. ~(save.failed \/ (match = {} /\ fresh = {}) \/ ~Fits(save.rows, row, Entry(asked, i)))
  BY <1>3
<1>5. row \in match \/ row \in fresh
  BY <1>1, <1>4
<1>6. row \in TrackRows \ save.kept
  BY <1>2, <1>5 DEF fresh
<1> QED BY <1>3, <1>4, <1>6 DEF Takes

\* One more turn keeps one more row.
LEMMA TurnKeeps ==
  ASSUME NEW save, NEW asked \in Lists, NEW i \in 1..Len(asked),
         DOMAIN entry \subseteq TrackRows,
         KeepsEntries(save, asked, i - 1), ~SaveEntry(save, asked, i).failed
  PROVE  KeepsEntries(SaveEntry(save, asked, i), asked, i)
<1>1. PICK row \in TrackRows \ save.kept : Takes(save, asked, i, row)
  <2>1. save.kept \subseteq DOMAIN save.rows
    BY DEF KeepsEntries
  <2> QED BY <2>1, TurnTakesRow
<1>2. PICK next : next = SaveEntry(save, asked, i)
  OBVIOUS
<1>3. PICK rows : rows = [r \in DOMAIN save.rows \cup {row} |->
                            IF r = row THEN Entry(asked, i) ELSE save.rows[r]]
  OBVIOUS
<1>4. next.rows = rows /\ next.kept = save.kept \cup {row}
  BY <1>1, <1>2, <1>3 DEF Takes
<1>5. Len(asked) \in Nat /\ i \in Nat /\ 1..i = 1..(i - 1) \cup {i} /\ i \notin 1..(i - 1)
  <2>1. PICK m \in 0..MaxEntries : asked \in [1..m -> Names]
    BY DEF Lists, BoundedSeq, SeqOf
  <2>2. m \in Nat /\ Len(asked) = m
    BY <2>1, EventCatalogAssumption
  <2> QED BY <2>2
<1>6. DOMAIN rows = DOMAIN save.rows \cup {row}
  BY <1>3
<1>7. rows[row] = Entry(asked, i) /\ \A r \in save.kept : rows[r] = save.rows[r]
  BY <1>1, <1>3 DEF KeepsEntries
<1>8. IsFiniteSet(save.kept \cup {row}) /\ Cardinality(save.kept \cup {row}) = i
  <2>1. PICK kept : kept = save.kept
    OBVIOUS
  <2>2. IsFiniteSet(kept) /\ Cardinality(kept) = i - 1 /\ row \notin kept
    BY <1>1, <2>1 DEF KeepsEntries
  <2>3. IsFiniteSet(kept \cup {row}) /\ Cardinality(kept \cup {row}) = Cardinality(kept) + 1
    BY <2>2, FS_AddElement
  <2> QED BY <1>5, <2>1, <2>2, <2>3
<1>9. \A r \in save.kept \cup {row} : \E j \in 1..i : rows[r] = Entry(asked, j)
  BY <1>5, <1>7 DEF KeepsEntries
<1>10. \A j \in 1..i : \E r \in save.kept \cup {row} : rows[r] = Entry(asked, j)
  BY <1>5, <1>7 DEF KeepsEntries
<1>11. /\ IsFiniteSet({asked[j] : j \in 1..i})
       /\ Cardinality({asked[j] : j \in 1..i}) = i
  <2>1. PICK before : before = {asked[j] : j \in 1..(i - 1)}
    OBVIOUS
  <2>2. asked[i] \notin before
    <3>1. \A j \in 1..(i - 1) : j \in DOMAIN asked /\ i \in DOMAIN asked /\ j # i
      BY <1>5 DEF Lists, BoundedSeq, SeqOf
    <3> QED BY <2>1, <3>1 DEF Lists, IsInjective
  <2>3. IsFiniteSet(before) /\ Cardinality(before) = i - 1
    BY <2>1 DEF KeepsEntries
  <2>4. IsFiniteSet(before \cup {asked[i]}) /\ Cardinality(before \cup {asked[i]}) = Cardinality(before) + 1
    BY <2>2, <2>3, FS_AddElement
  <2>5. {asked[j] : j \in 1..i} = before \cup {asked[i]}
    BY <1>5, <2>1
  <2>6. Cardinality(before \cup {asked[i]}) = i
    BY <1>5, <2>3, <2>4
  <2> QED BY <2>4, <2>5, <2>6, Zenon
<1>12. DOMAIN entry \subseteq DOMAIN rows /\ DOMAIN rows \subseteq TrackRows
       /\ save.kept \cup {row} \subseteq DOMAIN rows
  BY <1>1, <1>6 DEF KeepsEntries
<1> QED BY <1>2, <1>4, <1>6, <1>8, <1>9, <1>10, <1>11, <1>12 DEF KeepsEntries

\* After the turns that a save took, unless it failed.
LEMMA LoopKeeps ==
  ASSUME NEW asked \in Lists, NEW turn, Loop(asked, Len(asked), turn),
         DOMAIN entry \subseteq TrackRows, IsItself(entry), ~turn[Len(asked)].failed
  PROVE  KeepsEntries(turn[Len(asked)], asked, Len(asked))
<1>0. Len(asked) \in Nat
  BY EventCatalogAssumption DEF Lists, BoundedSeq, SeqOf
<1> DEFINE Good == {k \in Nat : k \in 0..Len(asked) => turn[k].failed \/ KeepsEntries(turn[k], asked, k)}
<1>1. 0 \in Good
  <2>1. turn[0] = [rows |-> entry, kept |-> {}, failed |-> FALSE]
    BY <1>0 DEF Loop
  <2>2. {asked[j] : j \in 1..0} = {}
    OBVIOUS
  <2>3. turn[0].rows = entry /\ turn[0].kept = {}
    BY <2>1
  <2>4. IsFiniteSet({}) /\ Cardinality({}) = 0 /\ \A j \in 1..0 : FALSE
    BY FS_EmptySet
  <2>5. KeepsEntries(turn[0], asked, 0)
    BY <2>2, <2>3, <2>4 DEF KeepsEntries
  <2> QED BY <2>5
<1>2. ASSUME NEW k \in Nat, k \in Good PROVE k + 1 \in Good
  <2> SUFFICES ASSUME k + 1 \in 0..Len(asked), ~turn[k + 1].failed
               PROVE  KeepsEntries(turn[k + 1], asked, k + 1)
    BY <1>2
  <2>1. turn[k + 1] = SaveEntry(turn[k], asked, k + 1) /\ k \in 0..Len(asked)
    <3>1. turn[k + 1] = IF k + 1 = 0 THEN [rows |-> entry, kept |-> {}, failed |-> FALSE]
                        ELSE SaveEntry(turn[(k + 1) - 1], asked, k + 1)
      BY DEF Loop
    <3>2. k + 1 # 0 /\ (k + 1) - 1 = k /\ k \in 0..Len(asked)
      BY <1>0, <1>2
    <3> QED BY <3>1, <3>2
  <2>2. ~turn[k].failed
    BY <2>1 DEF SaveEntry
  <2>3. KeepsEntries(turn[k], asked, k)
    BY <1>2, <2>1, <2>2
  <2>4. k = (k + 1) - 1 /\ k + 1 \in 1..Len(asked)
    BY <1>0, <1>2
  <2> QED BY <2>1, <2>3, <2>4, TurnKeeps
<1>3. Len(asked) \in Good
  BY <1>0, <1>1, <1>2, Induction
<1> QED BY <1>0, <1>3

-----------------------------------------------------------------------------
(* The inductive invariant: what CatalogSafe says, of a catalog that is a  *)
(* function.                                                               *)

CatalogInductive == CatalogSafe /\ IsItself(entry)

\* Rows that are the entries of a list, each once, read in its order.
LEMMA ListReadsInOrder ==
  ASSUME NEW asked \in Lists, NEW rows, IsFiniteSet(DOMAIN rows),
         Cardinality(DOMAIN rows) = Len(asked),
         \A r \in DOMAIN rows : \E j \in 1..Len(asked) : rows[r] = Entry(asked, j),
         \A j \in 1..Len(asked) : \E r \in DOMAIN rows : rows[r] = Entry(asked, j),
         Cardinality({asked[j] : j \in 1..Len(asked)}) = Len(asked)
  PROVE  /\ \A r \in DOMAIN rows : rows[r] \in [name : Names, order : 0..(MaxEntries - 1)]
         /\ {rows[r].order : r \in DOMAIN rows} = 0..(Cardinality(DOMAIN rows) - 1)
         /\ Cardinality(NamesOf(rows)) = Cardinality(DOMAIN rows)
<1>1. Len(asked) \in 0..MaxEntries /\ \A j \in 1..Len(asked) : asked[j] \in Names
  BY EventCatalogAssumption DEF Lists, BoundedSeq, SeqOf
<1>2. \A j \in 1..Len(asked) : Entry(asked, j).name = asked[j] /\ Entry(asked, j).order = j - 1
  BY DEF Entry
<1>3. ASSUME NEW r \in DOMAIN rows PROVE rows[r] \in [name : Names, order : 0..(MaxEntries - 1)]
  <2>1. PICK j \in 1..Len(asked) : rows[r] = Entry(asked, j)
    OBVIOUS
  <2>2. asked[j] \in Names /\ j - 1 \in 0..(MaxEntries - 1)
    BY <1>1, EventCatalogAssumption
  <2> QED BY <2>1, <2>2 DEF Entry
<1>4. {rows[r].order : r \in DOMAIN rows} = 0..(Len(asked) - 1)
  <2>1. ASSUME NEW r \in DOMAIN rows PROVE rows[r].order \in 0..(Len(asked) - 1)
    BY <1>1, <1>2
  <2>2. ASSUME NEW k \in 0..(Len(asked) - 1) PROVE \E r \in DOMAIN rows : rows[r].order = k
    <3>1. k + 1 \in 1..Len(asked) /\ (k + 1) - 1 = k
      BY <1>1
    <3> QED BY <1>2, <3>1
  <2> QED BY <2>1, <2>2
<1>5. NamesOf(rows) = {asked[j] : j \in 1..Len(asked)}
  <2>1. ASSUME NEW r \in DOMAIN rows PROVE rows[r].name \in {asked[j] : j \in 1..Len(asked)}
    BY <1>2
  <2>2. ASSUME NEW j \in 1..Len(asked) PROVE asked[j] \in NamesOf(rows)
    BY <1>2 DEF NamesOf
  <2> QED BY <2>1, <2>2 DEF NamesOf
<1> QED BY <1>3, <1>4, <1>5

\* The first catalog is a list, each entry in the row of its place.
LEMMA CatalogInitInductive == CatalogInit => CatalogInductive
<1> SUFFICES ASSUME CatalogInit PROVE CatalogInductive
  OBVIOUS
<1>1. PICK asked \in Lists : entry = [r \in DOMAIN asked |-> [name |-> asked[r], order |-> r - 1]]
  BY DEF CatalogInit
<1>2. Len(asked) \in 0..MaxEntries /\ DOMAIN asked = 1..Len(asked)
  BY EventCatalogAssumption DEF Lists, BoundedSeq, SeqOf
<1>3. DOMAIN entry = 1..Len(asked) /\ \A r \in 1..Len(asked) : entry[r] = Entry(asked, r)
  BY <1>1, <1>2 DEF Entry
<1>4. IsFiniteSet(1..Len(asked)) /\ Cardinality(1..Len(asked)) = Len(asked)
  <2>1. PICK n : n = Len(asked)
    OBVIOUS
  <2>2. n \in Nat
    BY <1>2, <2>1, EventCatalogAssumption
  <2>3. IsFiniteSet(1..n) /\ Cardinality(1..n) = n
    <3>1. IsFiniteSet(1..n) /\ Cardinality(1..n) = IF 1 > n THEN 0 ELSE n - 1 + 1
      BY <2>2, FS_Interval
    <3> QED BY <2>2, <3>1
  <2> QED BY <2>1, <2>3
<1>5. Cardinality({asked[j] : j \in 1..Len(asked)}) = Len(asked)
  <2>1. PICK f : f = [j \in 1..Len(asked) |-> asked[j]]
    OBVIOUS
  <2>2. f \in Bijection(1..Len(asked), {asked[j] : j \in 1..Len(asked)})
    BY <1>2, <2>1 DEF Bijection, Injection, Surjection, Lists, IsInjective
  <2> QED BY <1>4, <2>2, FS_Bijection DEF ExistsBijection
<1>6. ReadsInOrder /\ \A r \in DOMAIN entry : entry[r] \in [name : Names, order : 0..(MaxEntries - 1)]
  BY <1>3, <1>4, <1>5, ListReadsInOrder DEF ReadsInOrder
<1>7. DOMAIN entry \subseteq TrackRows
  BY <1>2, <1>3, EventCatalogAssumption DEF TrackRows
<1> QED BY <1>1, <1>6, <1>7
        DEF CatalogInductive, CatalogSafe, CatalogTypeOK, NoDanglingTrack, IsItself, CatalogInit

\* How a save that did not fail ends.
Ends(save) ==
  /\ ~save.failed
  /\ Unreferenced(DOMAIN save.rows \ save.kept)
  /\ entry' = [r \in save.kept |-> save.rows[r]]
  /\ UNCHANGED <<track, picked>>

\* A save leaves the list, and every row that a session refers to.
LEMMA SaveKeepsCatalog ==
  ASSUME CatalogInductive, NEW asked \in Lists, SaveCatalog(asked)
  PROVE  CatalogInductive'
<1>1. PICK n : n = Len(asked)
  OBVIOUS
<1>2. n \in Nat
  BY <1>1, EventCatalogAssumption DEF Lists, BoundedSeq, SeqOf
<1>3. PICK turn : Loop(asked, n, turn) /\ Ends(turn[n])
  <2>1. \E t : Loop(asked, Len(asked), t)
    BY <1>1, <1>2, LoopIsThere
  <2>2. PICK turn : turn = CHOOSE t : Loop(asked, Len(asked), t)
    OBVIOUS
  <2>3. Loop(asked, Len(asked), turn)
    BY <2>1, <2>2
  <2>4. SaveEntries(asked) = turn[Len(asked)]
    BY <2>2 DEF SaveEntries, Loop
  <2>5. Ends(SaveEntries(asked))
    BY DEF SaveCatalog, Ends
  <2> QED BY <1>1, <2>3, <2>4, <2>5
<1>4. PICK save : save = turn[n] /\ Ends(save)
  BY <1>3
<1>5. KeepsEntries(save, asked, n)
  BY <1>1, <1>3, <1>4, LoopKeeps DEF CatalogInductive, CatalogSafe, CatalogTypeOK, Ends
<1>6. PICK rows : rows = entry'
  OBVIOUS
<1>7. DOMAIN rows = save.kept /\ \A r \in save.kept : rows[r] = save.rows[r]
  BY <1>4, <1>6 DEF Ends
<1>8. /\ IsFiniteSet(DOMAIN rows) /\ Cardinality(DOMAIN rows) = Len(asked)
      /\ \A r \in DOMAIN rows : \E j \in 1..Len(asked) : rows[r] = Entry(asked, j)
      /\ \A j \in 1..Len(asked) : \E r \in DOMAIN rows : rows[r] = Entry(asked, j)
      /\ Cardinality({asked[j] : j \in 1..Len(asked)}) = Len(asked)
  BY <1>1, <1>5, <1>7 DEF KeepsEntries
<1>9. /\ \A r \in DOMAIN rows : rows[r] \in [name : Names, order : 0..(MaxEntries - 1)]
      /\ {rows[r].order : r \in DOMAIN rows} = 0..(Cardinality(DOMAIN rows) - 1)
      /\ Cardinality(NamesOf(rows)) = Cardinality(DOMAIN rows)
  BY <1>8, ListReadsInOrder
<1>10. ReadsInOrder'
  BY <1>6, <1>9 DEF ReadsInOrder, NamesOf
<1>11. CatalogTypeOK'
  BY <1>4, <1>5, <1>6, <1>7, <1>9 DEF Ends, KeepsEntries, CatalogInductive, CatalogSafe, CatalogTypeOK, TrackRows
<1>12. NoDanglingTrack'
  <2> SUFFICES ASSUME NEW s \in Accepted PROVE track[s] \in DOMAIN rows \cup {NoTrack}
    BY <1>4, <1>6 DEF NoDanglingTrack, Ends
  <2>1. track[s] \notin DOMAIN save.rows \ save.kept
    BY <1>4 DEF Unreferenced, Ends
  <2>2. track[s] \in DOMAIN save.rows \cup {NoTrack}
    BY <1>5 DEF KeepsEntries, CatalogInductive, CatalogSafe, NoDanglingTrack
  <2> QED BY <1>7, <2>1, <2>2
<1>13. IsItself(entry)'
  BY <1>4 DEF IsItself, Ends
<1> QED BY <1>10, <1>11, <1>12, <1>13 DEF CatalogInductive, CatalogSafe

\* CatalogSafe in every state: the catalog reads as the list that was saved last, and
\* no session refers to a row that is gone.
THEOREM CatalogInvariance == CatalogSpec => []CatalogInductive
<1>1. ASSUME CatalogInductive, [CatalogNext]_catalogVars PROVE CatalogInductive'
  <2> USE DEF CatalogInductive, CatalogSafe
  <2>1. ASSUME NEW asked \in Lists, SaveCatalog(asked) PROVE CatalogInductive'
    BY <1>1, <2>1, SaveKeepsCatalog
  <2>2. ASSUME NEW s \in Accepted, NEW n \in Names, FindTrack(s, n) PROVE CatalogInductive'
    <3>1. PICK v : v = IF n \in NamesOf(entry)
                       THEN CHOOSE r \in DOMAIN entry : entry[r].name = n ELSE NoTrack
      OBVIOUS
    <3>2. v \in TrackRows \cup {NoTrack}
      <4>1. n \in NamesOf(entry) => \E r \in DOMAIN entry : entry[r].name = n
        BY DEF NamesOf
      <4> QED BY <1>1, <3>1, <4>1 DEF CatalogTypeOK
    <3>3. picked' = [picked EXCEPT ![s] = v] /\ UNCHANGED <<entry, track>>
      BY <2>2, <3>1 DEF FindTrack
    <3>4. CatalogTypeOK'
      BY <1>1, <3>2, <3>3 DEF CatalogTypeOK, TrackRows
    <3> QED BY <1>1, <3>3, <3>4 DEF ReadsInOrder, NoDanglingTrack, IsItself, NamesOf
  <2>3. ASSUME NEW s \in Accepted, InsertSession(s) PROVE CatalogInductive'
    <3>1. PICK v : v = IF picked[s] \in DOMAIN entry THEN picked[s] ELSE NoTrack
      OBVIOUS
    <3>2. track' = [track EXCEPT ![s] = v] /\ picked' = [picked EXCEPT ![s] = Unread] /\ entry' = entry
      BY <2>3, <3>1 DEF InsertSession
    <3>3. v \in DOMAIN entry \cup {NoTrack}
      BY <3>1
    <3>4. CatalogTypeOK'
      BY <1>1, <3>2, <3>3 DEF CatalogTypeOK, TrackRows
    <3> QED BY <1>1, <3>2, <3>3, <3>4 DEF ReadsInOrder, NoDanglingTrack, IsItself, NamesOf, CatalogTypeOK
  <2>4. CASE UNCHANGED catalogVars
    BY <1>1, <2>4 DEF catalogVars, CatalogTypeOK, ReadsInOrder, NoDanglingTrack, IsItself, NamesOf, TrackRows
  <2> QED BY <1>1, <2>1, <2>2, <2>3, <2>4 DEF CatalogNext
<1> QED BY <1>1, CatalogInitInductive, PTL DEF CatalogSpec

-----------------------------------------------------------------------------
(***************************************************************************)
(* MCServices: a behaviour of the services is one of each module.          *)
(***************************************************************************)

\* A behaviour of the services moves the proposals as Proposals does, or leaves
\* them alone.
LEMMA ServicesMoveProposals == ServicesSpec => ProposalsSpec
<1>1. ServicesInit => ProposalsInit
  BY DEF ServicesInit
<1>2. [ServicesNext]_servicesVars => [ProposalsNext]_proposalVars
  BY DEF ServicesNext, servicesVars
<1> QED BY <1>1, <1>2, PTL DEF ServicesSpec, ProposalsSpec

\* The portal likewise.
LEMMA ServicesMovePortal == ServicesSpec => PortalSpec
<1>1. ServicesInit => PortalInit
  BY DEF ServicesInit
<1>2. [ServicesNext]_servicesVars => [PortalNext]_portalVars
  BY DEF ServicesNext, servicesVars
<1> QED BY <1>1, <1>2, PTL DEF ServicesSpec, PortalSpec

\* ProposalsSafe in every state of the services: limits, required answers and
\* versions hold of every proposal, however the requests overlap.
THEOREM ProposalsStayInLimits == ServicesSpec => []ProposalsHold
<1>1. ProposalsSafe => ProposalsHold
  BY DEF ProposalsHold
<1> QED BY <1>1, ServicesMoveProposals, ProposalsAreSafe, PTL

\* PortalSafe in every state of the services: what a speaker is shown is what is
\* asked of them.
THEOREM PortalShowsWhatIsAsked == ServicesSpec => []PortalHolds
<1>1. PortalSafe => PortalHolds
  BY DEF PortalHolds
<1> QED BY <1>1, ServicesMovePortal, PortalIsSafe, PTL

\* Only an organizer who reopens a task takes it back from what the portal shows.
THEOREM NothingElseHides == ServicesSpec => OnlyReopeningHides
<1>1. [ShownStays]_portalVars => [side = "portal" => ShownStays]_portalVars
  OBVIOUS
<1> QED BY <1>1, ServicesMovePortal, ShownIsKept, PTL DEF OnlyReopeningHides

\* The catalog likewise.
LEMMA ServicesMoveCatalog == ServicesSpec => CatalogSpec
<1>1. ServicesInit => CatalogInit
  BY DEF ServicesInit
<1>2. [ServicesNext]_servicesVars => [CatalogNext]_catalogVars
  BY DEF ServicesNext, servicesVars
<1> QED BY <1>1, <1>2, PTL DEF ServicesSpec, CatalogSpec

\* CatalogSafe in every state of the services: whatever entries are renamed, added
\* and removed, the catalog reads as the last list that was saved, and no session
\* refers to a row that is gone.
THEOREM CatalogReadsAsSaved == ServicesSpec => []CatalogHolds
<1>1. CatalogInductive => CatalogHolds
  BY DEF CatalogInductive, CatalogHolds
<1> QED BY <1>1, ServicesMoveCatalog, CatalogInvariance, PTL

-----------------------------------------------------------------------------
(***************************************************************************)
(* Folds over finite sets: sums and products, by induction over subsets.   *)
(***************************************************************************)

Picked(T) == CHOOSE x \in T : TRUE

Folding(base, G, S, acc) ==
  acc = [T \in SUBSET S |-> IF T = {} THEN base ELSE G[<<Picked(T), acc[T \ {Picked(T)}]>>]]

\* The sets of a size at most.
UpTo(S, n) == {T \in SUBSET S : Cardinality(T) <= n}

Level(base, G, S, n, acc) ==
  acc = [T \in UpTo(S, n) |-> IF T = {} THEN base ELSE G[<<Picked(T), acc[T \ {Picked(T)}]>>]]

\* A set without the element it is picked apart at is smaller by one.
LEMMA PickedApart ==
  ASSUME NEW S, IsFiniteSet(S), NEW T \in SUBSET S, T # {}
  PROVE  /\ Picked(T) \in T /\ T \ {Picked(T)} \in SUBSET S
         /\ Cardinality(T) \in Nat /\ Cardinality(T \ {Picked(T)}) \in Nat
         /\ Cardinality(T \ {Picked(T)}) = Cardinality(T) - 1
<1>1. IsFiniteSet(T)
  BY FS_Subset
<1>2. PICK x \in T : x = Picked(T)
  BY DEF Picked
<1>3. Cardinality(T \ {x}) = Cardinality(T) - 1 /\ IsFiniteSet(T \ {x})
  BY <1>1, FS_RemoveElement
<1>4. Cardinality(T) \in Nat /\ Cardinality(T \ {x}) \in Nat
  BY <1>1, <1>3, FS_CardinalityType
<1> QED BY <1>2, <1>3, <1>4

\* Induction over the subsets of a finite set.
LEMMA SubsetInduction ==
  ASSUME NEW S, IsFiniteSet(S), NEW Good, {} \in Good,
         \A T \in SUBSET S : T # {} /\ T \ {Picked(T)} \in Good => T \in Good
  PROVE  SUBSET S \subseteq Good
<1> DEFINE Sizes == {n \in Nat : \A T \in SUBSET S : Cardinality(T) = n => T \in Good}
<1>1. 0 \in Sizes
  <2>1. \A T \in SUBSET S : Cardinality(T) = 0 => T = {}
    BY FS_Subset, FS_EmptySet
  <2> QED BY <2>1
<1>2. ASSUME NEW n \in Nat, n \in Sizes PROVE n + 1 \in Sizes
  <2> SUFFICES ASSUME NEW T \in SUBSET S, Cardinality(T) = n + 1 PROVE T \in Good
    OBVIOUS
  <2>1. T # {}
    <3>1. Cardinality({}) = 0 /\ ~(0 = n + 1)
      BY FS_EmptySet
    <3> QED BY <3>1
  <2>2. T \ {Picked(T)} \in SUBSET S /\ Cardinality(T \ {Picked(T)}) = n
    BY <2>1, PickedApart
  <2> QED BY <1>2, <2>1, <2>2
<1>3. Nat \subseteq Sizes
  BY <1>1, <1>2, Induction
<1>4. ASSUME NEW T \in SUBSET S PROVE T \in Good
  <2>1. Cardinality(T) \in Nat
    BY FS_Subset, FS_CardinalityType
  <2> QED BY <1>3, <2>1
<1> QED BY <1>4

\* A fold is a function.
LEMMA FoldingIsThere ==
  ASSUME NEW S, IsFiniteSet(S), NEW base, NEW G
  PROVE  \E acc : Folding(base, G, S, acc)
<1> DEFINE Good == {n \in Nat : \E acc : Level(base, G, S, n, acc)}
<1>1. 0 \in Good
  <2>1. PICK acc : acc = [T \in UpTo(S, 0) |-> base]
    OBVIOUS
  <2>2. ASSUME NEW T \in UpTo(S, 0) PROVE T = {}
    <3>1. Cardinality(T) \in Nat /\ Cardinality(T) <= 0 /\ IsFiniteSet(T)
      BY FS_Subset, FS_CardinalityType DEF UpTo
    <3> QED BY <3>1, FS_EmptySet
  <2>3. Level(base, G, S, 0, acc)
    BY <2>1, <2>2 DEF Level
  <2> QED BY <2>3
<1>2. ASSUME NEW n \in Nat, n \in Good PROVE n + 1 \in Good
  <2>1. PICK acc : Level(base, G, S, n, acc)
    BY <1>2
  <2>2. PICK next : next = [T \in UpTo(S, n + 1) |->
                              IF Cardinality(T) = n + 1 THEN G[<<Picked(T), acc[T \ {Picked(T)}]>>]
                              ELSE acc[T]]
    OBVIOUS
  <2>3. ASSUME NEW T \in UpTo(S, n) PROVE next[T] = acc[T]
    <3>1. T \in UpTo(S, n + 1) /\ Cardinality(T) # n + 1
      <4>1. Cardinality(T) \in Nat /\ Cardinality(T) <= n
        BY FS_Subset, FS_CardinalityType DEF UpTo
      <4> QED BY <4>1 DEF UpTo
    <3> QED BY <2>2, <3>1
  <2>4. ASSUME NEW T \in UpTo(S, n + 1)
        PROVE  next[T] = IF T = {} THEN base ELSE G[<<Picked(T), next[T \ {Picked(T)}]>>]
    <3>1. Cardinality(T) \in Nat /\ Cardinality(T) <= n + 1 /\ T \in SUBSET S
      BY FS_Subset, FS_CardinalityType DEF UpTo
    <3>2. T # {} => T \ {Picked(T)} \in UpTo(S, n)
      <4> SUFFICES ASSUME T # {} PROVE T \ {Picked(T)} \in UpTo(S, n)
        OBVIOUS
      <4>1. T \ {Picked(T)} \in SUBSET S /\ Cardinality(T \ {Picked(T)}) = Cardinality(T) - 1
        BY <3>1, PickedApart
      <4> QED BY <3>1, <4>1 DEF UpTo
    <3>3. CASE Cardinality(T) = n + 1
      <4>1. T # {}
        BY <3>3, FS_EmptySet
      <4>2. next[T] = G[<<Picked(T), acc[T \ {Picked(T)}]>>]
        BY <2>2, <3>3
      <4> QED BY <2>3, <3>2, <4>1, <4>2
    <3>4. CASE Cardinality(T) # n + 1
      <4>1. T \in UpTo(S, n)
        BY <3>1, <3>4 DEF UpTo
      <4>2. acc[T] = IF T = {} THEN base ELSE G[<<Picked(T), acc[T \ {Picked(T)}]>>]
        BY <2>1, <4>1 DEF Level
      <4> QED BY <2>3, <3>2, <4>1, <4>2
    <3> QED BY <3>3, <3>4
  <2>5. Level(base, G, S, n + 1, next)
    BY <2>2, <2>4 DEF Level
  <2> QED BY <1>2, <2>5
<1>3. Cardinality(S) \in Nat /\ Cardinality(S) \in Good
  BY <1>1, <1>2, Induction, FS_CardinalityType
<1>4. PICK acc : Level(base, G, S, Cardinality(S), acc)
  BY <1>3
<1>5. UpTo(S, Cardinality(S)) = SUBSET S
  BY FS_Subset DEF UpTo
<1> QED BY <1>4, <1>5 DEF Level, Folding

\* What a sum and a product over a set are computed by.
Summing(f, S, sum) ==
  sum = [T \in SUBSET S |->
           IF T = {} THEN 0 ELSE LET x == CHOOSE x \in T : TRUE IN f[x] + sum[T \ {x}]]
Multiplying(f, S, product) ==
  product = [T \in SUBSET S |->
               IF T = {} THEN 1 ELSE LET x == CHOOSE x \in T : TRUE IN f[x] * product[T \ {x}]]

\* A sum over a set, and the sums over its parts; a product likewise.
IsSum(f, S, sum) ==
  /\ DOMAIN sum = SUBSET S /\ sum[{}] = 0
  /\ \A T \in SUBSET S : /\ sum[T] \in Int
                         /\ T # {} => sum[T] = f[Picked(T)] + sum[T \ {Picked(T)}]
IsProduct(f, S, product) ==
  /\ DOMAIN product = SUBSET S /\ product[{}] = 1
  /\ \A T \in SUBSET S : /\ product[T] \in Int
                         /\ T # {} => product[T] = f[Picked(T)] * product[T \ {Picked(T)}]

\* What is computed so is a sum of integers.
LEMMA SummingIsSum ==
  ASSUME NEW S, IsFiniteSet(S), NEW f, \A x \in S : f[x] \in Int, NEW sum, Summing(f, S, sum)
  PROVE  IsSum(f, S, sum)
<1>1. /\ DOMAIN sum = SUBSET S
      /\ \A T \in SUBSET S : sum[T] = IF T = {} THEN 0 ELSE f[Picked(T)] + sum[T \ {Picked(T)}]
  BY DEF Summing, Picked
<1>2. PICK Good : Good = {T \in SUBSET S : sum[T] \in Int}
  OBVIOUS
<1>3. {} \in Good
  <2>1. {} \in SUBSET S
    OBVIOUS
  <2>2. sum[{}] = 0
    BY <1>1, <2>1
  <2> QED BY <1>2, <2>1, <2>2
<1>4. ASSUME NEW T \in SUBSET S, T # {}, T \ {Picked(T)} \in Good PROVE T \in Good
  <2>1. Picked(T) \in S
    BY <1>4 DEF Picked
  <2>2. f[Picked(T)] \in Int /\ sum[T \ {Picked(T)}] \in Int
    BY <1>2, <1>4, <2>1
  <2> QED BY <1>1, <1>2, <1>4, <2>2
<1>5. SUBSET S \subseteq Good
  BY <1>3, <1>4, SubsetInduction
<1> QED BY <1>1, <1>2, <1>5 DEF IsSum

\* Likewise of a product.
LEMMA MultiplyingIsProduct ==
  ASSUME NEW S, IsFiniteSet(S), NEW f, \A x \in S : f[x] \in Int,
         NEW product, Multiplying(f, S, product)
  PROVE  IsProduct(f, S, product)
<1>1. /\ DOMAIN product = SUBSET S
      /\ \A T \in SUBSET S :
           product[T] = IF T = {} THEN 1 ELSE f[Picked(T)] * product[T \ {Picked(T)}]
  BY DEF Multiplying, Picked
<1>2. PICK Good : Good = {T \in SUBSET S : product[T] \in Int}
  OBVIOUS
<1>3. {} \in Good
  <2>1. {} \in SUBSET S
    OBVIOUS
  <2>2. product[{}] = 1
    BY <1>1, <2>1
  <2> QED BY <1>2, <2>1, <2>2
<1>4. ASSUME NEW T \in SUBSET S, T # {}, T \ {Picked(T)} \in Good PROVE T \in Good
  <2>1. Picked(T) \in S
    BY <1>4 DEF Picked
  <2>2. f[Picked(T)] \in Int /\ product[T \ {Picked(T)}] \in Int
    BY <1>2, <1>4, <2>1
  <2> QED BY <1>1, <1>2, <1>4, <2>2
<1>5. SUBSET S \subseteq Good
  BY <1>3, <1>4, SubsetInduction
<1> QED BY <1>1, <1>2, <1>5 DEF IsProduct

\* The sum of the community modules is one.
LEMMA SumIsThere ==
  ASSUME NEW S, IsFiniteSet(S), NEW f, \A x \in S : f[x] \in Int
  PROVE  \E sum : IsSum(f, S, sum) /\ SumFunctionOnSet(f, S) = sum[S]
<1>1. PICK G : G = [p \in S \X Int |-> f[p[1]] + p[2]]
  OBVIOUS
<1>2. PICK acc : Folding(0, G, S, acc)
  BY FoldingIsThere
<1>3. /\ \A T \in SUBSET S : acc[T] = IF T = {} THEN 0 ELSE G[<<Picked(T), acc[T \ {Picked(T)}]>>]
      /\ DOMAIN acc = SUBSET S /\ acc = [T \in SUBSET S |-> acc[T]]
  BY <1>2 DEF Folding
<1>4. PICK Good : Good = {T \in SUBSET S : acc[T] \in Int
                            /\ (T # {} => acc[T] = f[Picked(T)] + acc[T \ {Picked(T)}])}
  OBVIOUS
<1>5. {} \in Good
  <2>1. {} \in SUBSET S
    OBVIOUS
  <2>2. acc[{}] = 0
    BY <1>3, <2>1
  <2> QED BY <1>4, <2>1, <2>2
<1>6. ASSUME NEW T \in SUBSET S, T # {}, T \ {Picked(T)} \in Good PROVE T \in Good
  <2>1. PICK x \in T : x = Picked(T)
    BY <1>6 DEF Picked
  <2>2. acc[T \ {x}] \in Int
    BY <1>4, <1>6, <2>1
  <2>3. acc[T] = G[<<x, acc[T \ {x}]>>]
    BY <1>3, <1>6, <2>1
  <2>4. acc[T] = f[x] + acc[T \ {x}] /\ f[x] \in Int
    BY <1>1, <2>2, <2>3
  <2> QED BY <1>4, <2>1, <2>2, <2>4
<1>7. SUBSET S \subseteq Good
  BY <1>5, <1>6, SubsetInduction
<1>8. Summing(f, S, acc)
  <2>1. acc = [T \in SUBSET S |-> IF T = {} THEN 0 ELSE f[Picked(T)] + acc[T \ {Picked(T)}]]
    BY <1>3, <1>4, <1>7
  <2> QED BY <2>1 DEF Summing, Picked
<1>9. PICK sum : sum = CHOOSE g : Summing(f, S, g)
  OBVIOUS
<1>10. Summing(f, S, sum)
  BY <1>8, <1>9
<1>11. SumFunctionOnSet(f, S) = sum[S]
  BY <1>9 DEF SumFunctionOnSet, FoldFunctionOnSet, MapThenFoldSet, Summing
<1> QED BY <1>10, <1>11, SummingIsSum

\* So is the product.
LEMMA ProductIsThere ==
  ASSUME NEW S, IsFiniteSet(S), NEW f, \A x \in S : f[x] \in Int
  PROVE  \E product : /\ IsProduct(f, S, product)
                      /\ ProductOnSet(f, S) = product[S]
<1>1. PICK G : G = [p \in S \X Int |-> f[p[1]] * p[2]]
  OBVIOUS
<1>2. PICK acc : Folding(1, G, S, acc)
  BY FoldingIsThere
<1>3. /\ \A T \in SUBSET S : acc[T] = IF T = {} THEN 1 ELSE G[<<Picked(T), acc[T \ {Picked(T)}]>>]
      /\ DOMAIN acc = SUBSET S /\ acc = [T \in SUBSET S |-> acc[T]]
  BY <1>2 DEF Folding
<1>4. PICK Good : Good = {T \in SUBSET S : acc[T] \in Int
                            /\ (T # {} => acc[T] = f[Picked(T)] * acc[T \ {Picked(T)}])}
  OBVIOUS
<1>5. {} \in Good
  <2>1. {} \in SUBSET S
    OBVIOUS
  <2>2. acc[{}] = 1
    BY <1>3, <2>1
  <2> QED BY <1>4, <2>1, <2>2
<1>6. ASSUME NEW T \in SUBSET S, T # {}, T \ {Picked(T)} \in Good PROVE T \in Good
  <2>1. PICK x \in T : x = Picked(T)
    BY <1>6 DEF Picked
  <2>2. acc[T \ {x}] \in Int
    BY <1>4, <1>6, <2>1
  <2>3. acc[T] = G[<<x, acc[T \ {x}]>>]
    BY <1>3, <1>6, <2>1
  <2>4. acc[T] = f[x] * acc[T \ {x}] /\ f[x] \in Int
    BY <1>1, <2>2, <2>3
  <2> QED BY <1>4, <2>1, <2>2, <2>4
<1>7. SUBSET S \subseteq Good
  BY <1>5, <1>6, SubsetInduction
<1>8. Multiplying(f, S, acc)
  <2>1. acc = [T \in SUBSET S |-> IF T = {} THEN 1 ELSE f[Picked(T)] * acc[T \ {Picked(T)}]]
    BY <1>3, <1>4, <1>7
  <2> QED BY <2>1 DEF Multiplying, Picked
<1>9. PICK product : product = CHOOSE g : Multiplying(f, S, g)
  OBVIOUS
<1>10. Multiplying(f, S, product)
  BY <1>8, <1>9
<1>11. ProductOnSet(f, S) = product[S]
  BY <1>9 DEF ProductOnSet, FoldFunctionOnSet, MapThenFoldSet, Multiplying
<1> QED BY <1>10, <1>11, MultiplyingIsProduct

\* A set without its picked element, again a part of the whole.
LEMMA SumStep ==
  ASSUME NEW S, NEW f, NEW sum, IsSum(f, S, sum), NEW T \in SUBSET S, T # {}
  PROVE  /\ Picked(T) \in T /\ T \ {Picked(T)} \in SUBSET S
         /\ sum[T \ {Picked(T)}] \in Int /\ sum[T] \in Int
         /\ sum[T] = f[Picked(T)] + sum[T \ {Picked(T)}]
  BY DEF IsSum, Picked

\* Sums compare as their terms do.
LEMMA SumsCompare ==
  ASSUME NEW S, IsFiniteSet(S), NEW f, \A x \in S : f[x] \in Int, NEW g, \A x \in S : g[x] \in Int,
         NEW a \in Int, NEW b \in Int, \A x \in S : a * f[x] <= b * g[x]
  PROVE  /\ SumFunctionOnSet(f, S) \in Int /\ SumFunctionOnSet(g, S) \in Int
         /\ a * SumFunctionOnSet(f, S) <= b * SumFunctionOnSet(g, S)
<1>1. PICK one : IsSum(f, S, one) /\ SumFunctionOnSet(f, S) = one[S]
  BY SumIsThere
<1>2. PICK other : IsSum(g, S, other) /\ SumFunctionOnSet(g, S) = other[S]
  BY SumIsThere
<1>3. PICK Good : Good = {T \in SUBSET S : a * one[T] <= b * other[T]}
  OBVIOUS
<1>4. {} \in Good
  <2>1. one[{}] = 0 /\ other[{}] = 0 /\ {} \in SUBSET S
    BY <1>1, <1>2 DEF IsSum
  <2>2. a * one[{}] <= b * other[{}]
    BY <2>1
  <2> QED BY <1>3, <2>1, <2>2
<1>5. ASSUME NEW T \in SUBSET S, T # {}, T \ {Picked(T)} \in Good PROVE T \in Good
  <2>0. PICK x \in T : x = Picked(T)
    BY <1>5 DEF Picked
  <2>1. /\ x = Picked(T) /\ T \ {x} \in SUBSET S
        /\ one[T \ {x}] \in Int /\ one[T] \in Int /\ one[T] = f[x] + one[T \ {x}]
    BY ZenonT(90), <1>1, <1>5, <2>0, SumStep
  <2>2. other[T \ {x}] \in Int /\ other[T] \in Int /\ other[T] = g[x] + other[T \ {x}]
    BY <1>2, <1>5, <2>1, SumStep
  <2>3. PICK k \in Int, l \in Int : k = one[T \ {x}] /\ l = other[T \ {x}]
    BY <2>1, <2>2
  <2>4. a * k <= b * l
    BY <1>3, <1>5, <2>1, <2>3
  <2>5. a * f[x] <= b * g[x] /\ f[x] \in Int /\ g[x] \in Int
    OBVIOUS
  <2>6. a * (f[x] + k) <= b * (g[x] + l)
    BY <2>4, <2>5
  <2> QED BY <1>3, <2>1, <2>2, <2>3, <2>6
<1>6. SUBSET S \subseteq Good
  BY <1>4, <1>5, SubsetInduction
<1>7. S \in Good /\ one[S] \in Int /\ other[S] \in Int
  BY <1>1, <1>2, <1>6 DEF IsSum
<1> QED BY <1>1, <1>2, <1>3, <1>7

\* A sum of natural numbers is zero when they all are.
LEMMA SumIsPositive ==
  ASSUME NEW S, IsFiniteSet(S), NEW f, \A x \in S : f[x] \in Nat
  PROVE  SumFunctionOnSet(f, S) \in Nat
         /\ (SumFunctionOnSet(f, S) = 0 <=> \A x \in S : f[x] = 0)
<1>1. PICK sum : IsSum(f, S, sum) /\ SumFunctionOnSet(f, S) = sum[S]
  BY SumIsThere
<1>2. PICK Good : Good = {T \in SUBSET S : /\ sum[T] \in Nat
                                           /\ sum[T] = 0 <=> \A x \in T : f[x] = 0}
  OBVIOUS
<1>3. {} \in Good
  <2>1. sum[{}] = 0 /\ {} \in SUBSET S
    BY <1>1 DEF IsSum
  <2> QED BY <1>2, <2>1
<1>4. ASSUME NEW T \in SUBSET S, T # {}, T \ {Picked(T)} \in Good PROVE T \in Good
  <2>0. PICK x \in T : x = Picked(T)
    BY <1>4 DEF Picked
  <2>1. /\ x = Picked(T) /\ T \ {x} \in SUBSET S
        /\ sum[T \ {x}] \in Int /\ sum[T] \in Int /\ sum[T] = f[x] + sum[T \ {x}]
    BY <1>1, <1>4, <2>0, SumStep
  <2>2. sum[T \ {x}] \in Nat /\ (sum[T \ {x}] = 0 <=> \A y \in T \ {x} : f[y] = 0)
    BY <1>2, <1>4, <2>1
  <2>3. f[x] \in Nat
    OBVIOUS
  <2>4. sum[T] \in Nat /\ (sum[T] = 0 <=> f[x] = 0 /\ sum[T \ {x}] = 0)
    BY <2>1, <2>2, <2>3
  <2>5. sum[T] = 0 <=> \A y \in T : f[y] = 0
    BY <2>1, <2>2, <2>4
  <2> QED BY <1>2, <2>4, <2>5
<1>5. SUBSET S \subseteq Good
  BY <1>3, <1>4, SubsetInduction
<1> QED BY <1>1, <1>2, <1>5

\* A sum of ones is a count.
LEMMA SumIsCount ==
  ASSUME NEW S, IsFiniteSet(S), NEW f, \A x \in S : f[x] = 1
  PROVE  SumFunctionOnSet(f, S) = Cardinality(S)
<1>0. \A x \in S : f[x] \in Int
  OBVIOUS
<1>1. PICK sum : IsSum(f, S, sum) /\ SumFunctionOnSet(f, S) = sum[S]
  BY <1>0, SumIsThere
<1>2. PICK Good : Good = {T \in SUBSET S : sum[T] = Cardinality(T)}
  OBVIOUS
<1>3. {} \in Good
  <2>1. sum[{}] = 0 /\ {} \in SUBSET S /\ Cardinality({}) = 0
    BY <1>1, FS_EmptySet DEF IsSum
  <2> QED BY <1>2, <2>1
<1>4. ASSUME NEW T \in SUBSET S, T # {}, T \ {Picked(T)} \in Good PROVE T \in Good
  <2>1. PICK x \in T : x = Picked(T)
    BY <1>4 DEF Picked
  <2>2. sum[T \ {x}] \in Int /\ sum[T] = f[x] + sum[T \ {x}] /\ f[x] = 1
    BY <1>1, <1>4, <2>1, SumStep
  <2>3. /\ Cardinality(T \ {x}) \in Nat /\ Cardinality(T) \in Nat
        /\ Cardinality(T \ {x}) = Cardinality(T) - 1
    BY <1>4, <2>1, PickedApart
  <2>4. sum[T \ {x}] = Cardinality(T \ {x})
    BY <1>2, <1>4, <2>1
  <2> QED BY <1>2, <2>2, <2>3, <2>4
<1>5. SUBSET S \subseteq Good
  BY <1>3, <1>4, SubsetInduction
<1> QED BY <1>1, <1>2, <1>5

\* Two sums that differ at one place.
LEMMA SumsDiffer ==
  ASSUME NEW S, IsFiniteSet(S), NEW f, \A x \in S : f[x] \in Int, NEW g, \A x \in S : g[x] \in Int,
         NEW y \in S, \A x \in S : x # y => f[x] = g[x]
  PROVE  /\ SumFunctionOnSet(f, S) \in Int /\ SumFunctionOnSet(g, S) \in Int
         /\ SumFunctionOnSet(f, S) - f[y] = SumFunctionOnSet(g, S) - g[y]
<1>1. PICK one : IsSum(f, S, one) /\ SumFunctionOnSet(f, S) = one[S]
  BY SumIsThere
<1>2. PICK other : IsSum(g, S, other) /\ SumFunctionOnSet(g, S) = other[S]
  BY SumIsThere
<1>3. PICK Good : Good = {T \in SUBSET S :
                            IF y \in T THEN one[T] - f[y] = other[T] - g[y] ELSE one[T] = other[T]}
  OBVIOUS
<1>4. {} \in Good
  <2>1. one[{}] = 0 /\ other[{}] = 0 /\ {} \in SUBSET S
    BY <1>1, <1>2 DEF IsSum
  <2> QED BY <1>3, <2>1
<1>5. ASSUME NEW T \in SUBSET S, T # {}, T \ {Picked(T)} \in Good PROVE T \in Good
  <2>0. PICK x \in T : x = Picked(T)
    BY <1>5 DEF Picked
  <2>1. /\ T \ {x} \in SUBSET S
        /\ one[T \ {x}] \in Int /\ one[T] \in Int /\ one[T] = f[x] + one[T \ {x}]
    BY <1>1, <1>5, <2>0, SumStep
  <2>2. other[T \ {x}] \in Int /\ other[T] \in Int /\ other[T] = g[x] + other[T \ {x}]
    BY <1>2, <1>5, <2>0, SumStep
  <2>3. IF y \in T \ {x} THEN one[T \ {x}] - f[y] = other[T \ {x}] - g[y]
        ELSE one[T \ {x}] = other[T \ {x}]
    BY <1>3, <1>5, <2>0
  <2>4. f[x] \in Int /\ g[x] \in Int /\ f[y] \in Int /\ g[y] \in Int /\ (x # y => f[x] = g[x])
    OBVIOUS
  <2>5. IF y \in T THEN one[T] - f[y] = other[T] - g[y] ELSE one[T] = other[T]
    <3>1. CASE x = y
      <4>1. y \in T /\ one[T \ {x}] = other[T \ {x}]
        BY <2>3, <3>1
      <4> QED BY <2>1, <2>2, <2>4, <3>1, <4>1
    <3>2. CASE x # y
      <4>1. y \in T \ {x} <=> y \in T
        BY <3>2
      <4> QED BY <2>1, <2>2, <2>3, <2>4, <3>2, <4>1
    <3> QED BY <3>1, <3>2
  <2> QED BY <1>3, <2>5
<1>6. SUBSET S \subseteq Good
  BY <1>4, <1>5, SubsetInduction
<1>7. S \in Good /\ one[S] \in Int /\ other[S] \in Int
  BY <1>1, <1>2, <1>6 DEF IsSum
<1> QED BY <1>1, <1>2, <1>3, <1>7

\* A sum of ones for the elements of a part, and zeros, counts the part.
LEMMA SumCountsPart ==
  ASSUME NEW S, IsFiniteSet(S), NEW U \in SUBSET S,
         NEW f, \A x \in S : f[x] = IF x \in U THEN 1 ELSE 0
  PROVE  SumFunctionOnSet(f, S) = Cardinality(U)
<1>0. \A x \in S : f[x] \in Int
  OBVIOUS
<1>1. PICK sum : IsSum(f, S, sum) /\ SumFunctionOnSet(f, S) = sum[S]
  BY <1>0, SumIsThere
<1>2. PICK Good : Good = {T \in SUBSET S : sum[T] = Cardinality(T \cap U)}
  OBVIOUS
<1>3. {} \in Good
  <2>1. sum[{}] = 0 /\ {} \in SUBSET S /\ {} \cap U = {} /\ Cardinality({}) = 0
    BY <1>1, FS_EmptySet DEF IsSum
  <2> QED BY <1>2, <2>1
<1>4. ASSUME NEW T \in SUBSET S, T # {}, T \ {Picked(T)} \in Good PROVE T \in Good
  <2>1. PICK x \in T : x = Picked(T)
    BY <1>4 DEF Picked
  <2>2. sum[T \ {x}] \in Int /\ sum[T] = f[x] + sum[T \ {x}]
    BY <1>1, <1>4, <2>1, SumStep
  <2>3. sum[T \ {x}] = Cardinality((T \ {x}) \cap U)
    BY <1>2, <1>4, <2>1
  <2>4. CASE x \in U
    <3>1. T \cap U \in SUBSET S /\ x \in T \cap U
      BY <2>4
    <3>2. IsFiniteSet(T \cap U)
      BY <3>1, FS_Subset
    <3>3. Cardinality((T \cap U) \ {x}) = Cardinality(T \cap U) - 1
      BY <3>1, <3>2, FS_RemoveElement
    <3>4. (T \ {x}) \cap U = (T \cap U) \ {x}
      OBVIOUS
    <3>5. Cardinality(T \cap U) \in Nat
      BY <3>2, FS_CardinalityType
    <3>6. f[x] = 1
      BY <2>4
    <3> QED BY <1>2, <2>2, <2>3, <3>3, <3>4, <3>5, <3>6
  <2>5. CASE x \notin U
    <3>1. (T \ {x}) \cap U = T \cap U /\ f[x] = 0
      BY <2>5
    <3>2. sum[T] = sum[T \ {x}]
      BY <2>2, <3>1
    <3> QED BY <1>2, <2>3, <3>1, <3>2
  <2> QED BY <2>4, <2>5
<1>5. SUBSET S \subseteq Good
  BY <1>3, <1>4, SubsetInduction
<1>6. S \in Good /\ S \cap U = U
  BY <1>5
<1> QED BY <1>1, <1>2, <1>6

-----------------------------------------------------------------------------
(***************************************************************************)
(* Reviews: distributions and the saves and recusals of reviewers.         *)
(***************************************************************************)

(* A distribution, by induction over the submissions in their order.       *)

\* Loads are numbers.
LEMMA LoadsAreNumbers ==
  ASSUME NEW plan, NEW r
  PROVE  Existing(r) \in Nat /\ Planned(plan, r) \in Nat /\ Load(plan, r) \in Nat
<1>1. PICK held, asked : /\ held = {s \in Submissions : assignment[<<s, r>>] # "none"}
                         /\ asked = {s \in Submissions : <<s, r>> \in plan}
  OBVIOUS
<1>2. IsFiniteSet(held) /\ IsFiniteSet(asked)
  <2>1. held \in SUBSET Submissions /\ asked \in SUBSET Submissions
    BY <1>1
  <2> QED BY <2>1, ReviewsAssumption, FS_Subset
<1>3. Cardinality(held) \in Nat /\ Cardinality(asked) \in Nat
  BY <1>2, FS_CardinalityType
<1> QED BY <1>1, <1>3 DEF Existing, Planned, Load

\* A pair that is planned counts for its reviewer.
LEMMA PlannedGrows ==
  ASSUME NEW plan, NEW s \in Submissions, NEW r, <<s, r>> \notin plan, NEW q
  PROVE  Load(plan \cup {<<s, r>>}, q) = IF q = r THEN Load(plan, q) + 1 ELSE Load(plan, q)
<1>1. PICK before, after : /\ before = {t \in Submissions : <<t, q>> \in plan}
                           /\ after = {t \in Submissions : <<t, q>> \in plan \cup {<<s, r>>}}
  OBVIOUS
<1>2. IsFiniteSet(before)
  <2>1. before \in SUBSET Submissions
    BY <1>1
  <2> QED BY <2>1, ReviewsAssumption, FS_Subset
<1>3. Existing(q) \in Nat /\ Planned(plan, q) \in Nat
  BY LoadsAreNumbers
<1>4. CASE q = r
  <2>1. after = before \cup {s} /\ s \notin before
    BY <1>1, <1>4
  <2>2. Cardinality(after) = Cardinality(before) + 1
    BY <1>2, <2>1, FS_AddElement
  <2> QED BY <1>1, <1>3, <1>4, <2>2 DEF Planned, Load
<1>5. CASE q # r
  <2>1. after = before
    BY <1>1, <1>5
  <2> QED BY <1>1, <1>5, <2>1 DEF Planned, Load
<1> QED BY <1>4, <1>5

\* Among the eligible there is a lightest one.
LEMMA LightestIsThere ==
  ASSUME NEW plan, NEW eligible \in SUBSET DOMAIN Reviewers, eligible # {}
  PROVE  /\ Lightest(plan, eligible) \in eligible
         /\ \A j \in eligible : Load(plan, Reviewers[Lightest(plan, eligible)]) <= Load(plan, Reviewers[j])
<1>1. \A i \in eligible : i \in Nat /\ Load(plan, Reviewers[i]) \in Nat
  BY ReviewsAssumption, LoadsAreNumbers
<1>2. PICK least \in {Load(plan, Reviewers[i]) : i \in eligible} :
        \A n \in {Load(plan, Reviewers[i]) : i \in eligible} : least <= n
  <2> DEFINE loads == {Load(plan, Reviewers[i]) : i \in eligible}
  <2>1. loads \in SUBSET Nat
    BY <1>1
  <2>2. loads # {}
    BY SMT
  <2> HIDE DEF loads
  <2>3. \E least \in loads : \A n \in loads : least <= n
    BY <2>1, <2>2, LeastNumber, Zenon
  <2> QED BY <2>3 DEF loads
<1>3. PICK first \in {i \in eligible : Load(plan, Reviewers[i]) = least} :
        \A n \in {i \in eligible : Load(plan, Reviewers[i]) = least} : first <= n
  <2>1. {i \in eligible : Load(plan, Reviewers[i]) = least} \in SUBSET Nat
    BY <1>1
  <2>2. {i \in eligible : Load(plan, Reviewers[i]) = least} # {}
    BY <1>2
  <2> QED BY <2>1, <2>2, LeastNumber
<1>4. \A j \in eligible : \/ Load(plan, Reviewers[first]) < Load(plan, Reviewers[j])
                          \/ Load(plan, Reviewers[first]) = Load(plan, Reviewers[j]) /\ first <= j
  <2> SUFFICES ASSUME NEW j \in eligible
               PROVE  \/ Load(plan, Reviewers[first]) < Load(plan, Reviewers[j])
                      \/ Load(plan, Reviewers[first]) = Load(plan, Reviewers[j]) /\ first <= j
    OBVIOUS
  <2>1. least <= Load(plan, Reviewers[j]) /\ Load(plan, Reviewers[j]) \in Nat /\ least \in Nat
    BY <1>1, <1>2
  <2> QED BY <1>3, <2>1
<1>5. PICK i \in eligible : i = Lightest(plan, eligible)
                            /\ \A j \in eligible : \/ Load(plan, Reviewers[i]) < Load(plan, Reviewers[j])
                                                   \/ Load(plan, Reviewers[i]) = Load(plan, Reviewers[j]) /\ i <= j
  BY <1>3, <1>4 DEF Lightest
<1>6. \A j \in eligible : Load(plan, Reviewers[i]) <= Load(plan, Reviewers[j])
  BY <1>1, <1>5
<1> QED BY <1>5, <1>6

\* Every turn plans one submission for a lightest reviewer, or fails.
LEMMA TurnPlans ==
  ASSUME NEW s, NEW sofar, NEW pool, ~PlanOne(s, sofar, pool).failed
  PROVE  /\ ~sofar.failed
         /\ \E i \in Eligible(sofar.plan, s, pool) :
              /\ PlanOne(s, sofar, pool).plan = sofar.plan \cup {<<s, Reviewers[i]>>}
              /\ \A j \in Eligible(sofar.plan, s, pool) :
                   Load(sofar.plan, Reviewers[i]) <= Load(sofar.plan, Reviewers[j])
<1>1. PICK eligible : eligible = Eligible(sofar.plan, s, pool)
  OBVIOUS
<1>2. ~sofar.failed /\ eligible # {}
      /\ PlanOne(s, sofar, pool).plan = sofar.plan \cup {<<s, Reviewers[Lightest(sofar.plan, eligible)]>>}
  BY <1>1 DEF PlanOne
<1>3. eligible \in SUBSET DOMAIN Reviewers
  BY <1>1 DEF Eligible
<1> QED BY <1>1, <1>2, <1>3, LightestIsThere

\* Free for all of the submissions, and has room.
FreeFor(S, plan, r) == (S \X {r}) \cap Blocked = {} /\ Load(plan, r) < Cap[r]

\* What is true of a plan for the first submissions of an order.
PlanHolds(plan, S, order, n, pool) ==
  /\ plan \subseteq {order[i] : i \in 1..n} \X pool
  /\ plan \cap Blocked = {}
  /\ \A i \in 1..n : \E r \in pool : \A q \in pool : <<order[i], q>> \in plan <=> q = r
  /\ \A r \in pool : Planned(plan, r) > 0 =>
       /\ Load(plan, r) <= Cap[r]
       /\ \A q \in pool : FreeFor(S, plan, q) => Load(plan, r) <= Load(plan, q) + 1

\* One more submission.
LEMMA TurnKeepsPlan ==
  ASSUME NEW S \in SUBSET Submissions, NEW pool \in SUBSET Pool, NEW k \in Nat, NEW order,
         order[k + 1] \in S, \A i \in 1..k : order[i] # order[k + 1],
         NEW sofar, PlanHolds(sofar.plan, S, order, k, pool),
         NEW turned, turned = PlanOne(order[k + 1], sofar, pool), ~turned.failed
  PROVE  PlanHolds(turned.plan, S, order, k + 1, pool)
<1>1. PICK plan, s, next : plan = sofar.plan /\ s = order[k + 1] /\ next = turned.plan
  OBVIOUS
<1>2. PICK i \in Eligible(plan, s, pool) :
        /\ next = plan \cup {<<s, Reviewers[i]>>}
        /\ \A j \in Eligible(plan, s, pool) : Load(plan, Reviewers[i]) <= Load(plan, Reviewers[j])
  BY <1>1, TurnPlans
<1>3. PICK r \in pool : r = Reviewers[i] /\ <<s, r>> \notin Blocked /\ Load(plan, r) < Cap[r]
  BY <1>2 DEF Eligible
<1>4. next = plan \cup {<<s, r>>} /\ s \in S /\ s \in Submissions
  BY <1>1, <1>2, <1>3
<1>5. PlanHolds(plan, S, order, k, pool)
  BY <1>1
<1>6. <<s, r>> \notin plan
  <2>1. \A j \in 1..k : order[j] # s
    BY <1>1
  <2> QED BY <1>5, <2>1 DEF PlanHolds
<1>7. \A q : Load(next, q) = IF q = r THEN Load(plan, q) + 1 ELSE Load(plan, q)
  BY <1>4, <1>6, PlannedGrows
<1>8. ASSUME NEW q \in pool
      PROVE  /\ Load(plan, q) \in Nat /\ Load(next, q) \in Nat /\ Cap[q] \in Nat
             /\ Planned(plan, q) \in Nat /\ Existing(q) \in Nat
             /\ Load(plan, q) <= Load(next, q)
  BY <1>7, LoadsAreNumbers, ReviewsAssumption
<1>9. ASSUME NEW q \in pool, FreeFor(S, next, q)
      PROVE  FreeFor(S, plan, q) /\ Load(plan, r) <= Load(plan, q)
  <2>1. FreeFor(S, plan, q)
    BY <1>8, <1>9 DEF FreeFor
  <2>2. PICK j \in DOMAIN Reviewers : Reviewers[j] = q
    BY DEF Pool
  <2>3. j \in Eligible(plan, s, pool)
    BY <1>4, <2>1, <2>2 DEF Eligible, FreeFor
  <2> QED BY <1>2, <1>3, <2>1, <2>2, <2>3
<1>10. next \subseteq {order[j] : j \in 1..(k + 1)} \X pool
  <2>1. \A j \in 1..k : j \in 1..(k + 1)
    OBVIOUS
  <2>2. {order[j] : j \in 1..k} \subseteq {order[j] : j \in 1..(k + 1)}
    BY <2>1
  <2>3. s \in {order[j] : j \in 1..(k + 1)}
    BY <1>1
  <2> QED BY <1>4, <1>5, <2>2, <2>3 DEF PlanHolds
<1>11. next \cap Blocked = {}
  BY <1>3, <1>4, <1>5 DEF PlanHolds
<1>12. ASSUME NEW j \in 1..(k + 1)
       PROVE  \E p \in pool : \A q \in pool : <<order[j], q>> \in next <=> q = p
  <2>1. CASE j = k + 1
    <3>1. order[j] = s
      BY <1>1, <2>1
    <3>2. \A q \in pool : <<s, q>> \notin plan
      <4>1. \A m \in 1..k : order[m] # s
        BY <1>1
      <4> QED BY <1>5, <4>1 DEF PlanHolds
    <3> QED BY <1>4, <3>1, <3>2
  <2>2. CASE j \in 1..k
    <3>1. order[j] # s
      BY <1>1, <2>2
    <3>2. \E p \in pool : \A q \in pool : <<order[j], q>> \in plan <=> q = p
      BY <1>5, <2>2 DEF PlanHolds
    <3> QED BY <1>4, <3>1, <3>2
  <2> QED BY <2>1, <2>2
<1>13. ASSUME NEW p \in pool, Planned(next, p) > 0
       PROVE  /\ Load(next, p) <= Cap[p]
              /\ \A q \in pool : FreeFor(S, next, q) => Load(next, p) <= Load(next, q) + 1
  <2>1. CASE p = r
    <3>1. Load(next, p) <= Cap[p]
      BY <1>3, <1>7, <1>8, <2>1
    <3>2. ASSUME NEW q \in pool, FreeFor(S, next, q)
          PROVE  Load(next, p) <= Load(next, q) + 1
      BY <1>7, <1>8, <1>9, <2>1, <3>2
    <3> QED BY <3>1, <3>2
  <2>2. CASE p # r
    <3>1. Load(next, p) = Load(plan, p)
      BY <1>7, <2>2
    <3>2. Planned(plan, p) > 0
      <4>1. Planned(next, p) \in Nat
        BY LoadsAreNumbers
      <4> QED BY <1>8, <1>13, <3>1, <4>1 DEF Load
    <3>3. Load(plan, p) <= Cap[p] /\ \A q \in pool : FreeFor(S, plan, q) => Load(plan, p) <= Load(plan, q) + 1
      BY <1>5, <3>2 DEF PlanHolds
    <3>4. ASSUME NEW q \in pool, FreeFor(S, next, q)
          PROVE  Load(next, p) <= Load(next, q) + 1
      BY <1>8, <1>9, <3>1, <3>3, <3>4
    <3> QED BY <3>1, <3>3, <3>4
  <2> QED BY <2>1, <2>2
<1> QED BY <1>1, <1>10, <1>11, <1>12, <1>13 DEF PlanHolds

\* The turns that a distribution takes, as a function.
PlanTurns(order, pool, n, turn) ==
  turn = [i \in 0..n |->
            IF i = 0 THEN [plan |-> {}, failed |-> FALSE]
            ELSE PlanOne(order[i], turn[i - 1], pool)]

\* There is such a function.
LEMMA TurnsAreThere ==
  ASSUME NEW order, NEW pool, NEW n \in Nat
  PROVE  \E turn : PlanTurns(order, pool, n, turn)
<1> DEFINE Good == {k \in Nat : \E turn : PlanTurns(order, pool, k, turn)}
<1>1. 0 \in Good
  <2>1. PICK turn : turn = [i \in 0..0 |-> [plan |-> {}, failed |-> FALSE]]
    OBVIOUS
  <2>2. PlanTurns(order, pool, 0, turn)
    BY <2>1 DEF PlanTurns
  <2> QED BY <2>2
<1>2. ASSUME NEW k \in Nat, k \in Good PROVE k + 1 \in Good
  <2>1. PICK turn : PlanTurns(order, pool, k, turn)
    BY <1>2
  <2>2. PICK next : next = [i \in 0..(k + 1) |->
                              IF i = k + 1 THEN PlanOne(order[k + 1], turn[k], pool) ELSE turn[i]]
    OBVIOUS
  <2>3. \A i \in 0..k : turn[i] = IF i = 0 THEN [plan |-> {}, failed |-> FALSE]
                                  ELSE PlanOne(order[i], turn[i - 1], pool)
    BY <2>1 DEF PlanTurns
  <2>4. \A i \in 0..k : next[i] = turn[i]
    BY <1>2, <2>2
  <2>5. \A i \in 0..(k + 1) :
          next[i] = IF i = 0 THEN [plan |-> {}, failed |-> FALSE]
                    ELSE PlanOne(order[i], next[i - 1], pool)
    <3> SUFFICES ASSUME NEW i \in 0..(k + 1)
                 PROVE  next[i] = IF i = 0 THEN [plan |-> {}, failed |-> FALSE]
                                  ELSE PlanOne(order[i], next[i - 1], pool)
      OBVIOUS
    <3>1. CASE i = k + 1
      <4>1. next[i] = PlanOne(order[i], turn[k], pool) /\ i # 0 /\ i - 1 = k /\ k \in 0..k
        BY <1>2, <2>2, <3>1
      <4> QED BY <2>4, <4>1
    <3>2. CASE i \in 0..k
      <4>1. i # 0 => i - 1 \in 0..k
        BY <1>2, <3>2
      <4> QED BY <2>3, <2>4, <3>2, <4>1
    <3> QED BY <1>2, <3>1, <3>2
  <2>6. PlanTurns(order, pool, k + 1, next)
    BY <2>2, <2>5 DEF PlanTurns
  <2> QED BY <1>2, <2>6
<1>3. Nat \subseteq Good
  BY <1>1, <1>2, Induction
<1> QED BY <1>3

\* What a distribution that does not fail plans for some submissions.
LEMMA DistributionPlans ==
  ASSUME NEW S \in SUBSET Submissions, NEW pool \in SUBSET Pool, NEW n \in Nat,
         NEW order \in [1..n -> S], \A i, j \in 1..n : i # j => order[i] # order[j],
         ~Distribution(order, pool).failed
  PROVE  PlanHolds(Distribution(order, pool).plan, S, order, n, pool)
<1>1. Len(order) = n
  OBVIOUS
<1>2. PICK turn : PlanTurns(order, pool, n, turn) /\ turn[n] = Distribution(order, pool)
  <2>1. PICK turn : turn = CHOOSE t : PlanTurns(order, pool, Len(order), t)
    OBVIOUS
  <2>2. PlanTurns(order, pool, Len(order), turn)
    BY <1>1, <2>1, TurnsAreThere
  <2>3. Distribution(order, pool) = turn[Len(order)]
    BY <2>1 DEF Distribution, PlanTurns
  <2> QED BY <1>1, <2>2, <2>3
<1> DEFINE Good == {k \in Nat : k \in 0..n => turn[k].failed \/ PlanHolds(turn[k].plan, S, order, k, pool)}
<1>3. 0 \in Good
  <2>1. turn[0] = [plan |-> {}, failed |-> FALSE]
    BY <1>2 DEF PlanTurns
  <2>2. turn[0].plan = {}
    BY <2>1
  <2>3. \A r \in pool : ~(Planned({}, r) > 0)
    <3> SUFFICES ASSUME NEW r \in pool PROVE Planned({}, r) = 0
      OBVIOUS
    <3>1. {s \in Submissions : <<s, r>> \in {}} = {}
      OBVIOUS
    <3> QED BY <3>1, FS_EmptySet DEF Planned
  <2>4. PlanHolds({}, S, order, 0, pool)
    BY <2>3 DEF PlanHolds
  <2> QED BY <2>2, <2>4
<1>4. ASSUME NEW k \in Nat, k \in Good PROVE k + 1 \in Good
  <2> SUFFICES ASSUME k + 1 \in 0..n, ~turn[k + 1].failed
               PROVE  PlanHolds(turn[k + 1].plan, S, order, k + 1, pool)
    BY <1>4
  <2>1. turn[k + 1] = PlanOne(order[k + 1], turn[k], pool) /\ k \in 0..n /\ k + 1 \in 1..n
    <3>1. turn[k + 1] = IF k + 1 = 0 THEN [plan |-> {}, failed |-> FALSE]
                        ELSE PlanOne(order[k + 1], turn[(k + 1) - 1], pool)
      BY <1>2 DEF PlanTurns
    <3>2. k + 1 # 0 /\ (k + 1) - 1 = k /\ k \in 0..n /\ k + 1 \in 1..n
      BY <1>4
    <3> QED BY <3>1, <3>2
  <2>2. ~turn[k].failed
    BY <2>1, TurnPlans
  <2>3. PlanHolds(turn[k].plan, S, order, k, pool)
    BY <1>4, <2>1, <2>2
  <2>4. order[k + 1] \in S /\ \A i \in 1..k : order[i] # order[k + 1]
    BY <2>1
  <2> QED BY <2>1, <2>3, <2>4, TurnKeepsPlan
<1>5. n \in Good
  BY <1>3, <1>4, Induction
<1> QED BY <1>2, <1>5

\* The orders of some submissions have each of them once.
LEMMA OrdersAreWhole ==
  ASSUME NEW S \in SUBSET Submissions, NEW order \in SetToSeqs(S)
  PROVE  \E n \in Nat : /\ order \in [1..n -> S] /\ \A i, j \in 1..n : i # j => order[i] # order[j]
                        /\ \A s \in S : \E i \in 1..n : order[i] = s
<1>1. IsFiniteSet(S)
  BY ReviewsAssumption, FS_Subset
<1>2. PICK n \in Nat : n = Cardinality(S)
  BY <1>1, FS_CardinalityType
<1>3. order \in [1..n -> S] /\ \A i, j \in 1..n : i # j => order[i] # order[j]
  BY <1>2 DEF SetToSeqs
<1>4. order \in Injection(1..n, S)
  BY <1>3 DEF Injection, IsInjective
<1>5. Cardinality(1..n) = Cardinality(S)
  <2>1. Cardinality(1..n) = IF 1 > n THEN 0 ELSE n - 1 + 1
    BY FS_Interval
  <2> QED BY <1>2, <2>1
<1>6. order \in Surjection(1..n, S)
  BY <1>1, <1>4, <1>5, FS_Injection
<1> QED BY <1>3, <1>6 DEF Surjection

\* A distribution gives every submission one reviewer, blocks and overloads nobody,
\* and is even among those who are free, in any state, for any submissions in any
\* order and any reviewers with any caps.
THEOREM DistributionIsSound == DistributionSound
<1> SUFFICES ASSUME NEW S \in SUBSET Submissions, S # {}, NEW order \in SetToSeqs(S),
                    ~Distribution(order, Pool).failed
             PROVE  LET plan == Distribution(order, Pool).plan
                        Spare(r) == (S \X {r}) \cap Blocked = {} /\ Load(plan, r) < Cap[r]
                    IN  /\ plan \cap Blocked = {} /\ plan \subseteq S \X Pool
                        /\ \A s \in S : Cardinality({p \in plan : p[1] = s}) = 1
                        /\ \A r \in Pool : Planned(plan, r) > 0 =>
                             /\ Load(plan, r) <= Cap[r]
                             /\ \A q \in Pool : Spare(q) => Load(plan, r) <= Load(plan, q) + 1
  BY DEF DistributionSound
<1>1. PICK n \in Nat : /\ order \in [1..n -> S] /\ \A i, j \in 1..n : i # j => order[i] # order[j]
                       /\ \A s \in S : \E i \in 1..n : order[i] = s
  BY OrdersAreWhole
<1>2. PICK plan : plan = Distribution(order, Pool).plan
  OBVIOUS
<1>3. PlanHolds(plan, S, order, n, Pool)
  BY <1>1, <1>2, DistributionPlans
<1>4. plan \cap Blocked = {} /\ plan \subseteq S \X Pool
  <2>1. {order[i] : i \in 1..n} \subseteq S
    BY <1>1
  <2> QED BY <1>3, <2>1 DEF PlanHolds
<1>5. ASSUME NEW s \in S PROVE Cardinality({p \in plan : p[1] = s}) = 1
  <2>1. PICK i \in 1..n : order[i] = s
    BY <1>1
  <2>2. PICK r \in Pool : \A q \in Pool : <<s, q>> \in plan <=> q = r
    BY <1>3, <2>1 DEF PlanHolds
  <2>3. {p \in plan : p[1] = s} = {<<s, r>>}
    BY <1>4, <2>2
  <2> QED BY <2>3, FS_Singleton
<1>6. \A r \in Pool : Planned(plan, r) > 0 =>
        /\ Load(plan, r) <= Cap[r]
        /\ \A q \in Pool : FreeFor(S, plan, q) => Load(plan, r) <= Load(plan, q) + 1
  BY <1>3 DEF PlanHolds
<1> QED BY <1>2, <1>4, <1>5, <1>6 DEF FreeFor

-----------------------------------------------------------------------------
(* What requests read may be stale; what a review is stays coherent.       *)

\* A plan on its way, and a request that saves or recuses, are for assignable pairs.
RequestsFit ==
  /\ \A d \in Distributors :
       distributor[d] = Idle \/ \E plan \in SUBSET Pairs : distributor[d] = [at |-> "insert", plan |-> plan]
  /\ DOMAIN distributor = Distributors /\ DOMAIN session = Sessions
  /\ \A s \in Sessions :
       \/ session[s] = Idle
       \/ /\ session[s].at \in {"read", "write", "recuse"}
          /\ session[s].pair \in Pairs /\ assignment[session[s].pair] # "none"
          /\ session[s].at \in {"read", "write"} => session[s].finalize \in BOOLEAN
          /\ session[s].at = "write" => session[s].revision \in Nat

ReviewsInductive == StatusMatchesResponse /\ RequestsFit

\* At first nobody reviews anything.
LEMMA ReviewsBegin == ReviewsInit => ReviewsInductive
<1> SUFFICES ASSUME ReviewsInit PROVE ReviewsInductive
  OBVIOUS
<1>1. StatusMatchesResponse
  BY DEF ReviewsInit, StatusMatchesResponse, ReviewsTypeOK, NoResponse, Status
<1>2. RequestsFit
  BY DEF ReviewsInit, RequestsFit
<1> QED BY <1>1, <1>2 DEF ReviewsInductive

\* A plan is made of pairs.
LEMMA PlanKeeps ==
  ASSUME ReviewsInductive, NEW d \in Distributors, NEW S \in SUBSET Submissions,
         NEW order \in SetToSeqs(S), NEW pool \in SUBSET Pool, Plan(d, order, pool)
  PROVE  ReviewsInductive'
<1>1. PICK result : result = Distribution(order, pool)
  OBVIOUS
<1>2. ~result.failed /\ distributor' = [distributor EXCEPT ![d] = [at |-> "insert", plan |-> result.plan]]
      /\ UNCHANGED <<assignment, response, conflicts, session>>
  BY <1>1 DEF Plan
<1>3. result.plan \in SUBSET Pairs
  <2>1. PICK n \in Nat : order \in [1..n -> S] /\ \A i, j \in 1..n : i # j => order[i] # order[j]
    BY OrdersAreWhole
  <2>2. PlanHolds(result.plan, S, order, n, pool)
    BY <1>1, <1>2, <2>1, DistributionPlans
  <2>3. {order[i] : i \in 1..n} \subseteq Submissions
    BY <2>1
  <2> QED BY <2>2, <2>3 DEF PlanHolds, Pairs
<1>4. StatusMatchesResponse'
  BY <1>2 DEF ReviewsInductive, StatusMatchesResponse, ReviewsTypeOK
<1>5. RequestsFit'
  BY <1>2, <1>3 DEF ReviewsInductive, RequestsFit
<1> QED BY <1>4, <1>5 DEF ReviewsInductive

\* What is planned is assigned where nothing was.
LEMMA CreateKeeps ==
  ASSUME ReviewsInductive, NEW d \in Distributors, CreateAssignments(d)
  PROVE  ReviewsInductive'
<1>1. /\ distributor' = [distributor EXCEPT ![d] = Idle] /\ UNCHANGED <<response, conflicts, session>>
      /\ DOMAIN assignment' = Pairs
      /\ \A p \in Pairs : assignment'[p] = assignment[p] \/ (assignment[p] = "none" /\ assignment'[p] = "assigned")
  BY DEF CreateAssignments
<1>2. ReviewsTypeOK'
  <2>1. \A p \in Pairs : assignment'[p] \in Status
    BY <1>1 DEF ReviewsInductive, StatusMatchesResponse, ReviewsTypeOK, Status
  <2>2. assignment' = [p \in Pairs |-> assignment'[p]]
    BY DEF CreateAssignments
  <2> QED BY <1>1, <2>1, <2>2 DEF ReviewsInductive, StatusMatchesResponse, ReviewsTypeOK
<1>3. StatusMatchesResponse'
  BY <1>1, <1>2 DEF ReviewsInductive, StatusMatchesResponse
<1>4. RequestsFit'
  BY <1>1 DEF ReviewsInductive, RequestsFit
<1> QED BY <1>3, <1>4 DEF ReviewsInductive

\* A save or a recusal of a pair.
LEMMA SessionKeeps ==
  ASSUME ReviewsInductive, NEW s \in Sessions, NEW p \in Pairs, NEW finalize \in BOOLEAN,
         \/ SaveChecks(s, p, finalize) \/ RecuseChecks(s, p)
         \/ SaveReads(s) \/ SaveWrites(s) \/ RecuseWrites(s)
  PROVE  ReviewsInductive'
<1> USE DEF ReviewsInductive, RequestsFit, StatusMatchesResponse, ReviewsTypeOK
<1>1. CASE SaveChecks(s, p, finalize)
  <2>1. assignment[p] # "none" /\ UNCHANGED <<assignment, response, conflicts, distributor>>
        /\ session' = [session EXCEPT ![s] = [at |-> "read", pair |-> p, finalize |-> finalize]]
    BY <1>1 DEF SaveChecks
  <2> QED BY <2>1
<1>2. CASE RecuseChecks(s, p)
  <2>1. assignment[p] # "none" /\ UNCHANGED <<assignment, response, conflicts, distributor>>
        /\ session' = [session EXCEPT ![s] = [at |-> "recuse", pair |-> p]]
    BY <1>2 DEF RecuseChecks
  <2> QED BY <2>1
<1>3. CASE SaveReads(s)
  <2>1. session[s].at = "read" /\ session[s] # Idle
    BY <1>3 DEF SaveReads, Idle
  <2>2. PICK q \in Pairs, f \in BOOLEAN, n \in Nat :
          q = session[s].pair /\ f = session[s].finalize /\ n = response[session[s].pair].revision
    BY <2>1
  <2>3. session' = [session EXCEPT ![s] = [at |-> "write", pair |-> q, finalize |-> f, revision |-> n]]
        /\ UNCHANGED <<assignment, response, conflicts, distributor>> /\ assignment[q] # "none"
    BY <1>3, <2>1, <2>2 DEF SaveReads
  <2> QED BY <2>3
<1>4. CASE SaveWrites(s)
  <2>1. session[s].at = "write" /\ session[s] # Idle
    BY <1>4 DEF SaveWrites, Idle
  <2>2. PICK q \in Pairs, f \in BOOLEAN, n \in Nat :
          q = session[s].pair /\ f = session[s].finalize /\ n = session[s].revision
    BY <2>1
  <2>3. session' = [session EXCEPT ![s] = Idle] /\ UNCHANGED <<conflicts, distributor>>
    BY <1>4 DEF SaveWrites
  <2>4. CASE UNCHANGED <<assignment, response>>
    BY <2>3, <2>4
  <2>5. CASE /\ response' = [response EXCEPT ![q] = [revision |-> n + 1, final |-> f]]
             /\ assignment' = [assignment EXCEPT ![q] = IF f THEN "submitted" ELSE "in_progress"]
    BY <2>3, <2>5 DEF Status
  <2> QED BY <1>4, <2>2, <2>4, <2>5 DEF SaveWrites
<1>5. CASE RecuseWrites(s)
  <2>1. session[s].at = "recuse" /\ session[s] # Idle
    BY <1>5 DEF RecuseWrites, Idle
  <2>2. PICK q \in Pairs : q = session[s].pair
    BY <2>1
  <2>3. /\ assignment' = [assignment EXCEPT ![q] = "recused"] /\ conflicts' = conflicts \cup {q}
        /\ session' = [session EXCEPT ![s] = Idle] /\ UNCHANGED <<response, distributor>>
    BY <1>5, <2>2 DEF RecuseWrites
  <2> QED BY <2>3 DEF Status
<1> QED BY <1>1, <1>2, <1>3, <1>4, <1>5

\* What a step of a review round does to the assignments and the plans.
ReviewStep(d) ==
  \/ \E S \in SUBSET Submissions : \E order \in SetToSeqs(S) : \E pool \in SUBSET Pool :
       Plan(d, order, pool)
  \/ CreateAssignments(d)

\* Both ways to distribute make a plan.
LEMMA DistributorsStep ==
  ASSUME NEW d, Distribute(d) \/ AssignReviewer(d) \/ CreateAssignments(d)
  PROVE  ReviewStep(d)
<1>1. CASE Distribute(d)
  BY <1>1 DEF Distribute, ReviewStep
<1>2. CASE AssignReviewer(d)
  <2>1. PICK s \in Submissions, r \in Pool : Plan(d, <<s>>, {r})
    BY <1>2 DEF AssignReviewer
  <2>2. <<s>> \in SetToSeqs({s})
    <3>1. Cardinality({s}) = 1
      BY FS_Singleton
    <3> QED BY <3>1 DEF SetToSeqs
  <2> QED BY <2>1, <2>2 DEF ReviewStep
<1> QED BY <1>1, <1>2 DEF ReviewStep

\* Every step of a review round keeps it coherent.
LEMMA ReviewsSteps ==
  ASSUME ReviewsInductive, [ReviewsNext]_reviewVars
  PROVE  ReviewsInductive'
<1>1. CASE ReviewsNext
  <2>1. ASSUME NEW d \in Distributors, Distribute(d) \/ AssignReviewer(d) \/ CreateAssignments(d)
        PROVE  ReviewsInductive'
    BY <2>1, DistributorsStep, PlanKeeps, CreateKeeps DEF ReviewStep
  <2>2. ASSUME NEW p \in Pairs, DeclareConflict(p)
        PROVE  ReviewsInductive'
    BY <2>2 DEF DeclareConflict, ReviewsInductive, RequestsFit, StatusMatchesResponse, ReviewsTypeOK
  <2>3. ASSUME NEW s \in Sessions, NEW p \in Pairs,
               RecuseChecks(s, p) \/ \E f \in BOOLEAN : SaveChecks(s, p, f)
        PROVE  ReviewsInductive'
    BY <2>3, SessionKeeps
  <2>4. ASSUME NEW s \in Sessions, SaveReads(s) \/ SaveWrites(s) \/ RecuseWrites(s)
        PROVE  ReviewsInductive'
    <3>1. PICK p \in Pairs : p = session[s].pair
      <4>1. session[s] # Idle
        BY <2>4 DEF SaveReads, SaveWrites, RecuseWrites, Idle
      <4> QED BY <4>1 DEF ReviewsInductive, RequestsFit
    <3> QED BY <2>4, <3>1, SessionKeeps
  <2> QED BY <1>1, <2>1, <2>2, <2>3, <2>4 DEF ReviewsNext
<1>2. CASE UNCHANGED reviewVars
  BY <1>2 DEF reviewVars, ReviewsInductive, RequestsFit, StatusMatchesResponse, ReviewsTypeOK
<1> QED BY <1>1, <1>2

\* The inductive invariant of a review round.
THEOREM ReviewsInvariance == ReviewsSpec => []ReviewsInductive
<1>1. ReviewsInit => ReviewsInductive
  BY ReviewsBegin
<1>2. ReviewsInductive /\ [ReviewsNext]_reviewVars => ReviewsInductive'
  BY ReviewsSteps
<1> QED BY <1>1, <1>2, PTL DEF ReviewsSpec

(* Distributions that overlap exceed the caps by no more than one each.    *)

\* What each distribution is about to give a reviewer.
Pending(r) ==
  [d \in Distributors |-> IF distributor[d] = Idle THEN 0 ELSE Planned(distributor[d].plan, r)]

\* What a reviewer has and is about to be given; a plan on its own is within the cap.
CapsInductive ==
  /\ together \in Nat
  /\ \A d \in Distributors, r \in Pool : Pending(r)[d] <= Cap[r]
  /\ \A r \in Pool :
       Existing(r) + SumFunctionOnSet(Pending(r), Distributors) <= Cap[r] * together

\* What is pending is counted.
LEMMA PendingIsCounted ==
  ASSUME RequestsFit, NEW r \in Pool
  PROVE  /\ DOMAIN Pending(r) = Distributors /\ \A d \in Distributors : Pending(r)[d] \in Nat
         /\ SumFunctionOnSet(Pending(r), Distributors) \in Nat
<1>1. DOMAIN Pending(r) = Distributors
  BY DEF Pending
<1>2. ASSUME NEW d \in Distributors PROVE Pending(r)[d] \in Nat
  <2>1. CASE distributor[d] = Idle
    BY <2>1 DEF Pending
  <2>2. CASE distributor[d] # Idle
    BY <2>2, LoadsAreNumbers DEF Pending
  <2> QED BY <2>1, <2>2
<1>3. SumFunctionOnSet(Pending(r), Distributors) \in Nat
  BY <1>2, ReviewsAssumption, SumIsPositive
<1> QED BY <1>1, <1>2, <1>3

\* When one distribution plans more, what it gives is within the cap beside what is
\* there, and what each of the others gives is within the cap.
LEMMA PlanningAdds ==
  ASSUME NEW f, \A e \in Distributors : f[e] \in Nat, NEW g, \A e \in Distributors : g[e] \in Nat,
         NEW d \in Distributors, \A e \in Distributors : e # d => g[e] = f[e],
         NEW U \in SUBSET Distributors, d \in U, \A e \in Distributors \ U : g[e] = 0,
         NEW cap \in Nat, \A e \in Distributors : f[e] <= cap,
         NEW held \in Nat, held + g[d] <= cap
  PROVE  held + SumFunctionOnSet(g, Distributors) <= cap * Cardinality(U)
<1>1. IsFiniteSet(Distributors)
  BY ReviewsAssumption
<1>2. PICK h : h = [e \in Distributors |-> IF e = d THEN held + g[d] ELSE g[e]]
  OBVIOUS
<1>3. PICK one : one = [e \in Distributors |-> IF e \in U THEN 1 ELSE 0]
  OBVIOUS
<1>4. /\ \A e \in Distributors : h[e] \in Int /\ g[e] \in Int /\ one[e] \in Int
      /\ \A e \in Distributors : e # d => h[e] = g[e]
      /\ h[d] = held + g[d]
  BY <1>2, <1>3
<1>5. /\ SumFunctionOnSet(h, Distributors) \in Int /\ SumFunctionOnSet(g, Distributors) \in Int
      /\ SumFunctionOnSet(h, Distributors) - h[d] = SumFunctionOnSet(g, Distributors) - g[d]
  BY <1>1, <1>4, SumsDiffer
<1>6. ASSUME NEW e \in Distributors PROVE 1 * h[e] <= cap * one[e]
  <2>1. CASE e \in U
    <3>1. one[e] = 1 /\ h[e] \in Int /\ h[e] <= cap
      BY <1>2, <1>3, <1>4, <2>1
    <3> QED BY <3>1
  <2>2. CASE e \notin U
    <3>1. one[e] = 0 /\ h[e] = 0
      BY <1>2, <1>3, <2>2
    <3> QED BY <3>1
  <2> QED BY <2>1, <2>2
<1>7. /\ SumFunctionOnSet(one, Distributors) \in Int
      /\ 1 * SumFunctionOnSet(h, Distributors) <= cap * SumFunctionOnSet(one, Distributors)
  <2>1. 1 \in Int /\ cap \in Int
    OBVIOUS
  <2> QED BY <1>1, <1>4, <1>6, <2>1, SumsCompare
<1>8. SumFunctionOnSet(one, Distributors) = Cardinality(U)
  BY <1>1, <1>3, SumCountsPart
<1>9. g[d] \in Nat
  OBVIOUS
<1> QED BY <1>4, <1>5, <1>7, <1>8, <1>9

\* More distributions leave room for more.
LEMMA RoomGrows ==
  ASSUME NEW cap \in Nat, NEW a \in Nat, NEW b \in Nat, a <= b
  PROVE  cap * a \in Nat /\ cap * b \in Nat /\ cap * a <= cap * b
<1>1. PICK k \in Nat : b = a + k
  <2>1. b - a \in Nat /\ b = a + (b - a)
    OBVIOUS
  <2> QED BY <2>1
<1>2. cap * a \in Nat /\ cap * k \in Nat /\ cap * (a + k) = cap * a + cap * k
  OBVIOUS
<1> QED BY <1>1, <1>2

\* A new plan.
LEMMA PlanFitsCaps ==
  ASSUME ReviewsInductive, CapsInductive, NEW d \in Distributors, NEW S \in SUBSET Submissions,
         NEW order \in SetToSeqs(S), NEW pool \in SUBSET Pool, Plan(d, order, pool)
  PROVE  CapsInductive'
<1>0. RequestsFit /\ RequestsFit'
  BY PlanKeeps DEF ReviewsInductive
<1>1. PICK plan : plan = Distribution(order, pool).plan
  OBVIOUS
<1>2. /\ ~Distribution(order, pool).failed /\ UNCHANGED assignment /\ distributor[d] = Idle
      /\ distributor' = [distributor EXCEPT ![d] = [at |-> "insert", plan |-> plan]]
  BY <1>1 DEF Plan
<1>3. PICK n \in Nat : order \in [1..n -> S] /\ \A i, j \in 1..n : i # j => order[i] # order[j]
  BY OrdersAreWhole
<1>4. PlanHolds(plan, S, order, n, pool)
  BY <1>1, <1>2, <1>3, DistributionPlans
<1>5. Underway(d) \in SUBSET Distributors /\ d \in Underway(d) /\ Cardinality(Underway(d)) \in Nat
  <2>1. Underway(d) \in SUBSET Distributors /\ d \in Underway(d)
    BY DEF Underway
  <2> QED BY <2>1, ReviewsAssumption, FS_Subset, FS_CardinalityType
<1>6. /\ together' \in Nat /\ together \in Nat
      /\ Cardinality(Underway(d)) <= together' /\ together <= together'
  BY <1>5 DEF Plan, CapsInductive
<1>7. ASSUME NEW r \in Pool
      PROVE  /\ \A e \in Distributors : Pending(r)'[e] <= Cap[r]
             /\ Existing(r)' + SumFunctionOnSet(Pending(r)', Distributors) <= Cap[r] * together'
  <2>1. PICK f, g, held, asked, cap :
          /\ f = Pending(r) /\ g = Pending(r)' /\ held = Existing(r) /\ asked = Planned(plan, r)
          /\ cap = Cap[r]
    OBVIOUS
  <2>2. /\ cap \in Nat /\ held \in Nat /\ asked \in Nat /\ Existing(r)' = held
        /\ \A e \in Distributors : f[e] \in Nat /\ f[e] <= cap
        /\ SumFunctionOnSet(f, Distributors) \in Nat
        /\ held + SumFunctionOnSet(f, Distributors) <= cap * together
    <3>1. cap \in Nat
      BY <2>1, ReviewsAssumption
    <3>2. held \in Nat /\ asked \in Nat
      BY <2>1, LoadsAreNumbers
    <3>3. Existing(r)' = held
      BY <1>2, <2>1 DEF Existing
    <3>4. \A e \in Distributors : f[e] \in Nat /\ f[e] <= cap
      BY <1>0, <2>1, PendingIsCounted DEF CapsInductive
    <3>5. SumFunctionOnSet(f, Distributors) \in Nat
      BY <1>0, <2>1, PendingIsCounted
    <3> QED BY <2>1, <3>1, <3>2, <3>3, <3>4, <3>5 DEF CapsInductive
  <2>3. /\ \A e \in Distributors : e # d => g[e] = f[e]
        /\ g[d] = asked /\ f[d] = 0
        /\ \A e \in Distributors \ Underway(d) : g[e] = 0
        /\ DOMAIN f = Distributors /\ DOMAIN g = Distributors
        /\ f = [e \in Distributors |-> f[e]] /\ g = [e \in Distributors |-> g[e]]
    <3>1. g = [e \in Distributors |-> IF distributor'[e] = Idle THEN 0 ELSE Planned(distributor'[e].plan, r)]
      BY <2>1 DEF Pending, Planned
    <3>2. f = [e \in Distributors |-> IF distributor[e] = Idle THEN 0 ELSE Planned(distributor[e].plan, r)]
      BY <2>1 DEF Pending
    <3>3. \A e \in Distributors : e # d => distributor'[e] = distributor[e]
      BY <1>0, <1>2 DEF RequestsFit
    <3>4. distributor'[d] = [at |-> "insert", plan |-> plan] /\ distributor'[d] # Idle
      BY <1>0, <1>2 DEF RequestsFit, Idle
    <3>5. g[d] = asked /\ f[d] = 0
      BY <1>2, <2>1, <3>1, <3>2, <3>4
    <3>6. \A e \in Distributors : e # d => g[e] = f[e]
      BY <3>1, <3>2, <3>3
    <3>7. \A e \in Distributors \ Underway(d) : g[e] = 0
      BY <3>1, <3>3 DEF Underway
    <3> QED BY <3>1, <3>2, <3>5, <3>6, <3>7
  <2>4. CASE asked = 0
    <3>1. g = f
      BY <2>3, <2>4
    <3>2. PICK sum \in Nat : sum = SumFunctionOnSet(f, Distributors)
      BY <2>2
    <3>3. /\ cap * together \in Nat /\ cap * together' \in Nat
          /\ cap * together <= cap * together'
      <4>1. PICK a \in Nat, b \in Nat : a = together /\ b = together' /\ a <= b
        BY <1>6
      <4>2. cap * a \in Nat /\ cap * b \in Nat /\ cap * a <= cap * b
        BY <2>2, <4>1, RoomGrows
      <4> QED BY <4>1, <4>2
    <3> QED BY <2>1, <2>2, <3>1, <3>2, <3>3
  <2>5. CASE asked # 0
    <3>1. r \in pool
      <4> SUFFICES ASSUME r \notin pool PROVE FALSE
        OBVIOUS
      <4>1. {s \in Submissions : <<s, r>> \in plan} = {}
        BY <1>4 DEF PlanHolds
      <4> QED BY <2>1, <2>5, <4>1, FS_EmptySet DEF Planned
    <3>2. held + asked <= cap
      <4>1. Planned(plan, r) > 0
        BY <2>1, <2>2, <2>5
      <4> QED BY <1>4, <2>1, <3>1, <4>1 DEF PlanHolds, Load
    <3>3. \A e \in Distributors : g[e] \in Nat /\ g[e] <= cap
      BY <2>2, <2>3, <3>2
    <3>4. held + SumFunctionOnSet(g, Distributors) <= cap * Cardinality(Underway(d))
      BY <1>5, <2>2, <2>3, <3>2, <3>3, PlanningAdds
    <3>5. SumFunctionOnSet(g, Distributors) \in Nat
      BY <3>3, ReviewsAssumption, SumIsPositive
    <3>6. /\ cap * Cardinality(Underway(d)) \in Nat /\ cap * together' \in Nat
          /\ cap * Cardinality(Underway(d)) <= cap * together'
      <4>1. PICK a \in Nat, b \in Nat : a = Cardinality(Underway(d)) /\ b = together' /\ a <= b
        BY <1>5, <1>6
      <4>2. cap * a \in Nat /\ cap * b \in Nat /\ cap * a <= cap * b
        BY <2>2, <4>1, RoomGrows
      <4> QED BY <4>1, <4>2
    <3>7. PICK sum \in Nat : sum = SumFunctionOnSet(g, Distributors)
      BY <3>5
    <3> QED BY <2>1, <2>2, <3>3, <3>4, <3>6, <3>7
  <2> QED BY <2>4, <2>5
<1> QED BY <1>6, <1>7 DEF CapsInductive

\* What was planned is pending no more, and no more than that is assigned.
LEMMA CreateFitsCaps ==
  ASSUME ReviewsInductive, CapsInductive, NEW d \in Distributors, CreateAssignments(d)
  PROVE  CapsInductive'
<1>0. RequestsFit /\ RequestsFit'
  BY CreateKeeps DEF ReviewsInductive
<1>1. PICK plan \in SUBSET Pairs : plan = distributor[d].plan
  BY <1>0 DEF CreateAssignments, RequestsFit
<1>2. /\ distributor[d] # Idle /\ distributor' = [distributor EXCEPT ![d] = Idle]
      /\ UNCHANGED together
      /\ assignment' = [p \in Pairs |->
           IF p \in plan /\ assignment[p] = "none" THEN "assigned" ELSE assignment[p]]
  BY <1>1 DEF CreateAssignments
<1>3. ASSUME NEW r \in Pool
      PROVE  /\ \A e \in Distributors : Pending(r)'[e] <= Cap[r]
             /\ Existing(r)' + SumFunctionOnSet(Pending(r)', Distributors) <= Cap[r] * together'
  <2>1. PICK f, g, cap, held, asked, more :
          /\ f = Pending(r) /\ g = Pending(r)' /\ cap = Cap[r]
          /\ held = {s \in Submissions : assignment[<<s, r>>] # "none"}
          /\ asked = {s \in Submissions : <<s, r>> \in plan}
          /\ more = {s \in Submissions : assignment'[<<s, r>>] # "none"}
    OBVIOUS
  <2>2. /\ Cardinality(more) \in Nat /\ Cardinality(held) \in Nat /\ Cardinality(asked) \in Nat
        /\ Cardinality(more) <= Cardinality(held) + Cardinality(asked)
    <3>1. more \subseteq held \cup asked
      <4>1. \A s \in Submissions : <<s, r>> \in Pairs
        BY DEF Pairs
      <4> QED BY <1>2, <2>1, <4>1
    <3>2. IsFiniteSet(held) /\ IsFiniteSet(asked)
      <4>1. held \in SUBSET Submissions /\ asked \in SUBSET Submissions
        BY <2>1
      <4> QED BY <4>1, ReviewsAssumption, FS_Subset
    <3>3. IsFiniteSet(held \cup asked) /\ IsFiniteSet(held \cap asked)
          /\ Cardinality(held \cup asked) = Cardinality(held) + Cardinality(asked) - Cardinality(held \cap asked)
      BY <3>2, FS_Union, FS_Subset
    <3>4. IsFiniteSet(more) /\ Cardinality(more) <= Cardinality(held \cup asked)
      BY <3>1, <3>3, FS_Subset
    <3>5. /\ Cardinality(held) \in Nat /\ Cardinality(asked) \in Nat
          /\ Cardinality(held \cap asked) \in Nat /\ Cardinality(more) \in Nat
      BY <3>2, <3>3, <3>4, FS_CardinalityType
    <3> QED BY <3>3, <3>4, <3>5
  <2>3. /\ Existing(r) = Cardinality(held) /\ Existing(r)' = Cardinality(more)
        /\ Planned(plan, r) = Cardinality(asked)
    BY <2>1 DEF Existing, Planned
  <2>4. /\ \A e \in Distributors : f[e] \in Nat /\ f[e] <= cap
        /\ cap \in Nat /\ together \in Nat
        /\ Existing(r) + SumFunctionOnSet(f, Distributors) <= cap * together
    <3>1. cap \in Nat
      BY <2>1, ReviewsAssumption
    <3>2. \A e \in Distributors : f[e] \in Nat
      BY <1>0, <2>1, PendingIsCounted
    <3> QED BY <2>1, <3>1, <3>2 DEF CapsInductive
  <2>5. /\ \A e \in Distributors : e # d => f[e] = g[e]
        /\ f[d] = Cardinality(asked) /\ g[d] = 0
    <3>1. \A e \in Distributors : e # d => distributor'[e] = distributor[e]
      BY <1>0, <1>2 DEF RequestsFit
    <3>2. distributor'[d] = Idle
      BY <1>0, <1>2 DEF RequestsFit
    <3>3. g = [e \in Distributors |-> IF distributor'[e] = Idle THEN 0 ELSE Planned(distributor'[e].plan, r)]
      BY <2>1 DEF Pending, Planned
    <3>4. f = [e \in Distributors |-> IF distributor[e] = Idle THEN 0 ELSE Planned(distributor[e].plan, r)]
      BY <2>1 DEF Pending
    <3>5. g[d] = 0
      BY <3>2, <3>3
    <3>6. f[d] = Cardinality(asked)
      BY <1>1, <1>2, <2>3, <3>4
    <3> QED BY <3>1, <3>3, <3>4, <3>5, <3>6
  <2>6. \A e \in Distributors : g[e] \in Nat /\ g[e] <= cap
    BY <2>4, <2>5
  <2>7. /\ SumFunctionOnSet(f, Distributors) \in Int /\ SumFunctionOnSet(g, Distributors) \in Int
        /\ SumFunctionOnSet(f, Distributors) - f[d] = SumFunctionOnSet(g, Distributors) - g[d]
    <3>1. /\ \A e \in Distributors : f[e] \in Int /\ g[e] \in Int
          /\ \A e \in Distributors : d # e => f[e] = g[e]
      BY <2>4, <2>5, <2>6
    <3> QED BY <2>5, <3>1, ReviewsAssumption, SumsDiffer
  <2>8. PICK one \in Int, other \in Int, room \in Int :
          /\ one = SumFunctionOnSet(f, Distributors) /\ other = SumFunctionOnSet(g, Distributors)
          /\ room = cap * together
    BY <2>4, <2>7
  <2>9. Cardinality(more) + other <= room
    BY <2>2, <2>3, <2>4, <2>5, <2>7, <2>8
  <2> QED BY <1>2, <2>1, <2>3, <2>6, <2>8, <2>9
<1> QED BY <1>2, <1>3 DEF CapsInductive

\* Whatever leaves the plans alone and gives nobody an assignment, and takes none.
LEMMA OthersFitCaps ==
  ASSUME CapsInductive, UNCHANGED <<distributor, together>>,
         \A p \in Pairs : assignment'[p] = "none" <=> assignment[p] = "none"
  PROVE  CapsInductive'
<1>1. ASSUME NEW r \in Pool PROVE Existing(r)' = Existing(r)
  <2>1. \A s \in Submissions : assignment'[<<s, r>>] = "none" <=> assignment[<<s, r>>] = "none"
    BY <1>1 DEF Pairs
  <2>2. {s \in Submissions : assignment'[<<s, r>>] # "none"} = {s \in Submissions : assignment[<<s, r>>] # "none"}
    BY <2>1
  <2> QED BY <2>2 DEF Existing
<1>2. \A r \in Pool : Pending(r)' = Pending(r)
  BY DEF Pending, Planned
<1> QED BY <1>1, <1>2 DEF CapsInductive

\* The steps of a round, however many distribute.
LEMMA CapsSteps ==
  ASSUME ReviewsInductive, CapsInductive, [ReviewsNext]_reviewVars
  PROVE  CapsInductive'
<1>1. CASE ReviewsNext
  <2>1. ASSUME NEW d \in Distributors, Distribute(d) \/ AssignReviewer(d) \/ CreateAssignments(d)
        PROVE  CapsInductive'
    BY <2>1, DistributorsStep, CreateFitsCaps, PlanFitsCaps DEF ReviewStep
  <2>2. ASSUME NEW p \in Pairs, DeclareConflict(p)
        PROVE  CapsInductive'
    BY <2>2, OthersFitCaps DEF DeclareConflict
  <2>3. ASSUME NEW s \in Sessions, NEW p \in Pairs,
               RecuseChecks(s, p) \/ \E f \in BOOLEAN : SaveChecks(s, p, f)
        PROVE  CapsInductive'
    BY <2>3, OthersFitCaps DEF RecuseChecks, SaveChecks
  <2>4. ASSUME NEW s \in Sessions, SaveReads(s) \/ SaveWrites(s) \/ RecuseWrites(s)
        PROVE  CapsInductive'
    <3>1. PICK q \in Pairs : q = session[s].pair /\ assignment[q] # "none"
      <4>1. session[s] # Idle
        BY <2>4 DEF SaveReads, SaveWrites, RecuseWrites, Idle
      <4> QED BY <4>1 DEF ReviewsInductive, RequestsFit
    <3>2. UNCHANGED <<distributor, together>>
      BY <2>4 DEF SaveReads, SaveWrites, RecuseWrites
    <3>3. UNCHANGED assignment \/ \E to \in {"submitted", "in_progress", "recused"} :
                                    assignment' = [assignment EXCEPT ![q] = to]
      BY <2>4, <3>1 DEF SaveReads, SaveWrites, RecuseWrites
    <3>4. \A p \in Pairs : assignment'[p] = "none" <=> assignment[p] = "none"
      <4>1. DOMAIN assignment = Pairs
        BY DEF ReviewsInductive, StatusMatchesResponse, ReviewsTypeOK
      <4> QED BY <3>1, <3>3, <4>1
    <3> QED BY <3>2, <3>4, OthersFitCaps
  <2> QED BY <1>1, <2>1, <2>2, <2>3, <2>4 DEF ReviewsNext
<1>2. CASE UNCHANGED reviewVars
  BY <1>2, OthersFitCaps DEF reviewVars
<1> QED BY <1>1, <1>2

\* Nobody has more assignments than the cap, times the distributions that were ever
\* in progress together; each counts without what the others insert.
THEOREM CapsAreRespected == ReviewsSpec => []ReviewsSafe
<1>1. ReviewsInit => CapsInductive
  <2> SUFFICES ASSUME ReviewsInit PROVE CapsInductive
    OBVIOUS
  <2>0. RequestsFit
    BY ReviewsBegin DEF ReviewsInductive
  <2>1. ASSUME NEW r \in Pool
        PROVE  /\ \A d \in Distributors : Pending(r)[d] <= Cap[r]
               /\ Existing(r) + SumFunctionOnSet(Pending(r), Distributors) <= Cap[r] * together
    <3>1. \A s \in Submissions : <<s, r>> \in Pairs
      BY <2>1 DEF Pairs
    <3>2. {s \in Submissions : assignment[<<s, r>>] # "none"} = {}
      BY <3>1 DEF ReviewsInit
    <3>3. Existing(r) = 0 /\ Cap[r] \in Nat
      BY <3>2, FS_EmptySet, ReviewsAssumption DEF Existing
    <3>4. \A d \in Distributors : Pending(r)[d] = 0
      BY DEF ReviewsInit, Pending
    <3>5. SumFunctionOnSet(Pending(r), Distributors) = 0
      <4>1. PICK f : f = Pending(r)
        OBVIOUS
      <4>2. \A d \in Distributors : f[d] \in Nat /\ f[d] = 0
        BY <3>4, <4>1
      <4>3. SumFunctionOnSet(f, Distributors) = 0
        BY <4>2, ReviewsAssumption, SumIsPositive
      <4> QED BY <4>1, <4>3
    <3>6. together = 0
      BY DEF ReviewsInit
    <3> QED BY <3>3, <3>4, <3>5, <3>6
  <2> QED BY <2>1 DEF CapsInductive, ReviewsInit
<1>2. ReviewsInductive /\ CapsInductive /\ [ReviewsNext]_reviewVars => CapsInductive'
  BY CapsSteps
<1>3. ReviewsInductive /\ CapsInductive => ReviewsSafe
  <2> SUFFICES ASSUME ReviewsInductive, CapsInductive, NEW r \in Pool
               PROVE  Existing(r) <= Cap[r] * together
    BY DEF ReviewsInductive, ReviewsSafe, CapRespected
  <2>1. SumFunctionOnSet(Pending(r), Distributors) \in Nat /\ Existing(r) \in Nat
    BY PendingIsCounted, LoadsAreNumbers DEF ReviewsInductive
  <2>2. PICK room \in Nat : room = Cap[r] * together
    <3>1. PICK cap \in Nat, a \in Nat : cap = Cap[r] /\ a = together
      BY ReviewsAssumption DEF CapsInductive
    <3>2. cap * a \in Nat
      OBVIOUS
    <3> QED BY <3>1, <3>2
  <2>3. Existing(r) + SumFunctionOnSet(Pending(r), Distributors) <= room
    BY <2>2 DEF CapsInductive
  <2> QED BY <2>1, <2>2, <2>3
<1> QED BY <1>1, <1>2, <1>3, ReviewsInvariance, PTL DEF ReviewsSpec

-----------------------------------------------------------------------------
(***************************************************************************)
(* Evaluation: the weighted score, the reviewer's page and the results.    *)
(***************************************************************************)

\* A product of positive numbers is positive, and a multiple of each.
LEMMA ProductIsMultiple ==
  ASSUME NEW S, IsFiniteSet(S), NEW f, \A x \in S : f[x] \in Nat \ {0}
  PROVE  \E product \in Nat \ {0} :
           /\ product = ProductOnSet(f, S)
           /\ \A y \in S : \E m \in Nat : product = m * f[y]
<1>0. \A x \in S : f[x] \in Int
  OBVIOUS
<1>1. PICK product : /\ IsProduct(f, S, product)
                     /\ ProductOnSet(f, S) = product[S]
  BY <1>0, ProductIsThere
<1>2. PICK Good : Good = {T \in SUBSET S : /\ product[T] \in Nat \ {0}
                                           /\ \A y \in T : \E m \in Nat : product[T] = m * f[y]}
  OBVIOUS
<1>3. {} \in Good
  <2>1. product[{}] = 1 /\ {} \in SUBSET S
    BY <1>1 DEF IsProduct
  <2> QED BY <1>2, <2>1
<1>4. ASSUME NEW T \in SUBSET S, T # {}, T \ {Picked(T)} \in Good PROVE T \in Good
  <2>1. PICK x \in T : x = Picked(T)
    BY <1>4 DEF Picked
  <2>2. /\ product[T] = f[x] * product[T \ {x}]
        /\ product[T \ {x}] \in Nat \ {0} /\ f[x] \in Nat \ {0}
        /\ \A y \in T \ {x} : \E m \in Nat : product[T \ {x}] = m * f[y]
    BY <1>1, <1>2, <1>4, <2>1 DEF IsProduct
  <2>3. PICK k \in Nat \ {0}, l \in Nat \ {0} : k = product[T \ {x}] /\ l = f[x]
    BY <2>2
  <2>4. product[T] = l * k /\ l * k \in Nat \ {0} /\ l * k = k * l
    BY <2>2, <2>3
  <2>5. ASSUME NEW y \in T PROVE \E m \in Nat : product[T] = m * f[y]
    <3>1. CASE y = x
      BY <2>3, <2>4, <3>1
    <3>2. CASE y # x
      <4>1. PICK m \in Nat : k = m * f[y]
        BY <2>2, <2>3, <3>2
      <4>2. f[y] \in Nat /\ l * m \in Nat /\ l * (m * f[y]) = (l * m) * f[y]
        OBVIOUS
      <4> QED BY <2>4, <4>1, <4>2
    <3> QED BY <3>1, <3>2
  <2> QED BY <1>2, <2>4, <2>5
<1>5. SUBSET S \subseteq Good
  BY <1>3, <1>4, SubsetInduction
<1> QED BY <1>1, <1>2, <1>5

(* Rounding.                                                               *)

\* What a quotient is.
LEMMA DivIs ==
  ASSUME NEW a \in Int, NEW b \in Nat \ {0}
  PROVE  (a \div b) \in Int /\ (a \div b) * b <= a /\ a < ((a \div b) + 1) * b
  OBVIOUS

\* Rounding keeps the order of quotients.
LEMMA RoundAbove ==
  ASSUME NEW a \in Int, NEW b \in Nat \ {0}, NEW c \in Int, NEW d \in Nat \ {0}, c * b <= a * d
  PROVE  Round(a, b) \in Int /\ Round(c, d) \in Int /\ Round(c, d) <= Round(a, b)
<1>1. PICK p \in Int : p = Round(a, b) /\ p * (2 * b) <= 2 * a + b /\ 2 * a + b < (p + 1) * (2 * b)
  <2>1. 2 * b \in Nat \ {0} /\ 2 * a + b \in Int
    OBVIOUS
  <2> QED BY <2>1, DivIs DEF Round
<1>2. PICK q \in Int : q = Round(c, d) /\ q * (2 * d) <= 2 * c + d /\ 2 * c + d < (q + 1) * (2 * d)
  <2>1. 2 * d \in Nat \ {0} /\ 2 * c + d \in Int
    OBVIOUS
  <2> QED BY <2>1, DivIs DEF Round
<1>3. ASSUME p < q PROVE FALSE
  <2>1. 2 * a < (2 * p + 1) * b
    BY <1>1
  <2>2. (2 * q - 1) * d <= 2 * c
    BY <1>2
  <2>3. (2 * p + 1) * b <= (2 * q - 1) * b
    BY <1>3
  <2>4. (2 * a) * d < ((2 * q - 1) * b) * d
    BY <2>1, <2>3
  <2>5. ((2 * q - 1) * d) * b <= (2 * c) * b
    BY <2>2
  <2>6. ((2 * q - 1) * d) * b = ((2 * q - 1) * b) * d
    OBVIOUS
  <2>7. (2 * c) * b <= (2 * a) * d
    OBVIOUS
  <2> QED BY <2>4, <2>5, <2>6, <2>7
<1> QED BY <1>1, <1>2, <1>3

(* The score of a review is a mean of what was answered.                   *)

\* An exact quotient.
LEMMA ExactQuotient ==
  ASSUME NEW m \in Nat, NEW s \in Nat \ {0}
  PROVE  (m * s) \div s = m
<1>1. PICK q \in Int : q = (m * s) \div s /\ q * s <= m * s /\ m * s < (q + 1) * s
  BY DivIs
<1>2. q <= m
  <2> SUFFICES ASSUME m + 1 <= q PROVE FALSE
    BY <1>1
  <2>1. (m + 1) * s <= q * s
    OBVIOUS
  <2> QED BY <1>1, <2>1
<1>3. m <= q
  <2> SUFFICES ASSUME q + 1 <= m PROVE FALSE
    BY <1>1
  <2>1. (q + 1) * s <= m * s
    OBVIOUS
  <2> QED BY <1>1, <2>1
<1> QED BY <1>1, <1>2, <1>3

\* What an answer of a scorecard that was let through is worth.
LEMMA AnswersCount ==
  ASSUME NEW c \in Cards, ValidScorecard(c), NEW answers, Scorable(c, answers, FALSE),
         NEW k \in Scoring(c) \cap Answered(c, answers)
  PROVE  /\ Span(c[k]) \in Nat \ {0} /\ c[k].weight \in Nat
         /\ Points(c[k], answers[k].input) \in Nat
         /\ Points(c[k], answers[k].input) <= 100 * Span(c[k])
<1>1. k \in DOMAIN c /\ c[k].type \in {"numeric", "dropdown"} /\ c[k].weight \in Int
  BY EvaluationAssumption DEF Scoring
<1>2. CASE c[k].type = "numeric"
  <2>1. /\ c[k].min \in Int /\ c[k].max \in Int /\ c[k].min < c[k].max /\ c[k].weight > 0
        /\ answers[k].input \in c[k].min..c[k].max
    BY <1>1, <1>2, EvaluationAssumption DEF ValidScorecard, Scorable
  <2>2. PICK lo \in Int, hi \in Int, x \in Int : lo = c[k].min /\ hi = c[k].max /\ x = answers[k].input
    BY <2>1
  <2>3. hi - lo \in Nat \ {0} /\ (x - lo) * 100 \in Nat /\ (x - lo) * 100 <= 100 * (hi - lo)
    BY <2>1, <2>2
  <2> QED BY <1>1, <1>2, <2>1, <2>2, <2>3 DEF Span, Points
<1>3. CASE c[k].type = "dropdown"
  <2>1. c[k].weight >= 0 /\ c[k].options[answers[k].input] \in 0..100
    BY <1>1, <1>3 DEF ValidScorecard, Scorable
  <2> QED BY <1>1, <1>3, <2>1 DEF Span, Points
<1> QED BY <1>1, <1>2, <1>3

\* What is scored is finite, and the spans have a common multiple.
SpansFit(c, answers, scored) ==
  /\ IsFiniteSet(scored) /\ CommonSpan(c, scored) \in Nat \ {0}
  /\ \A k \in scored :
       /\ Scaled(c, answers, scored)[k] \in Nat
       /\ Scaled(c, answers, scored)[k] * Span(c[k])
            = Points(c[k], answers[k].input) * CommonSpan(c, scored)
       /\ Scaled(c, answers, scored)[k] <= 100 * CommonSpan(c, scored)

\* They do, for the answers that are let through.
LEMMA ScoredSpans ==
  ASSUME NEW c \in Cards, ValidScorecard(c), NEW answers, Scorable(c, answers, FALSE)
  PROVE  SpansFit(c, answers, Scoring(c) \cap Answered(c, answers))
<1>0. PICK scored : scored = Scoring(c) \cap Answered(c, answers)
  OBVIOUS
<1>1. IsFiniteSet(scored)
  <2>1. scored \in SUBSET DOMAIN c /\ IsFiniteSet(DOMAIN c)
    BY <1>0, EvaluationAssumption DEF Scoring
  <2> QED BY <2>1, FS_Subset
<1>2. PICK f : f = [k \in scored |-> Span(c[k])]
  OBVIOUS
<1>3. \A k \in scored : f[k] \in Nat \ {0}
  BY <1>0, <1>2, AnswersCount
<1>4. PICK common \in Nat \ {0} :
        /\ common = CommonSpan(c, scored)
        /\ \A k \in scored : \E m \in Nat : common = m * f[k]
  BY <1>1, <1>2, <1>3, ProductIsMultiple DEF CommonSpan
<1>5. ASSUME NEW k \in scored
      PROVE  /\ Scaled(c, answers, scored)[k] \in Nat
             /\ Scaled(c, answers, scored)[k] * Span(c[k])
                  = Points(c[k], answers[k].input) * common
             /\ Scaled(c, answers, scored)[k] <= 100 * common
  <2>1. PICK s \in Nat \ {0}, p \in Nat : /\ s = Span(c[k]) /\ p = Points(c[k], answers[k].input)
                                         /\ p <= 100 * s
    BY <1>0, AnswersCount
  <2>2. PICK m \in Nat : common = m * s
    BY <1>2, <1>4, <2>1
  <2>3. common \div s = m
    BY <2>2, ExactQuotient
  <2>4. Scaled(c, answers, scored)[k] = p * m
    BY <1>4, <2>1, <2>3 DEF Scaled
  <2>5. p * m \in Nat /\ (p * m) * s = p * (m * s)
    OBVIOUS
  <2>6. p * m <= 100 * (m * s)
    <3>1. p * m <= (100 * s) * m
      BY <2>1
    <3>2. (100 * s) * m = 100 * (m * s)
      OBVIOUS
    <3> QED BY <3>1, <3>2
  <2> QED BY <2>1, <2>2, <2>4, <2>5, <2>6
<1> QED BY <1>0, <1>1, <1>4, <1>5 DEF SpansFit

\* The scores that there are.
LEMMA HundredthsAre ==
  \A r : r \in Hundredths <=> r \in Int /\ 0 <= r /\ r <= FullScore
<1>1. FullScore \in Int
  BY DEF FullScore
<1> QED BY <1>1 DEF Hundredths

\* A weighted mean of whole numbers lies between two of those that weigh.
LEMMA MeanIsBetween ==
  ASSUME NEW S, IsFiniteSet(S), NEW w, \A k \in S : w[k] \in Nat,
         NEW v, NEW top \in Nat, \A k \in S : v[k] \in Nat /\ v[k] <= top,
         NEW heavy, heavy = {k \in S : w[k] > 0}, heavy # {},
         NEW g, \A k \in S : g[k] = v[k] * w[k]
  PROVE  /\ SumFunctionOnSet(w, S) \in Nat \ {0} /\ SumFunctionOnSet(g, S) \in Nat
         /\ \E k \in heavy : v[k] * SumFunctionOnSet(w, S) <= SumFunctionOnSet(g, S)
         /\ \E k \in heavy : SumFunctionOnSet(g, S) <= v[k] * SumFunctionOnSet(w, S)
<1>1. SumFunctionOnSet(w, S) \in Nat \ {0}
  BY SumIsPositive
<1>2. \A k \in S : g[k] \in Nat
  <2> SUFFICES ASSUME NEW k \in S PROVE g[k] \in Nat
    OBVIOUS
  <2>1. PICK a \in Nat, b \in Nat : a = v[k] /\ b = w[k]
    OBVIOUS
  <2>2. a * b \in Nat
    OBVIOUS
  <2> QED BY <2>1, <2>2
<1>3. SumFunctionOnSet(g, S) \in Nat
  BY <1>2, SumIsPositive
<1>4. PICK lo \in heavy : \A k \in heavy : v[lo] <= v[k]
  <2>1. PICK T : T = {v[k] : k \in heavy}
    OBVIOUS
  <2>2. T \in SUBSET Nat /\ T # {}
    BY <2>1
  <2>3. PICK m \in T : \A n \in T : m <= n
    BY <2>2, LeastNumber
  <2> QED BY <2>1, <2>3
<1>5. PICK hi \in heavy : \A k \in heavy : v[k] <= v[hi]
  <2>1. PICK T : T = {top - v[k] : k \in heavy}
    OBVIOUS
  <2>2. T \in SUBSET Nat /\ T # {}
    BY <2>1
  <2>3. PICK m \in T : \A n \in T : m <= n
    BY <2>2, LeastNumber
  <2>4. PICK hi \in heavy : m = top - v[hi]
    BY <2>1, <2>3
  <2>5. ASSUME NEW k \in heavy PROVE v[k] <= v[hi]
    <3>1. top - v[hi] <= top - v[k]
      BY <2>1, <2>3, <2>4
    <3> QED BY <3>1
  <2> QED BY <2>5
<1>6. ASSUME NEW k \in S PROVE v[lo] * w[k] <= g[k] /\ g[k] <= v[hi] * w[k]
  <2>1. PICK a \in Nat, b \in Nat, l \in Nat, h \in Nat : a = v[k] /\ b = w[k] /\ l = v[lo] /\ h = v[hi]
    OBVIOUS
  <2>2. CASE b = 0
    <3>1. l * b = 0 /\ a * b = 0 /\ h * b = 0
      BY <2>2
    <3>2. g[k] = a * b
      BY <2>1
    <3> QED BY <2>1, <3>1, <3>2
  <2>3. CASE b > 0
    <3>1. l <= a /\ a <= h
      BY <1>4, <1>5, <2>1, <2>3
    <3>2. l * b <= a * b /\ a * b <= h * b
      BY <3>1
    <3> QED BY <2>1, <3>2
  <2> QED BY <2>1, <2>2, <2>3
<1>7. PICK l \in Nat, h \in Nat : l = v[lo] /\ h = v[hi]
  OBVIOUS
<1>8. \A k \in S : l * w[k] <= 1 * g[k] /\ 1 * g[k] <= h * w[k]
  <2> SUFFICES ASSUME NEW k \in S PROVE l * w[k] <= 1 * g[k] /\ 1 * g[k] <= h * w[k]
    OBVIOUS
  <2>1. 1 * g[k] = g[k]
    BY <1>2
  <2> QED BY <1>6, <1>7, <2>1
<1>9. l * SumFunctionOnSet(w, S) <= 1 * SumFunctionOnSet(g, S)
  <2>1. (\A k \in S : w[k] \in Int) /\ (\A k \in S : g[k] \in Int) /\ 1 \in Int /\ l \in Int
    BY <1>2
  <2> QED BY <1>8, <2>1, SumsCompare
<1>10. 1 * SumFunctionOnSet(g, S) <= h * SumFunctionOnSet(w, S)
  <2>1. (\A k \in S : w[k] \in Int) /\ (\A k \in S : g[k] \in Int) /\ 1 \in Int /\ h \in Int
    BY <1>2
  <2> QED BY <1>8, <2>1, SumsCompare
<1> QED BY <1>1, <1>3, <1>7, <1>9, <1>10

\* The score of a scorecard that was let through, with answers that were.
LEMMA ScoreIsMean ==
  ASSUME NEW c \in Cards, ValidScorecard(c), NEW answers, Scorable(c, answers, FALSE)
  PROVE  /\ WeightedScore(c, answers) \in Hundredths \cup {NoScore}
         /\ WeightedScore(c, answers) = NoScore <=> Weighing(c, answers) = {}
         /\ WeightedScore(c, answers) # NoScore =>
              /\ \E k \in Weighing(c, answers) :
                   Percent(c, answers, k) <= WeightedScore(c, answers)
              /\ \E k \in Weighing(c, answers) :
                   WeightedScore(c, answers) <= Percent(c, answers, k)
<1>1. PICK scored : scored = Scoring(c) \cap Answered(c, answers)
  OBVIOUS
<1>2. PICK w : w = Weights(c)
  OBVIOUS
<1>3. PICK v : v = Scaled(c, answers, scored)
  OBVIOUS
<1>4. PICK g : g = [k \in scored |-> v[k] * c[k].weight]
  OBVIOUS
<1>5. PICK common \in Nat \ {0} :
        /\ common = CommonSpan(c, scored) /\ IsFiniteSet(scored)
        /\ \A k \in scored : /\ v[k] \in Nat /\ v[k] <= 100 * common
                             /\ v[k] * Span(c[k]) = Points(c[k], answers[k].input) * common
  <2>1. SpansFit(c, answers, scored)
    BY <1>1, ScoredSpans
  <2> QED BY <1>3, <2>1 DEF SpansFit
<1>6. \A k \in scored : w[k] = c[k].weight /\ w[k] \in Nat /\ g[k] = v[k] * w[k]
  <2>1. \A k \in scored : k \in DOMAIN c /\ c[k].weight \in Nat
    BY <1>1, AnswersCount DEF Scoring
  <2> QED BY <1>2, <1>4, <2>1 DEF Weights
<1>7. PICK heavy : heavy = Weighing(c, answers)
  OBVIOUS
<1>8. heavy = {k \in scored : w[k] > 0}
  BY <1>1, <1>6, <1>7 DEF Weighing
<1>9. WeightedScore(c, answers) =
        IF SumFunctionOnSet(w, scored) = 0 THEN NoScore
        ELSE Round(100 * SumFunctionOnSet(g, scored), SumFunctionOnSet(w, scored) * common)
  BY <1>1, <1>2, <1>3, <1>4, <1>5 DEF WeightedScore
<1>10. CASE heavy = {}
  <2>1. \A k \in scored : w[k] = 0
    BY <1>6, <1>8, <1>10
  <2>2. SumFunctionOnSet(w, scored) = 0
    BY <1>5, <1>6, <2>1, SumIsPositive
  <2> QED BY <1>7, <1>9, <1>10, <2>2 DEF NoScore
<1>11. CASE heavy # {}
  <2>1. PICK top \in Nat : top = 100 * common
    OBVIOUS
  <2>2. /\ SumFunctionOnSet(w, scored) \in Nat \ {0} /\ SumFunctionOnSet(g, scored) \in Nat
        /\ \E k \in heavy : v[k] * SumFunctionOnSet(w, scored) <= SumFunctionOnSet(g, scored)
        /\ \E k \in heavy : SumFunctionOnSet(g, scored) <= v[k] * SumFunctionOnSet(w, scored)
    BY <1>5, <1>6, <1>8, <1>11, <2>1, MeanIsBetween
  <2>3. PICK weight \in Nat \ {0}, total \in Nat :
          weight = SumFunctionOnSet(w, scored) /\ total = SumFunctionOnSet(g, scored)
    BY <2>2
  <2>4. weight * common \in Nat \ {0}
    OBVIOUS
  <2>5. WeightedScore(c, answers) = Round(100 * total, weight * common)
    BY <1>9, <2>3
  <2>6. ASSUME NEW k \in heavy
        PROVE  /\ Percent(c, answers, k) \in Hundredths
               /\ v[k] * weight <= total => Percent(c, answers, k) <= Round(100 * total, weight * common)
               /\ total <= v[k] * weight => Round(100 * total, weight * common) <= Percent(c, answers, k)
    <3>1. k \in scored /\ k \in Scoring(c) \cap Answered(c, answers)
      BY <1>1, <1>8
    <3>2. PICK s \in Nat \ {0}, p \in Nat, x \in Nat :
            /\ s = Span(c[k]) /\ p = Points(c[k], answers[k].input) /\ p <= 100 * s
            /\ x = v[k] /\ x * s = p * common
      BY <1>5, <3>1, AnswersCount
    <3>3. Percent(c, answers, k) = Round(100 * p, s)
      BY <3>2 DEF Percent
    <3>4. Round(100 * p, s) \in Hundredths
      <4>1. FullScore \in Nat /\ Round(0, 1) = 0 /\ Round(FullScore, 1) = FullScore
        BY DEF Round, FullScore
      <4>2. Round(100 * p, s) \in Int /\ Round(0, 1) <= Round(100 * p, s)
        <5>1. 0 * s <= (100 * p) * 1 /\ 100 * p \in Int
          OBVIOUS
        <5> QED BY <5>1, RoundAbove
      <4>3. Round(100 * p, s) <= Round(FullScore, 1)
        <5>1. (100 * p) * 1 <= FullScore * s /\ 100 * p \in Int
          BY <3>2 DEF FullScore
        <5> QED BY <4>1, <5>1, RoundAbove
      <4> QED BY <4>1, <4>2, <4>3, HundredthsAre
    <3>5. (x * weight) * s = p * (weight * common)
      <4>1. (x * weight) * s = (x * s) * weight
        OBVIOUS
      <4>2. (p * common) * weight = p * (weight * common)
        OBVIOUS
      <4> QED BY <3>2, <4>1, <4>2
    <3>6. ASSUME x * weight <= total PROVE Round(100 * p, s) <= Round(100 * total, weight * common)
      <4>1. (x * weight) * s <= total * s
        BY <3>6
      <4>2. (100 * p) * (weight * common) <= (100 * total) * s
        <5>1. p * (weight * common) <= total * s
          BY <3>5, <4>1
        <5>2. PICK a \in Nat, b \in Nat : a = p * (weight * common) /\ b = total * s
          OBVIOUS
        <5>3. (100 * p) * (weight * common) = 100 * a /\ (100 * total) * s = 100 * b
          BY <5>2
        <5> QED BY <5>1, <5>2, <5>3
      <4>3. 100 * total \in Int /\ 100 * p \in Int
        OBVIOUS
      <4> QED BY <2>4, <4>2, <4>3, RoundAbove
    <3>7. ASSUME total <= x * weight PROVE Round(100 * total, weight * common) <= Round(100 * p, s)
      <4>1. total * s <= (x * weight) * s
        BY <3>7
      <4>2. (100 * total) * s <= (100 * p) * (weight * common)
        <5>1. total * s <= p * (weight * common)
          BY <3>5, <4>1
        <5>2. PICK a \in Nat, b \in Nat : a = p * (weight * common) /\ b = total * s
          OBVIOUS
        <5>3. (100 * p) * (weight * common) = 100 * a /\ (100 * total) * s = 100 * b
          BY <5>2
        <5> QED BY <5>1, <5>2, <5>3
      <4>3. 100 * total \in Int /\ 100 * p \in Int
        OBVIOUS
      <4> QED BY <2>4, <4>2, <4>3, RoundAbove
    <3>8. v[k] * weight = x * weight
      BY <3>2
    <3> QED BY <3>3, <3>4, <3>6, <3>7, <3>8
  <2>7. Round(100 * total, weight * common) \in Int
    <3>1. 100 * total \in Int /\ 0 * 1 <= 0 * 1
      OBVIOUS
    <3>2. (100 * total) * (weight * common) <= (100 * total) * (weight * common)
      BY <2>4
    <3> QED BY <2>4, <3>1, <3>2, RoundAbove
  <2>8. PICK lo \in heavy : v[lo] * weight <= total
    BY <2>2, <2>3
  <2>9. PICK hi \in heavy : total <= v[hi] * weight
    BY <2>2, <2>3
  <2>10. /\ Percent(c, answers, lo) <= WeightedScore(c, answers) /\ Percent(c, answers, lo) \in Hundredths
         /\ WeightedScore(c, answers) <= Percent(c, answers, hi) /\ Percent(c, answers, hi) \in Hundredths
    BY <2>5, <2>6, <2>8, <2>9
  <2>11. WeightedScore(c, answers) \in Hundredths
    <3>1. PICK a \in Int, b \in Int, score \in Int :
            /\ a = Percent(c, answers, lo) /\ b = Percent(c, answers, hi)
            /\ score = WeightedScore(c, answers) /\ 0 <= a /\ b <= FullScore
      BY <2>5, <2>7, <2>10, HundredthsAre
    <3>2. FullScore \in Int
      BY DEF FullScore
    <3>3. 0 <= score /\ score <= FullScore
      BY <2>10, <3>1, <3>2
    <3> QED BY <3>1, <3>3, HundredthsAre
  <2>12. NoScore \notin Hundredths
    BY HundredthsAre DEF NoScore
  <2> QED BY <1>7, <1>11, <2>10, <2>11, <2>12
<1> QED BY <1>10, <1>11

(* What the page shows and sends was typed for what it is saved under.     *)

\* The answers of a form, all of them typed for an assignment.
TypedFor(c, answers, q) ==
  /\ DOMAIN answers = DOMAIN c
  /\ \A k \in Answered(c, answers) : answers[k].typedFor = q

\* Answers that a draft, or a finalized review, is let through with.
DraftFits(c, answers) == Scorable(c, answers, FALSE)
FinalFits(c, answers) == Scorable(c, answers, TRUE)

\* A row: as it was assigned, or as its last save left it, recused since perhaps.
RowFits(c, row, q) ==
  /\ DOMAIN row = {"status", "answers", "score", "revision"}
  /\ row.status \in {"assigned", "in_progress", "submitted", "recused"}
  /\ row.revision \in Nat /\ TypedFor(c, row.answers, q)
  /\ row.revision = 0 => row.score = NoScore /\ row.status \in {"assigned", "recused"}
  /\ row.revision > 0 => /\ DraftFits(c, row.answers)
                         /\ row.status = "submitted" => FinalFits(c, row.answers)
                         /\ row.score = WeightedScore(c, row.answers)

\* A request carries what was on the page.
SentFits(c, r) ==
  \/ r = NothingSent
  \/ /\ DOMAIN r = {"at", "kind", "review", "answers", "filter"}
     /\ r.at \in {"sent", "reload"} /\ r.review \in Queue
     /\ TypedFor(c, r.answers, r.review)

\* The page shows rows that were read, and a form of the one that is selected.
PageFits(c, d) ==
  /\ DOMAIN d = {"loaded", "filter", "selected", "answers", "queue", "request"}
  /\ d.loaded \in BOOLEAN /\ d.selected \in Queue \cup {NoReview}
  /\ d.loaded => \A q \in Queue : RowFits(c, d.queue[q], q)
  /\ d.selected # NoReview => d.loaded /\ TypedFor(c, d.answers, d.selected)
  /\ SentFits(c, d.request)

\* The rows that are stored.
RowsFit(c, rows, saved) ==
  /\ DOMAIN rows = Queue
  /\ \A q \in Queue : RowFits(c, rows[q], q) /\ rows[q].revision <= saved

\* What was advised.
AdviceFits ==
  advice \in Seq({a \in [status : {"completed", "failed"}, score : Hundredths \cup {NoScore},
                         override : Int] : a.status = "failed" <=> a.score = NoScore})

\* The invariant.
EvaluationInductive ==
  /\ saves \in 0..MaxSaves /\ AdviceFits
  /\ \/ card = << >> /\ reviews = << >> /\ desk = NoPage
     \/ /\ card \in Cards /\ ValidScorecard(card)
        /\ RowsFit(card, reviews, saves) /\ PageFits(card, desk)

\* A chosen assignment is one of those it is chosen from.
LEMMA ProposedIsShown ==
  ASSUME NEW rows, NEW visible \in SUBSET Queue
  PROVE  /\ Proposed(rows, visible) \in visible \cup {NoReview}
         /\ First(visible) \in visible \cup {NoReview}
<1>1. ASSUME NEW S \in SUBSET Queue PROVE First(S) \in S \cup {NoReview}
  <2>1. CASE S = {}
    BY <2>1 DEF First
  <2>2. CASE S # {}
    <3>1. S \in SUBSET Nat
      BY EvaluationAssumption
    <3>2. PICK q \in S : \A p \in S : q <= p
      BY <2>2, <3>1, LeastNumber
    <3> QED BY <2>2, <3>2 DEF First
  <2> QED BY <2>1, <2>2
<1>2. PICK todo : todo = {q \in visible : Incomplete(rows[q])}
  OBVIOUS
<1>3. todo \in SUBSET Queue /\ todo \subseteq visible
  BY <1>2
<1>4. Proposed(rows, visible) = IF todo # {} THEN First(todo) ELSE First(visible)
  BY <1>2 DEF Proposed
<1>5. First(visible) \in visible \cup {NoReview} /\ First(todo) \in todo \cup {NoReview}
  BY <1>1, <1>3
<1> QED BY <1>3, <1>4, <1>5

\* A page that shows rows that fit, fits.
LEMMA ShowingFits ==
  ASSUME NEW c, NEW rows, \A q \in Queue : RowFits(c, rows[q], q), NEW filter,
         NEW chosen \in Queue \cup {NoReview}, NEW r, SentFits(c, r)
  PROVE  /\ PageFits(c, Showing(rows, filter, chosen))
         /\ PageFits(c, [Showing(rows, filter, chosen) EXCEPT !.request = r])
<1>1. SentFits(c, NothingSent)
  BY DEF SentFits
<1>2. chosen # NoReview => TypedFor(c, rows[chosen].answers, chosen)
  BY DEF RowFits
<1> QED BY <1>1, <1>2 DEF PageFits, Showing

\* A row that is new fits.
LEMMA UnansweredFits ==
  ASSUME NEW c, NEW q
  PROVE  RowFits(c, Unanswered(c), q)
<1>1. TypedFor(c, NoAnswers(c), q)
  BY DEF TypedFor, NoAnswers, Answered, NoInput
<1> QED BY <1>1 DEF RowFits, Unanswered

\* So does one that was saved.
LEMMA SavedFits ==
  ASSUME NEW c, RowsFit(c, reviews, saves), saves \in Nat, card = c,
         NEW q \in Queue, NEW answers, TypedFor(c, answers, q),
         NEW finalize \in BOOLEAN, Scorable(c, answers, finalize)
  PROVE  RowsFit(c, Saved(q, answers, finalize), saves + 1)
<1>1. PICK row : row = Saved(q, answers, finalize)[q]
  OBVIOUS
<1>2. /\ row = [status |-> IF finalize THEN "submitted" ELSE "in_progress", answers |-> answers,
                score |-> WeightedScore(c, answers), revision |-> reviews[q].revision + 1]
      /\ DOMAIN Saved(q, answers, finalize) = Queue
      /\ \A p \in Queue : p # q => Saved(q, answers, finalize)[p] = reviews[p]
  BY <1>1 DEF Saved, RowsFit
<1>3. reviews[q].revision \in Nat /\ reviews[q].revision <= saves
  BY DEF RowsFit, RowFits
<1>4. row.revision \in Nat /\ row.revision > 0 /\ row.revision <= saves + 1
  BY <1>2, <1>3
<1>5. DraftFits(c, answers) /\ (row.status = "submitted" => FinalFits(c, answers))
  <2>1. CASE finalize = TRUE
    BY <1>2, <2>1 DEF DraftFits, FinalFits, Scorable
  <2>2. CASE finalize = FALSE
    BY <1>2, <2>2 DEF DraftFits
  <2> QED BY <2>1, <2>2
<1>6. RowFits(c, row, q)
  BY <1>2, <1>4, <1>5 DEF RowFits
<1>7. ASSUME NEW p \in Queue, p # q
      PROVE  RowFits(c, reviews[p], p) /\ reviews[p].revision <= saves + 1
  BY DEF RowsFit, RowFits
<1> QED BY <1>1, <1>2, <1>4, <1>6, <1>7 DEF RowsFit

\* So does one that was recused.
LEMMA RecusedFits ==
  ASSUME NEW c, RowsFit(c, reviews, saves), saves \in Nat, NEW q \in Queue
  PROVE  RowsFit(c, [reviews EXCEPT ![q].status = "recused"], saves + 1)
<1>1. PICK row : row = reviews[q]
  OBVIOUS
<1>2. RowFits(c, row, q) /\ row.revision <= saves
  BY <1>1 DEF RowsFit
<1>3. PICK next : next = [row EXCEPT !.status = "recused"]
  OBVIOUS
<1>4. RowFits(c, next, q) /\ next.revision <= saves + 1
  <2>1. /\ DOMAIN next = DOMAIN row /\ next.status = "recused" /\ next.answers = row.answers
        /\ next.score = row.score /\ next.revision = row.revision
    BY <1>2, <1>3 DEF RowFits
  <2> QED BY <1>2, <2>1 DEF RowFits
<1>5. ASSUME NEW p \in Queue
      PROVE  /\ [reviews EXCEPT ![q].status = "recused"][p] = IF p = q THEN next ELSE reviews[p]
             /\ RowFits(c, reviews[p], p) /\ reviews[p].revision <= saves + 1
  BY <1>1, <1>3 DEF RowsFit, RowFits
<1> QED BY <1>4, <1>5 DEF RowsFit

\* Whoever is at work is so on a round.
LEMMA AtWork ==
  ASSUME EvaluationInductive,
         desk.loaded \/ desk.selected # NoReview \/ desk.request.at # "none" \/ card # << >>
  PROVE  /\ card \in Cards /\ ValidScorecard(card) /\ saves \in Nat /\ saves \in 0..MaxSaves
         /\ RowsFit(card, reviews, saves) /\ PageFits(card, desk) /\ AdviceFits
<1>1. desk # NoPage \/ card # << >>
  BY DEF NoPage, NothingSent
<1> QED BY <1>1, EvaluationAssumption DEF EvaluationInductive

\* A step that changes the page alone keeps the invariant when the page fits.
LEMMA PageMoves ==
  ASSUME EvaluationInductive, UNCHANGED <<card, reviews, advice, saves>>,
         desk.loaded \/ desk.selected # NoReview \/ desk.request.at # "none" \/ card # << >>,
         PageFits(card, desk')
  PROVE  EvaluationInductive'
<1>1. /\ card \in Cards /\ ValidScorecard(card) /\ saves \in 0..MaxSaves
      /\ RowsFit(card, reviews, saves) /\ AdviceFits
  BY AtWork
<1>2. /\ card' = card /\ reviews' = reviews /\ saves' = saves /\ advice' = advice
  OBVIOUS
<1>3. AdviceFits'
  BY <1>1, <1>2 DEF AdviceFits
<1> QED BY <1>1, <1>2, <1>3 DEF EvaluationInductive

\* A page that is loaded shows rows that fit.
LEMMA LoadedFits ==
  ASSUME EvaluationInductive, desk.loaded \/ desk.selected # NoReview
  PROVE  /\ desk.loaded /\ PageFits(card, desk) /\ \A q \in Queue : RowFits(card, desk.queue[q], q)
         /\ SentFits(card, desk.request)
  BY AtWork DEF PageFits

\* The page opens.
LEMMA OpensKeeps == ASSUME EvaluationInductive, Opens PROVE EvaluationInductive'
<1>1. card # << >> /\ UNCHANGED <<card, reviews, advice, saves>>
      /\ desk' = Showing(reviews, "all", Proposed(reviews, Queue))
  BY DEF Opens
<1>2. \A q \in Queue : RowFits(card, reviews[q], q)
  BY <1>1, AtWork DEF RowsFit
<1>3. PICK chosen \in Queue \cup {NoReview} : chosen = Proposed(reviews, Queue)
  BY ProposedIsShown
<1>4. SentFits(card, NothingSent)
  BY DEF SentFits
<1>5. PageFits(card, Showing(reviews, "all", chosen))
  BY <1>2, <1>4, ShowingFits
<1> QED BY <1>1, <1>3, <1>5, PageMoves

\* An assignment is selected.
LEMMA SelectKeeps ==
  ASSUME EvaluationInductive, NEW q \in Queue, SelectAssignment(q)
  PROVE  EvaluationInductive'
<1>1. /\ desk.loaded /\ UNCHANGED <<card, reviews, advice, saves>>
      /\ desk' = [Showing(desk.queue, desk.filter, q) EXCEPT !.request = desk.request]
  BY DEF SelectAssignment
<1>2. PICK rows, filter, r : rows = desk.queue /\ filter = desk.filter /\ r = desk.request
  OBVIOUS
<1>3. (\A p \in Queue : RowFits(card, rows[p], p)) /\ SentFits(card, r)
  BY <1>1, <1>2, LoadedFits
<1>4. PageFits(card, [Showing(rows, filter, q) EXCEPT !.request = r])
  BY <1>3, ShowingFits
<1> QED BY <1>1, <1>2, <1>4, PageMoves

\* The filter changes, and perhaps the selection with it.
LEMMA FilterKeeps ==
  ASSUME EvaluationInductive, NEW filter, ChangeQueueFilter(filter)
  PROVE  EvaluationInductive'
<1>1. PICK rows, visible, r : /\ rows = desk.queue /\ visible = Visible(desk.queue, filter)
                            /\ r = desk.request
  OBVIOUS
<1>2. /\ desk.loaded /\ UNCHANGED <<card, reviews, advice, saves>>
      /\ desk' = IF desk.selected \in visible THEN [desk EXCEPT !.filter = filter]
                 ELSE [Showing(rows, filter, First(visible)) EXCEPT !.request = r]
  BY <1>1 DEF ChangeQueueFilter
<1>3. (\A p \in Queue : RowFits(card, rows[p], p)) /\ SentFits(card, r) /\ PageFits(card, desk)
  BY <1>1, <1>2, LoadedFits
<1>4. PICK chosen \in Queue \cup {NoReview} : chosen = First(visible)
  <2>1. visible \in SUBSET Queue
    BY <1>1 DEF Visible
  <2> QED BY <2>1, ProposedIsShown
<1>5. PageFits(card, [Showing(rows, filter, chosen) EXCEPT !.request = r])
  BY <1>3, ShowingFits
<1>6. PageFits(card, [desk EXCEPT !.filter = filter])
  BY <1>3 DEF PageFits
<1> QED BY <1>2, <1>4, <1>5, <1>6, PageMoves

\* Something is typed, for the assignment that is selected.
LEMMA TypesKeeps ==
  ASSUME EvaluationInductive, NEW k, NEW input, Types(k, input)
  PROVE  EvaluationInductive'
<1>1. /\ desk.selected # NoReview /\ UNCHANGED <<card, reviews, advice, saves>> /\ k \in DOMAIN card
      /\ desk' = [desk EXCEPT !.answers[k] = [input |-> input, typedFor |-> desk.selected]]
  BY DEF Types
<1>2. PageFits(card, desk) /\ TypedFor(card, desk.answers, desk.selected)
  BY <1>1, LoadedFits DEF PageFits
<1>3. PICK answers : answers = [desk.answers EXCEPT ![k] = [input |-> input, typedFor |-> desk.selected]]
  OBVIOUS
<1>4. TypedFor(card, answers, desk.selected)
  BY <1>2, <1>3 DEF TypedFor, Answered
<1>5. desk' = [desk EXCEPT !.answers = answers]
  BY <1>1, <1>2, <1>3 DEF PageFits
<1>6. PageFits(card, [desk EXCEPT !.answers = answers])
  BY <1>2, <1>4 DEF PageFits
<1> QED BY <1>1, <1>5, <1>6, PageMoves

\* A request is sent, with what is on the page.
LEMMA SendsKeeps ==
  ASSUME EvaluationInductive, NEW kind, Sends(kind)
  PROVE  EvaluationInductive'
<1>1. PICK r : r = [at |-> "sent", kind |-> kind, review |-> desk.selected,
                    answers |-> desk.answers, filter |-> desk.filter]
  OBVIOUS
<1>2. /\ desk.selected # NoReview /\ UNCHANGED <<card, reviews, advice, saves>>
      /\ desk' = [desk EXCEPT !.request = r]
  BY <1>1 DEF Sends
<1>3. PageFits(card, desk) /\ TypedFor(card, desk.answers, desk.selected) /\ desk.selected \in Queue
  BY <1>2, LoadedFits DEF PageFits
<1>4. SentFits(card, r)
  BY <1>1, <1>3 DEF SentFits
<1>5. PageFits(card, [desk EXCEPT !.request = r])
  BY <1>3, <1>4 DEF PageFits
<1> QED BY <1>2, <1>5, PageMoves

\* The page reloads, or fails to.
LEMMA ReloadKeeps == ASSUME EvaluationInductive, Reload PROVE EvaluationInductive'
<1>1. PICK visible, next :
        /\ visible = Visible(reviews, desk.request.filter)
        /\ next = IF desk.request.review \in visible THEN desk.request.review
                  ELSE Proposed(reviews, visible)
  OBVIOUS
<1>2. /\ desk.request.at = "reload" /\ UNCHANGED <<card, reviews, advice, saves>>
      /\ desk' = Showing(reviews, desk.filter, next) \/ desk' = [desk EXCEPT !.request = NothingSent]
  BY <1>1 DEF Reload
<1>3. PageFits(card, desk) /\ \A q \in Queue : RowFits(card, reviews[q], q)
  BY <1>2, AtWork DEF RowsFit
<1>4. next \in Queue \cup {NoReview}
  <2>1. visible \in SUBSET Queue
    BY <1>1 DEF Visible
  <2>2. Proposed(reviews, visible) \in Queue \cup {NoReview}
    BY <2>1, ProposedIsShown
  <2> QED BY <1>1, <2>1, <2>2
<1>5. SentFits(card, NothingSent)
  BY DEF SentFits
<1>6. PICK filter : filter = desk.filter
  OBVIOUS
<1>7. PageFits(card, Showing(reviews, filter, next))
  BY <1>3, <1>4, <1>5, ShowingFits
<1>8. PageFits(card, [desk EXCEPT !.request = NothingSent])
  BY <1>3, <1>5 DEF PageFits
<1> QED BY <1>2, <1>6, <1>7, <1>8, PageMoves

\* A request is answered.
LEMMA AnswersKeeps ==
  ASSUME EvaluationInductive, NEW lost, Answers(lost)
  PROVE  EvaluationInductive'
<1>1. PICK c, r, q : c = card /\ r = desk.request /\ q = r.review
  OBVIOUS
<1>2. PICK finalize \in BOOLEAN : finalize <=> r.kind = "finalize"
  OBVIOUS
<1>3. PICK done : done = (IF r.kind = "recuse" THEN Incomplete(reviews[q]) ELSE MaySave(q, r.answers, r.kind = "finalize"))
  OBVIOUS
<1>4. /\ r.at = "sent" /\ saves < MaxSaves /\ saves' = saves + 1
      /\ card' = c /\ advice' = advice
      /\ \/ reviews' = reviews
         \/ r.kind = "recuse" /\ reviews' = [reviews EXCEPT ![q].status = "recused"]
         \/ MaySave(q, r.answers, finalize) /\ reviews' = Saved(q, r.answers, finalize)
      /\ desk' = [desk EXCEPT !.request = [r EXCEPT !.at = "reload"]]
         \/ desk' = [desk EXCEPT !.request = NothingSent]
  <2>1. finalize = (r.kind = "finalize")
    BY <1>2
  <2> QED BY <1>1, <1>2, <2>1 DEF Answers
<1>5. /\ c \in Cards /\ ValidScorecard(c) /\ saves \in Nat /\ saves \in 0..MaxSaves
      /\ RowsFit(c, reviews, saves) /\ PageFits(c, desk) /\ AdviceFits
  BY <1>1, <1>4, AtWork
<1>6. SentFits(c, r) /\ q \in Queue /\ TypedFor(c, r.answers, q)
  BY <1>1, <1>4, <1>5 DEF PageFits, SentFits, NothingSent
<1>7. RowsFit(c, reviews', saves')
  <2>1. CASE reviews' = reviews
    BY <1>4, <1>5, <2>1 DEF RowsFit, RowFits
  <2>2. CASE reviews' = [reviews EXCEPT ![q].status = "recused"]
    BY <1>4, <1>5, <1>6, <2>2, RecusedFits
  <2>3. CASE MaySave(q, r.answers, finalize) /\ reviews' = Saved(q, r.answers, finalize)
    <3>1. PICK answers : answers = r.answers
      OBVIOUS
    <3>2. Scorable(c, answers, finalize)
      BY <1>1, <2>3, <3>1 DEF MaySave
    <3>3. RowsFit(c, Saved(q, answers, finalize), saves + 1)
      BY <1>1, <1>5, <1>6, <3>1, <3>2, SavedFits
    <3> QED BY <1>4, <2>3, <3>1, <3>3
  <2> QED BY <1>4, <2>1, <2>2, <2>3
<1>8. PageFits(c, desk')
  <2>1. SentFits(c, NothingSent)
    BY DEF SentFits
  <2>2. SentFits(c, [r EXCEPT !.at = "reload"])
    BY <1>4, <1>6 DEF SentFits, NothingSent
  <2> QED BY <1>4, <1>5, <2>1, <2>2 DEF PageFits
<1>9. saves' \in 0..MaxSaves /\ AdviceFits'
  BY <1>4, <1>5, EvaluationAssumption DEF AdviceFits
<1> QED BY <1>4, <1>5, <1>7, <1>8, <1>9 DEF EvaluationInductive

\* The reviewer finalizes in another tab.
LEMMA ElsewhereKeeps ==
  ASSUME EvaluationInductive, NEW q \in Queue, NEW k, NEW input, FinalizesElsewhere(q, k, input)
  PROVE  EvaluationInductive'
<1>1. PICK answers : answers = [reviews[q].answers EXCEPT ![k] = [input |-> input, typedFor |-> q]]
  OBVIOUS
<1>2. /\ card # << >> /\ k \in DOMAIN card /\ saves < MaxSaves /\ saves' = saves + 1
      /\ MaySave(q, answers, TRUE) /\ reviews' = Saved(q, answers, TRUE)
      /\ card' = card /\ desk' = desk /\ advice' = advice
  BY <1>1 DEF FinalizesElsewhere
<1>3. /\ card \in Cards /\ ValidScorecard(card) /\ saves \in Nat /\ saves \in 0..MaxSaves
      /\ RowsFit(card, reviews, saves) /\ PageFits(card, desk) /\ AdviceFits
  BY <1>2, AtWork
<1>4. PICK c : c = card
  OBVIOUS
<1>5. TypedFor(c, answers, q)
  <2>1. TypedFor(c, reviews[q].answers, q)
    BY <1>3, <1>4 DEF RowsFit, RowFits
  <2> QED BY <1>1, <2>1 DEF TypedFor, Answered
<1>6. RowsFit(c, Saved(q, answers, TRUE), saves + 1)
  <2>1. Scorable(c, answers, TRUE) /\ TRUE \in BOOLEAN
    BY <1>2, <1>4 DEF MaySave
  <2> QED BY <1>3, <1>4, <1>5, <2>1, SavedFits
<1>7. saves' \in 0..MaxSaves /\ AdviceFits'
  BY <1>2, <1>3, EvaluationAssumption DEF AdviceFits
<1> QED BY <1>2, <1>3, <1>4, <1>6, <1>7 DEF EvaluationInductive

\* A round is created with a scorecard that is let through.
LEMMA PlanKeepsReviews ==
  ASSUME EvaluationInductive, NEW c \in Cards, CreatesPlan(c)
  PROVE  EvaluationInductive'
<1>1. /\ card = << >> /\ ValidScorecard(c) /\ card' = c
      /\ reviews' = [q \in Queue |-> Unanswered(c)]
      /\ desk' = desk /\ advice' = advice /\ saves' = saves
  BY DEF CreatesPlan
<1>2. desk = NoPage /\ saves \in 0..MaxSaves /\ saves \in Nat /\ AdviceFits
  BY <1>1, EvaluationAssumption DEF EvaluationInductive, ValidScorecard
<1>3. RowsFit(c, reviews', saves')
  <2>1. \A q \in Queue : RowFits(c, reviews'[q], q)
    BY <1>1, UnansweredFits
  <2>2. \A q \in Queue : reviews'[q].revision = 0
    BY <1>1 DEF Unanswered
  <2> QED BY <1>1, <1>2, <2>1, <2>2 DEF RowsFit
<1>4. PageFits(c, desk')
  BY <1>1, <1>2 DEF PageFits, NoPage, SentFits
<1>5. AdviceFits'
  BY <1>1, <1>2 DEF AdviceFits
<1> QED BY <1>1, <1>2, <1>3, <1>4, <1>5 DEF EvaluationInductive

\* Advice touches nothing else.
LEMMA AdviceMoves ==
  ASSUME EvaluationInductive, UNCHANGED <<card, reviews, desk, saves>>, AdviceFits'
  PROVE  EvaluationInductive'
<1>1. card' = card /\ reviews' = reviews /\ desk' = desk /\ saves' = saves
  OBVIOUS
<1> QED BY <1>1 DEF EvaluationInductive

\* An assessment is a score or a failure.
LEMMA RequestKeeps ==
  ASSUME EvaluationInductive, NEW score, RequestAiAssessment(score)
  PROVE  EvaluationInductive'
<1>1. PICK a : a = [status |-> IF score \in Hundredths THEN "completed" ELSE "failed",
                    score |-> IF score \in Hundredths THEN score ELSE NoScore, override |-> NoScore]
  OBVIOUS
<1>2. advice' = Append(advice, a) /\ UNCHANGED <<card, reviews, desk, saves>>
  BY <1>1 DEF RequestAiAssessment
<1>3. NoScore \notin Hundredths /\ NoScore \in Int
  BY HundredthsAre DEF NoScore
<1>4. PICK Assessments : Assessments = {b \in [status : {"completed", "failed"}, score : Hundredths \cup {NoScore},
                                   override : Int] : b.status = "failed" <=> b.score = NoScore}
  OBVIOUS
<1>5. a \in Assessments
  BY <1>1, <1>3, <1>4
<1>6. advice \in Seq(Assessments)
  BY <1>4 DEF EvaluationInductive, AdviceFits
<1>7. advice' \in Seq(Assessments)
  BY <1>2, <1>5, <1>6
<1> QED BY <1>2, <1>4, <1>7, AdviceMoves DEF AdviceFits

\* An override leaves the assessment as it is.
LEMMA OverrideKeeps ==
  ASSUME EvaluationInductive, NEW a, NEW score \in Int, OverrideAiAssessment(a, score)
  PROVE  EvaluationInductive'
<1>1. a \in DOMAIN advice /\ advice' = [advice EXCEPT ![a].override = score]
      /\ UNCHANGED <<card, reviews, desk, saves>>
  BY DEF OverrideAiAssessment
<1>2. PICK Assessments : Assessments = {b \in [status : {"completed", "failed"}, score : Hundredths \cup {NoScore},
                                   override : Int] : b.status = "failed" <=> b.score = NoScore}
  OBVIOUS
<1>3. advice \in Seq(Assessments)
  BY <1>2 DEF EvaluationInductive, AdviceFits
<1>4. PICK next : next = [advice[a] EXCEPT !.override = score]
  OBVIOUS
<1>5. next \in Assessments
  <2>1. advice[a] \in Assessments
    BY <1>1, <1>3
  <2> QED BY <1>2, <1>4, <2>1
<1>6. advice' = [advice EXCEPT ![a] = next]
  BY <1>1, <1>4
<1>7. advice' \in Seq(Assessments)
  BY <1>1, <1>3, <1>5, <1>6
<1> QED BY <1>1, <1>2, <1>7, AdviceMoves DEF AdviceFits

\* Every step keeps the invariant.
LEMMA EvaluationSteps ==
  EvaluationInductive /\ [EvaluationNext]_evaluationVars => EvaluationInductive'
<1> SUFFICES ASSUME EvaluationInductive, [EvaluationNext]_evaluationVars
             PROVE  EvaluationInductive'
  OBVIOUS
<1>1. CASE PlanNext
  BY <1>1, PlanKeepsReviews DEF PlanNext
<1>2. CASE ReviewerNext
  <2>1. CASE Opens
    BY <2>1, OpensKeeps
  <2>2. CASE Reload
    BY <2>2, ReloadKeeps
  <2>3. CASE \E q \in Queue : SelectAssignment(q)
    BY <2>3, SelectKeeps
  <2>4. CASE \E filter \in {"all", "incomplete"} : ChangeQueueFilter(filter)
    BY <2>4, FilterKeeps
  <2>5. CASE \E k \in Criteria, input \in Inputs : Types(k, input)
    BY <2>5, TypesKeeps
  <2>6. CASE \E k \in Criteria, input \in Inputs : \E q \in Queue : FinalizesElsewhere(q, k, input)
    BY <2>6, ElsewhereKeeps
  <2>7. CASE \E kind \in {"draft", "finalize", "recuse"} : Sends(kind)
    BY <2>7, SendsKeeps
  <2>8. CASE \E lost \in BOOLEAN : Answers(lost)
    BY <2>8, AnswersKeeps
  <2> QED BY <1>2, <2>1, <2>2, <2>3, <2>4, <2>5, <2>6, <2>7, <2>8 DEF ReviewerNext
<1>3. CASE AdviceNext
  <2>1. CASE \E score \in {NoScore, 5000} : RequestAiAssessment(score)
    BY <2>1, RequestKeeps
  <2>2. CASE \E a \in 1..MaxAdvice : OverrideAiAssessment(a, 2500)
    BY <2>2, OverrideKeeps
  <2> QED BY <1>3, <2>1, <2>2 DEF AdviceNext
<1>4. CASE UNCHANGED evaluationVars
  <2>1. card' = card /\ reviews' = reviews /\ desk' = desk /\ advice' = advice /\ saves' = saves
    BY <1>4 DEF evaluationVars
  <2> QED BY <2>1 DEF EvaluationInductive, AdviceFits
<1> QED BY <1>1, <1>2, <1>3, <1>4 DEF EvaluationNext

\* Whatever the reviewer does on the page and in another tab while requests are
\* under way: rows, form and requests hold what was typed for them, and each row
\* is scored by the answers it holds.
THEOREM EvaluationInvariance == EvaluationSpec => []EvaluationInductive
<1>1. EvaluationInit => EvaluationInductive
  <2> SUFFICES ASSUME EvaluationInit PROVE EvaluationInductive
    OBVIOUS
  <2>1. AdviceFits
    BY DEF EvaluationInit, AdviceFits
  <2> QED BY <2>1, EvaluationAssumption DEF EvaluationInit, EvaluationInductive
<1> QED BY <1>1, EvaluationSteps, PTL DEF EvaluationSpec

(* The results.                                                            *)

\* Rows of a round, or none.
LEMMA RowsAreThere ==
  ASSUME EvaluationInductive
  PROVE  /\ DOMAIN reviews \in SUBSET Queue /\ IsFiniteSet(DOMAIN reviews)
         /\ DOMAIN reviews # {} => card \in Cards /\ ValidScorecard(card)
         /\ \A q \in DOMAIN reviews :
              RowFits(card, reviews[q], q) /\ reviews[q].revision <= saves
<1>1. DOMAIN reviews \in SUBSET Queue
  BY DEF EvaluationInductive, RowsFit
<1>2. IsFiniteSet(DOMAIN reviews)
  BY <1>1, EvaluationAssumption, FS_Subset
<1>3. /\ DOMAIN reviews # {} => card \in Cards /\ ValidScorecard(card)
      /\ \A q \in DOMAIN reviews :
           RowFits(card, reviews[q], q) /\ reviews[q].revision <= saves
  BY DEF EvaluationInductive, RowsFit
<1> QED BY <1>1, <1>2, <1>3

\* What a row is scored with.
LEMMA RowScores ==
  ASSUME EvaluationInductive, NEW q \in DOMAIN reviews
  PROVE  /\ reviews[q].score \in Hundredths \cup {NoScore}
         /\ reviews[q].revision > 0 =>
              /\ card \in Cards /\ ValidScorecard(card) /\ Scorable(card, reviews[q].answers, FALSE)
              /\ reviews[q].score = WeightedScore(card, reviews[q].answers)
         /\ reviews[q].revision \in Nat
         /\ reviews[q].status = "submitted" =>
              reviews[q].revision > 0 /\ Scorable(card, reviews[q].answers, TRUE)
         /\ reviews[q].score # NoScore => reviews[q].revision > 0
<1>1. RowFits(card, reviews[q], q) /\ card \in Cards /\ ValidScorecard(card)
  BY RowsAreThere
<1>2. PICK c, row, answers : c = card /\ row = reviews[q] /\ answers = row.answers
  OBVIOUS
<1>3. row.revision > 0 => DraftFits(c, answers) /\ row.score = WeightedScore(c, answers)
  BY <1>1, <1>2 DEF RowFits
<1>4. DraftFits(c, answers) => WeightedScore(c, answers) \in Hundredths \cup {NoScore}
  BY <1>1, <1>2, ScoreIsMean DEF DraftFits
<1>5. row.score \in Hundredths \cup {NoScore}
  <2>1. row.revision \in Nat /\ (row.revision = 0 => row.score = NoScore)
    BY <1>1, <1>2 DEF RowFits
  <2> QED BY <1>3, <1>4, <2>1
<1>6. row.status = "submitted" => row.revision > 0 /\ FinalFits(c, answers)
  BY <1>1, <1>2 DEF RowFits
<1>7. row.revision \in Nat /\ (row.score # NoScore => row.revision > 0)
  BY <1>1, <1>2 DEF RowFits
<1> QED BY <1>1, <1>2, <1>3, <1>5, <1>6, <1>7 DEF DraftFits, FinalFits

\* Stored scores are means.
LEMMA ScoresFollow == EvaluationInductive => ScoresAreMeans
<1> SUFFICES ASSUME EvaluationInductive, NEW q \in DOMAIN reviews, NEW c, NEW answers, NEW score,
                    c = card, answers = reviews[q].answers, score = reviews[q].score
             PROVE  /\ reviews[q].revision > 0 => (score = NoScore <=> Weighing(c, answers) = {})
                    /\ score # NoScore => \E j, k \in Weighing(c, answers) :
                         Percent(c, answers, j) <= score /\ score <= Percent(c, answers, k)
                    /\ reviews[q].status = "submitted" => Scorable(c, answers, TRUE)
  BY Zenon DEF ScoresAreMeans
<1>1. reviews[q].status = "submitted" => Scorable(c, answers, TRUE)
  BY RowScores
<1>2. score # NoScore => reviews[q].revision > 0
  BY RowScores
<1>3. ASSUME reviews[q].revision > 0
      PROVE  /\ score = NoScore <=> Weighing(c, answers) = {}
             /\ score # NoScore => \E j, k \in Weighing(c, answers) :
                  Percent(c, answers, j) <= score /\ score <= Percent(c, answers, k)
  <2>1. /\ c \in Cards /\ ValidScorecard(c) /\ Scorable(c, answers, FALSE)
        /\ score = WeightedScore(c, answers)
    BY <1>3, RowScores
  <2>2. score = NoScore <=> Weighing(c, answers) = {}
    BY <2>1, ScoreIsMean
  <2>3. ASSUME score # NoScore
        PROVE  \E j, k \in Weighing(c, answers) :
                 Percent(c, answers, j) <= score /\ score <= Percent(c, answers, k)
    <3>1. /\ \E k \in Weighing(c, answers) : Percent(c, answers, k) <= score
          /\ \E k \in Weighing(c, answers) : score <= Percent(c, answers, k)
      BY <2>1, <2>3, ScoreIsMean
    <3> QED BY <3>1
  <2> QED BY <2>2, <2>3
<1> QED BY <1>1, <1>2, <1>3, Zenon

\* The aggregate lies between the scores that count.
LEMMA AggregateFollows ==
  ASSUME EvaluationInductive, Scores # {}
  PROVE  \E p, q \in Scores :
           reviews[p].score <= AggregateScore /\ AggregateScore <= reviews[q].score
<1>1. PICK S : S = Scores
  OBVIOUS
<1>2. S \in SUBSET DOMAIN reviews /\ IsFiniteSet(S)
  <2>1. S \in SUBSET DOMAIN reviews
    BY <1>1 DEF Scores, Submitted
  <2> QED BY <2>1, RowsAreThere, FS_Subset
<1>3. PICK v : v = [q \in S |-> reviews[q].score]
  OBVIOUS
<1>4. PICK w : w = [q \in S |-> 1]
  OBVIOUS
<1>5. PICK top \in Nat : top = FullScore
  BY DEF FullScore
<1>6. \A q \in S : v[q] \in Nat /\ v[q] <= top /\ w[q] \in Nat /\ w[q] = 1
  <2> SUFFICES ASSUME NEW q \in S PROVE v[q] \in Nat /\ v[q] <= top
    BY <1>4
  <2>1. reviews[q].score \in Hundredths
    BY <1>1, <1>2, RowScores DEF Scores
  <2>2. v[q] \in Int /\ 0 <= v[q] /\ v[q] <= top
    BY <1>3, <1>5, <2>1, HundredthsAre
  <2> QED BY <2>2
<1>7. \A q \in S : v[q] = v[q] * w[q]
  BY <1>6
<1>8. PICK heavy : heavy = {q \in S : w[q] > 0}
  OBVIOUS
<1>9. heavy = S /\ heavy # {}
  BY <1>1, <1>6, <1>8
<1>10. PICK n \in Nat \ {0}, total \in Nat :
         n = SumFunctionOnSet(w, S) /\ total = SumFunctionOnSet(v, S)
         /\ (\E k \in S : v[k] * n <= total) /\ (\E k \in S : total <= v[k] * n)
  <2>1. /\ SumFunctionOnSet(w, S) \in Nat \ {0} /\ SumFunctionOnSet(v, S) \in Nat
        /\ \E k \in heavy : v[k] * SumFunctionOnSet(w, S) <= SumFunctionOnSet(v, S)
        /\ \E k \in heavy : SumFunctionOnSet(v, S) <= v[k] * SumFunctionOnSet(w, S)
    BY <1>2, <1>6, <1>7, <1>8, <1>9, MeanIsBetween
  <2> QED BY <1>9, <2>1
<1>11. n = Cardinality(S)
  <2>1. \A q \in S : w[q] = 1
    BY <1>6
  <2>2. SumFunctionOnSet(w, S) = Cardinality(S)
    BY <1>2, <2>1, SumIsCount
  <2> QED BY <1>10, <2>2
<1>12. AggregateScore = Round(total, n)
  BY <1>1, <1>3, <1>10, <1>11 DEF AggregateScore
<1>13. PICK p \in S, q \in S : v[p] * n <= total /\ total <= v[q] * n
  BY <1>10
<1>14. PICK a \in Nat, b \in Nat : a = v[p] /\ b = v[q]
  BY <1>6
<1>15. Round(a, 1) = a /\ Round(b, 1) = b
  BY DEF Round
<1>16. Round(a, 1) <= Round(total, n)
  <2>1. a * n <= total * 1
    BY <1>13, <1>14
  <2> QED BY <2>1, RoundAbove
<1>17. Round(total, n) <= Round(b, 1)
  <2>1. total * 1 <= b * n
    BY <1>13, <1>14
  <2> QED BY <2>1, RoundAbove
<1>18. a <= AggregateScore /\ AggregateScore <= b
  BY <1>12, <1>15, <1>16, <1>17
<1>19. a = reviews[p].score /\ b = reviews[q].score
  BY <1>3, <1>14
<1> QED BY <1>1, <1>18, <1>19

\* A share of a whole, in percent.
LEMMA ShareIs ==
  ASSUME NEW s \in Nat, NEW l \in Nat, NEW n \in Nat \ {0}, n = s + l
  PROVE  /\ Round(100 * s, n) \in Int /\ 0 <= Round(100 * s, n) /\ Round(100 * s, n) <= 100
         /\ l = 0 => Round(100 * s, n) = 100
         /\ Round(100 * s, n) = 100 => s # 0 /\ 200 * l <= n
<1>1. Round(0, 1) = 0 /\ Round(100, 1) = 100
  BY DEF Round
<1>2. 100 * s \in Int /\ 0 * n <= (100 * s) * 1 /\ (100 * s) * 1 <= 100 * n
  OBVIOUS
<1>3. Round(100 * s, n) \in Int /\ Round(0, 1) <= Round(100 * s, n)
  BY <1>2, RoundAbove
<1>4. Round(100 * s, n) <= Round(100, 1)
  BY <1>2, RoundAbove
<1>5. PICK share \in Int : share = Round(100 * s, n)
  BY <1>3
<1>6. 0 <= share /\ share <= 100
  BY <1>1, <1>3, <1>4, <1>5
<1>7. ASSUME l = 0 PROVE share = 100
  <2>1. 100 * n <= (100 * s) * 1
    BY <1>7
  <2>2. Round(100, 1) <= Round(100 * s, n)
    BY <1>2, <2>1, RoundAbove
  <2> QED BY <1>1, <1>5, <1>6, <2>2
<1>8. share * (2 * n) <= 2 * (100 * s) + n
  <2>1. 2 * n \in Nat \ {0} /\ 2 * (100 * s) + n \in Int
    OBVIOUS
  <2> QED BY <1>5, <2>1, DivIs DEF Round
<1>9. ASSUME share = 100 PROVE s # 0 /\ 200 * l <= n
  BY <1>8, <1>9
<1> QED BY <1>5, <1>6, <1>7, <1>9

\* How complete a round is shown to be.
LEMMA PercentFollows ==
  ASSUME EvaluationInductive
  PROVE  /\ PercentComplete \in 0..100
         /\ LET left == {q \in DOMAIN reviews : Incomplete(reviews[q])} IN
              /\ Submitted # {} /\ left = {} => PercentComplete = 100
              /\ PercentComplete = 100 =>
                   Submitted # {} /\ 200 * Cardinality(left) <= Cardinality(Submitted \cup left)
<1>1. PICK done, left, all :
        /\ done = Submitted /\ left = {q \in DOMAIN reviews : Incomplete(reviews[q])}
        /\ all = {q \in DOMAIN reviews : reviews[q].status # "recused"}
  OBVIOUS
<1>2. all = done \cup left /\ done \cap left = {}
  <2>1. \A q \in DOMAIN reviews :
          reviews[q].status \in {"assigned", "in_progress", "submitted", "recused"}
    BY RowsAreThere DEF RowFits
  <2> QED BY <1>1, <2>1 DEF Submitted, Incomplete
<1>3. IsFiniteSet(done) /\ IsFiniteSet(left)
  <2>1. done \in SUBSET DOMAIN reviews /\ left \in SUBSET DOMAIN reviews
    BY <1>1 DEF Submitted
  <2> QED BY <2>1, RowsAreThere, FS_Subset
<1>4. PICK s \in Nat, l \in Nat, n \in Nat :
        s = Cardinality(done) /\ l = Cardinality(left) /\ n = Cardinality(all) /\ n = s + l
  <2>1. IsFiniteSet(all) /\ Cardinality(done \cap left) = 0
        /\ Cardinality(all) = Cardinality(done) + Cardinality(left) - Cardinality(done \cap left)
    BY <1>2, <1>3, FS_Union, FS_EmptySet
  <2>2. Cardinality(done) \in Nat /\ Cardinality(left) \in Nat /\ Cardinality(all) \in Nat
    BY <1>3, <2>1, FS_CardinalityType
  <2>3. PICK a \in Nat, b \in Nat, c \in Nat :
          a = Cardinality(done) /\ b = Cardinality(left) /\ c = Cardinality(all)
    BY <2>2
  <2>4. c = a + b
    BY <2>1, <2>3
  <2> QED BY <2>3, <2>4
<1>5. /\ done = {} <=> s = 0
      /\ left = {} <=> l = 0
      /\ all = {} <=> n = 0
  <2>1. IsFiniteSet(all)
    BY <1>2, <1>3, FS_Union
  <2> QED BY <1>3, <1>4, <2>1, FS_EmptySet
<1>6. PercentComplete = IF all = {} THEN 0 ELSE Round(100 * s, n)
  BY <1>1, <1>4 DEF PercentComplete
<1>7. PICK share \in Int : share = PercentComplete /\ 0 <= share /\ share <= 100
                           /\ (done # {} /\ left = {} => share = 100)
                           /\ (share = 100 => done # {} /\ 200 * l <= n)
  <2>1. CASE n = 0
    <3>1. PercentComplete = 0 /\ done = {}
      BY <1>2, <1>5, <1>6, <2>1
    <3> QED BY <3>1
  <2>2. CASE n # 0
    BY <1>4, <1>5, <1>6, <2>2, ShareIs
  <2> QED BY <2>1, <2>2
<1>8. share \in 0..100
  BY <1>7
<1> QED BY <1>1, <1>2, <1>4, <1>7, <1>8

\* The invariant says what is asked.
LEMMA EvaluationFollows == EvaluationInductive => EvaluationSafe
<1> SUFFICES ASSUME EvaluationInductive PROVE EvaluationSafe
  OBVIOUS
<1>1. AnswersStayHome
  <2>1. \A q \in DOMAIN reviews : TypedFor(card, reviews[q].answers, q)
    BY RowsAreThere DEF RowFits
  <2>2. desk.selected # NoReview => TypedFor(card, desk.answers, desk.selected)
    BY LoadedFits DEF PageFits
  <2> QED BY <2>1, <2>2 DEF AnswersStayHome, TypedFor
<1>2. EvaluationTypeOK
  <2>1. card \in Cards \cup {<< >>} /\ saves \in 0..MaxSaves /\ saves \in Nat
    BY EvaluationAssumption DEF EvaluationInductive
  <2>2. ASSUME NEW q \in DOMAIN reviews
        PROVE  /\ reviews[q].status \in {"assigned", "in_progress", "submitted", "recused"}
               /\ reviews[q].revision \in 0..MaxSaves /\ reviews[q].score \in Hundredths \cup {NoScore}
    <3>1. /\ reviews[q].status \in {"assigned", "in_progress", "submitted", "recused"}
          /\ reviews[q].revision \in Nat /\ reviews[q].revision <= saves
      BY RowsAreThere DEF RowFits
    <3>2. reviews[q].revision \in 0..MaxSaves
      BY <2>1, <3>1, EvaluationAssumption
    <3>3. reviews[q].score \in Hundredths \cup {NoScore}
      BY RowScores
    <3> QED BY <3>1, <3>2, <3>3
  <2>3. desk.selected \in Queue \cup {NoReview}
    BY DEF EvaluationInductive, PageFits, NoPage
  <2>4. \A a \in DOMAIN advice : advice[a].status = "failed" <=> advice[a].score = NoScore
    <3>1. PICK Assessments : Assessments = {b \in [status : {"completed", "failed"}, score : Hundredths \cup {NoScore},
                                       override : Int] : b.status = "failed" <=> b.score = NoScore}
      OBVIOUS
    <3>2. advice \in Seq(Assessments)
      BY <3>1 DEF EvaluationInductive, AdviceFits
    <3> QED BY <3>1, <3>2
  <2> QED BY <2>1, <2>2, <2>3, <2>4 DEF EvaluationTypeOK
<1>3. ResultsAreFair
  BY AggregateFollows, PercentFollows DEF ResultsAreFair
<1> QED BY <1>1, <1>2, <1>3, ScoresFollow DEF EvaluationSafe

\* The reviews and the reviewer's page likewise.
LEMMA ServicesMoveReviews == ServicesSpec => ReviewsSpec /\ EvaluationSpec
<1>1. ServicesInit => ReviewsInit /\ EvaluationInit
  BY DEF ServicesInit
<1>2. [ServicesNext]_servicesVars => [ReviewsNext]_reviewVars
  BY DEF ServicesNext, servicesVars
<1>3. [ServicesNext]_servicesVars => [EvaluationNext]_evaluationVars
  BY DEF ServicesNext, servicesVars, EvaluationNext
<1> QED BY <1>1, <1>2, <1>3, PTL DEF ServicesSpec, ReviewsSpec, EvaluationSpec

\* ReviewsSafe, DistributionSound and EvaluationSafe in every state of the
\* services: statuses, responses and caps agree, a distribution keeps to its rules
\* from any state, answers are saved under what they were typed for, and scores and
\* results are means.
THEOREM ReviewsAreFair == ServicesSpec => []ReviewsHold
<1>1. ReviewsSafe /\ EvaluationSafe => ReviewsHold
  BY DistributionIsSound DEF ReviewsHold
<1> QED BY <1>1, CapsAreRespected, ServicesMoveReviews, EvaluationInvariance, EvaluationFollows, PTL
=============================================================================

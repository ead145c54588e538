------------------------------ MODULE CfpForm ------------------------------
(***************************************************************************)
(* The call-for-papers form of one event: the row of cfp_forms with its    *)
(* form_fields, its published versions, and the builder page of each       *)
(* organizer (forms-submissions/service.ts, CfpBuilderPage.tsx).           *)
(*                                                                         *)
(* The columns and the fields of a form are saved together but read apart, *)
(* so a content is what one save wrote, and a definition names the save    *)
(* its columns and the save its fields come from.  The form has one name:  *)
(* two first saves under different names would create two forms.           *)
(***************************************************************************)
EXTENDS Naturals, Sequences

CONSTANTS Organizers, Contents, MaxFormRevision, MaxFormVersion

ASSUME CfpFormAssumption ==
  "blank" \notin Contents /\ MaxFormRevision \in Nat /\ MaxFormVersion \in Nat

VARIABLES
  form,      \* the cfp_forms row, with the content of its columns and fields
  versions,  \* cfp_form_versions, in the order of their numbers
  page,      \* what each organizer's builder shows: a content at a revision
  call,      \* the publish or close request of each organizer
  rewound    \* history: a publish or a close took the revision back

formVars == <<form, versions, page, call, rewound>>

Resting == [at |-> "rest"]
Blank == [content |-> "blank", revision |-> 0]

CfpFormInit ==
  /\ form = [status |-> "none", revision |-> 0, columns |-> "blank", fields |-> "blank"]
  /\ versions = <<>>
  /\ page = [o \in Organizers |-> Blank]
  /\ call = [o \in Organizers |-> Resting]
  /\ rewound = FALSE

-----------------------------------------------------------------------------
(* getFormWorkspace, createForm, updateForm                                *)

Shown == [content |-> form.columns, revision |-> form.revision]

LoadPage(o) ==
  /\ call[o] = Resting /\ page[o] # Shown
  /\ page' = [page EXCEPT ![o] = Shown]
  /\ UNCHANGED <<form, versions, call, rewound>>

\* Both columns and fields are replaced in one transaction; the page then
\* shows what was saved.
Writes(o, c, status) ==
  /\ form' = [status |-> status, revision |-> page[o].revision + 1,
              columns |-> c, fields |-> c]
  /\ page' = [page EXCEPT ![o] = Shown']
  /\ UNCHANGED <<versions, rewound>>

\* Bug: the update is keyed by the form alone.
BugForgetsRevision(o) == form.revision = 0 \/ page[o].revision > 0

\* A page that showed no form creates one, and the unique name admits one
\* such page; any other page updates the revision it shows, or conflicts.
Current(o) == page[o].revision = form.revision

\* "Save draft" stops here, "Publish changes" goes on to publish.
Persist(o, c, publish) ==
  /\ call[o] = Resting /\ Current(o) /\ form.revision < MaxFormRevision
  /\ Writes(o, c, IF form.status = "none" THEN "draft" ELSE form.status)
  /\ call' = [call EXCEPT ![o] = IF publish THEN [at |-> "publish"] ELSE Resting]

-----------------------------------------------------------------------------
(* publishForm: three reads and a transaction.  closeForm: one read and an *)
(* update.                                                                 *)

ReadsColumns(o) ==
  /\ call[o].at = "publish"
  /\ call' = [call EXCEPT ![o] =
       [at |-> "fields", columns |-> form.columns, revision |-> form.revision]]
  /\ UNCHANGED <<form, versions, page, rewound>>

ReadsFields(o) ==
  /\ call[o].at = "fields"
  /\ call' = [call EXCEPT ![o] =
       [at |-> "number", columns |-> @.columns, revision |-> @.revision,
        fields |-> form.fields]]
  /\ UNCHANGED <<form, versions, page, rewound>>

ReadsNumber(o) ==
  /\ call[o].at = "number" /\ Len(versions) < MaxFormVersion
  /\ call' = [call EXCEPT ![o] =
       [at |-> "commit", columns |-> @.columns, revision |-> @.revision,
        fields |-> @.fields, number |-> Len(versions) + 1]]
  /\ UNCHANGED <<form, versions, page, rewound>>

\* The row takes the revision after the one that was read, whatever it is now.
WritesSuccessor(o, status) ==
  /\ form' = [form EXCEPT !.status = status, !.revision = call[o].revision + 1]
  /\ page' = [page EXCEPT ![o] = Shown']
  /\ rewound' = (rewound \/ form'.revision < form.revision)

\* Bug: the definition of a number that is taken is replaced.
BugReplacesVersion(o) ==
  /\ call[o].at = "commit"
  /\ versions' = Append(SubSeq(versions, 1, call[o].number - 1),
                        [columns |-> call[o].columns, fields |-> call[o].fields])
  /\ WritesSuccessor(o, "published")
  /\ call' = [call EXCEPT ![o] = Resting]

\* The number is unique.
PublishCommits(o) ==
  /\ call[o].at = "commit" /\ call[o].number = Len(versions) + 1
  /\ versions' = Append(versions, [columns |-> call[o].columns, fields |-> call[o].fields])
  /\ WritesSuccessor(o, "published")
  /\ call' = [call EXCEPT ![o] = Resting]

\* The transaction fails on the unique number, and the page keeps its form.
PublishFails(o) ==
  /\ call[o].at = "commit" /\ call[o].number # Len(versions) + 1
  /\ call' = [call EXCEPT ![o] = Resting]
  /\ UNCHANGED <<form, versions, page, rewound>>

CloseReads(o) ==
  /\ call[o] = Resting /\ page[o].revision > 0 /\ form.revision < MaxFormRevision
  /\ call' = [call EXCEPT ![o] = [at |-> "close", revision |-> form.revision]]
  /\ UNCHANGED <<form, versions, page, rewound>>

CloseWrites(o) ==
  /\ call[o].at = "close"
  /\ WritesSuccessor(o, "closed")
  /\ call' = [call EXCEPT ![o] = Resting]
  /\ UNCHANGED versions

CfpFormNext ==
  \E o \in Organizers :
    \/ LoadPage(o)
    \/ \E c \in Contents, publish \in BOOLEAN : Persist(o, c, publish)
    \/ ReadsColumns(o) \/ ReadsFields(o) \/ ReadsNumber(o)
    \/ PublishCommits(o) \/ PublishFails(o)
    \/ CloseReads(o) \/ CloseWrites(o)

CfpFormSpec == CfpFormInit /\ [][CfpFormNext]_formVars

-----------------------------------------------------------------------------
(* Properties.                                                             *)

Content == Contents \cup {"blank"}
Definition == [columns : Content, fields : Content]

CfpFormTypeOK ==
  /\ form \in [status : {"none", "draft", "published", "closed"}, revision : Nat,
               columns : Content, fields : Content]
  /\ versions \in Seq(Definition) /\ Len(versions) <= MaxFormVersion
  /\ page \in [Organizers -> [content : Content, revision : Nat]]
  /\ \A o \in Organizers : call[o].at \in {"rest", "publish", "fields", "number", "commit", "close"}

\* A version that was published is never changed, replaced or renumbered,
\* although its number is read before the transaction that takes it: proposals
\* refer to it for good.
VersionsImmutable ==
  [][/\ Len(versions') \in {Len(versions), Len(versions) + 1}
     /\ \A n \in 1..Len(versions) : versions'[n] = versions[n]]_formVars

\* Until a publish or a close, which read the revision before two saves of others,
\* takes it back, no save replaces a content its page does not show.
SavesSeeWhatTheyReplace ==
  [][~rewound => \A o \in Organizers, c \in Contents, publish \in BOOLEAN :
       Persist(o, c, publish) => page[o].content = form.columns]_formVars

-----------------------------------------------------------------------------
(* What docs/architecture.md says, and a publish or a close breaks.        *)

\* "Stale form/content/schedule edit: reject with a conflict and current revision;
\* never last-write-wins silently"
NoStaleSave ==
  [][\A o \in Organizers, c \in Contents, publish \in BOOLEAN :
       Persist(o, c, publish) => page[o].content = form.columns]_formVars

=============================================================================

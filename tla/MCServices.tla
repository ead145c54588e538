----------------------------- MODULE MCServices -----------------------------
(***************************************************************************)
(* The modules around the program that share no row with one another: each *)
(* behaviour follows one of them, which `side' names, and leaves the       *)
(* others as they began.                                                   *)
(***************************************************************************)
EXTENDS CfpForm, Proposals, Reviews, EventCatalog, Accounts,
        Crm, SpeakerTasks, Portal, Evaluation, ContentDesk, WorkPages, TLC

CONSTANTS question, track1, track2, ann, bob, talk1, talk2, eve, dan

\* A form with one proposal at a time, and one that has a question and admits
\* two proposals, drafts included.
SingleDraft ==
  [drafts |-> TRUE, several |-> FALSE, counts |-> FALSE, edits |-> TRUE,
   confirms |-> TRUE, reminds |-> TRUE, limit |-> 1, needs |-> {}]
TwoProposals ==
  [drafts |-> TRUE, several |-> TRUE, counts |-> TRUE, edits |-> TRUE,
   confirms |-> FALSE, reminds |-> FALSE, limit |-> 2, needs |-> {question}]
TwoDefinitions == {SingleDraft, TwoProposals}

TwoReviewers == <<ann, bob>>
TwoCaps == (ann :> 2) @@ (bob :> 1)

\* Scorecards a round can be created with, for one of which the reviewers' input is
\* out of range, and one that is refused.
Scored == [type |-> "numeric", min |-> 1, max |-> 4, weight |-> 1, required |-> TRUE]
Chosen(weight) ==
  [type |-> "dropdown", options |-> (1 :> 20) @@ (2 :> 100), weight |-> weight,
   required |-> FALSE]
Remark == [type |-> "free_text", weight |-> 0, required |-> FALSE]
OutOfRange == [Scored EXCEPT !.min = 3]
SomeCards == {<<Scored, Chosen(2)>>, <<OutOfRange>>, <<Remark, Chosen(0)>>}

\* Two rows of the files page, each with a session and a speaker of its own.
TwoSpeakers == (1 :> eve) @@ (2 :> dan)
TwoSessions == (1 :> talk1) @@ (2 :> talk2)

VARIABLE side

ServicesInit ==
  /\ side \in {"form", "proposals", "saves", "distributions", "catalog", "accounts", "crm",
               "tasks", "portal", "evaluation", "advice", "desk", "pages"}
  /\ CfpFormInit /\ ReviewsInit /\ CrmInit /\ SpeakerTasksInit /\ PortalInit
  /\ EvaluationInit /\ ContentDeskInit
  /\ WorkPagesInit /\ (side # "pages" => tab = ProductShell)
  /\ ProposalsInit /\ (side # "proposals" => Active = SingleDraft)
  /\ CatalogInit /\ (side # "catalog" => DOMAIN entry = {1} /\ entry[1].name = track1)
  /\ AccountsInit /\ (side # "accounts" => spelling = "lower")

ServicesNext ==
  /\ UNCHANGED side
  /\ IF side = "form" THEN CfpFormNext ELSE UNCHANGED formVars
  /\ IF side = "proposals" THEN ProposalsNext ELSE UNCHANGED proposalVars
  \* saves and recusals next to one distribution at a time, or distributions that
  \* overlap while conflicts are declared: overlaps and conflicts change which pairs
  \* are planned, and saves, which give and take no assignment, treat pairs alike
  /\ IF side = "saves"
     THEN ReviewsNext /\ together' <= 1 /\ (conflicts' # conflicts => assignment' # assignment)
     ELSE IF side = "distributions" THEN ReviewsNext /\ UNCHANGED session ELSE UNCHANGED reviewVars
  /\ IF side = "catalog" THEN CatalogNext ELSE UNCHANGED catalogVars
  /\ IF side = "accounts" THEN AccountsNext ELSE UNCHANGED accountVars
  /\ IF side = "crm" THEN CrmNext ELSE UNCHANGED crmVars
  /\ IF side = "tasks" THEN SpeakerTasksNext ELSE UNCHANGED tasksVars
  /\ IF side = "portal" THEN PortalNext ELSE UNCHANGED portalVars
  /\ IF side = "desk" THEN ContentDeskNext ELSE UNCHANGED deskVars
  /\ IF side = "pages" THEN WorkPagesNext ELSE UNCHANGED pageVars
  \* the reviewer and the AI write different tables, and read none of the other's
  /\ IF side = "evaluation" THEN PlanNext \/ ReviewerNext
     ELSE IF side = "advice" THEN PlanNext \/ AdviceNext ELSE UNCHANGED evaluationVars

servicesVars ==
  <<formVars, proposalVars, reviewVars, catalogVars, accountVars, crmVars, tasksVars,
    portalVars, evaluationVars, deskVars, pageVars, side>>

ServicesSpec == ServicesInit /\ [][ServicesNext]_servicesVars

\* Each invariant is evaluated where its module moves.
ProposalsHold == side = "proposals" => ProposalsSafe
ReviewsHold ==
  /\ side \in {"saves", "distributions"} => ReviewsSafe /\ DistributionSound
  /\ side \in {"evaluation", "advice"} => EvaluationSafe
CatalogHolds == side = "catalog" => CatalogSafe
PeopleHold ==
  /\ side = "accounts" => AccountsSafe
  /\ side = "crm" => CrmSafe
PagesHold ==
  /\ side = "desk" => ContentDeskSafe
  /\ side = "pages" => WorkPagesSafe
SpeakerTasksHold == side = "tasks" => SpeakerTasksSafe
PortalHolds == side = "portal" => PortalSafe
OnlyReopeningHides == [][side = "portal" => ShownStays]_portalVars

\* One set of values serves the interchangeable actors of several modules.
Symmetry == Permutations(Organizers) \cup Permutations(Contents)
=============================================================================

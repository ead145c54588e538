------------------------------ MODULE Reviews -------------------------------
(***************************************************************************)
(* One review round: distributing submissions to its pool of reviewers,    *)
(* declaring conflicts, saving and finalizing responses, recusing          *)
(* (apps/worker/src/modules/reviews-decisions: service.ts, repository.ts   *)
(* and rules.ts).                                                          *)
(*                                                                         *)
(* No operation here locks a row before it reads it: what it read may be   *)
(* stale when its transaction writes.                                      *)
(***************************************************************************)
EXTENDS Naturals, FiniteSets, SequencesExt

CONSTANTS
  Submissions,   \* submitted proposals routed to the round
  Reviewers,     \* a sequence: the pool of the round in order of person id
  Cap,           \* [pool -> Nat]: assignmentCap of each reviewer
  Distributors,  \* organizers' distribution requests in progress
  Sessions,      \* reviewers' save and recuse requests in progress
  MaxRevision    \* bound on the revision of a response

Pool == {Reviewers[i] : i \in DOMAIN Reviewers}
Pairs == Submissions \X Pool

ASSUME ReviewsAssumption ==
  /\ IsFiniteSet(Submissions) /\ IsFiniteSet(Distributors)
  /\ Cap \in [Pool -> Nat] /\ MaxRevision \in Nat
  /\ Reviewers \in Seq(Pool)
  /\ \A i, j \in DOMAIN Reviewers : Reviewers[i] = Reviewers[j] => i = j

VARIABLES
  assignment,  \* review_assignments.status by submission and reviewer
  response,    \* review_responses by assignment: revision and final
  conflicts,   \* review_conflicts not resolved
  distributor, \* each distribution's plan
  session,     \* each save or recuse request
  together     \* history: the most distributions in progress at one time

reviewVars == <<assignment, response, conflicts, distributor, session, together>>

Idle == [at |-> "idle"]
NoResponse == [revision |-> 0, final |-> FALSE]
Status == {"none", "assigned", "in_progress", "submitted", "recused"}

ReviewsInit ==
  /\ assignment = [p \in Pairs |-> "none"]
  /\ response = [p \in Pairs |-> NoResponse]
  /\ conflicts = {}
  /\ distributor = [d \in Distributors |-> Idle]
  /\ session = [s \in Sessions |-> Idle]
  /\ together = 0

-----------------------------------------------------------------------------
(* buildConflictAwareDistribution                                          *)

Existing(r) == Cardinality({s \in Submissions : assignment[<<s, r>>] # "none"})

\* A pair nobody may plan: a declared conflict or an assignment.
Blocked == conflicts \cup {p \in Pairs : assignment[p] # "none"}

Planned(plan, r) == Cardinality({s \in Submissions : <<s, r>> \in plan})
Load(plan, r) == Existing(r) + Planned(plan, r)

Eligible(plan, s, pool) ==
  {i \in DOMAIN Reviewers :
    /\ Reviewers[i] \in pool
    /\ <<s, Reviewers[i]>> \notin Blocked
    /\ Load(plan, Reviewers[i]) < Cap[Reviewers[i]]}

\* The eligible reviewer with the lightest load, the first of them by id.
Lightest(plan, eligible) ==
  CHOOSE i \in eligible : \A j \in eligible :
    \/ Load(plan, Reviewers[i]) < Load(plan, Reviewers[j])
    \/ Load(plan, Reviewers[i]) = Load(plan, Reviewers[j]) /\ i <= j

\* The plan for the submissions in the order given; failed once a submission
\* finds nobody.
PlanOne(s, sofar, pool) ==
  LET eligible == Eligible(sofar.plan, s, pool) IN
    IF sofar.failed \/ eligible = {} THEN [plan |-> {}, failed |-> TRUE]
    ELSE [plan |-> sofar.plan \cup {<<s, Reviewers[Lightest(sofar.plan, eligible)]>>},
          failed |-> FALSE]

Distribution(order, pool) ==
  LET turn[i \in 0..Len(order)] ==
        IF i = 0 THEN [plan |-> {}, failed |-> FALSE]
        ELSE PlanOne(order[i], turn[i - 1], pool)
  IN  turn[Len(order)]

-----------------------------------------------------------------------------
\* The distributions in progress once d has its plan.
Underway(d) == {e \in Distributors : e = d \/ distributor[e] # Idle}

\* getDistributionContext and the plan.  assignReviewer passes one
\* submission and one reviewer; a plan that fails throws.
Plan(d, order, pool) ==
  /\ distributor[d] = Idle
  /\ LET result == Distribution(order, pool) IN
       /\ ~result.failed
       /\ distributor' = [distributor EXCEPT ![d] = [at |-> "insert", plan |-> result.plan]]
  /\ together' = (IF Cardinality(Underway(d)) > together
                  THEN Cardinality(Underway(d)) ELSE together)
  /\ UNCHANGED <<assignment, response, conflicts, session>>

Distribute(d) ==
  \E S \in (SUBSET Submissions) \ {{}} : \E order \in SetToSeqs(S) : Plan(d, order, Pool)

AssignReviewer(d) == \E s \in Submissions, r \in Pool : Plan(d, <<s>>, {r})

\* INSERT ... ON CONFLICT DO NOTHING
CreateAssignments(d) ==
  /\ distributor[d] # Idle
  /\ assignment' = [p \in Pairs |->
       IF p \in distributor[d].plan /\ assignment[p] = "none" THEN "assigned" ELSE assignment[p]]
  /\ distributor' = [distributor EXCEPT ![d] = Idle]
  /\ UNCHANGED <<response, conflicts, session, together>>

DeclareConflict(p) ==
  /\ p \notin conflicts
  /\ conflicts' = conflicts \cup {p}
  /\ UNCHANGED <<assignment, response, distributor, session, together>>

\* saveResponse: the check of the status, the read of the response, and the
\* two writes under the lock of the response row.
SaveChecks(s, p, finalize) ==
  /\ session[s] = Idle
  /\ assignment[p] \in {"assigned", "in_progress"} /\ response[p].revision < MaxRevision
  /\ session' = [session EXCEPT ![s] = [at |-> "read", pair |-> p, finalize |-> finalize]]
  /\ UNCHANGED <<assignment, response, conflicts, distributor, together>>

SaveReads(s) ==
  /\ session[s].at = "read"
  /\ session' = [session EXCEPT ![s] =
       [at |-> "write", pair |-> @.pair, finalize |-> @.finalize,
        revision |-> response[@.pair].revision]]
  /\ UNCHANGED <<assignment, response, conflicts, distributor, together>>

\* Bug: a later draft does not touch the status of a finalized review.
BugKeepsSubmitted(s) ==
  /\ session[s].at = "write"
  /\ LET p == session[s].pair IN
       /\ response' = [response EXCEPT ![p] =
            [revision |-> session[s].revision + 1, final |-> session[s].finalize]]
       /\ assignment' = [assignment EXCEPT ![p] =
            IF session[s].finalize \/ @ = "submitted" THEN "submitted" ELSE "in_progress"]
  /\ session' = [session EXCEPT ![s] = Idle]
  /\ UNCHANGED <<conflicts, distributor, together>>

\* The unique response of an assignment rolls back the second first save.
SaveWrites(s) ==
  /\ session[s].at = "write"
  /\ LET p == session[s].pair
         clash == session[s].revision = 0 /\ response[p] # NoResponse
     IN  IF clash THEN UNCHANGED <<assignment, response>>
         ELSE /\ response' = [response EXCEPT ![p] =
                   [revision |-> session[s].revision + 1, final |-> session[s].finalize]]
              /\ assignment' = [assignment EXCEPT ![p] =
                   IF session[s].finalize THEN "submitted" ELSE "in_progress"]
  /\ session' = [session EXCEPT ![s] = Idle]
  /\ UNCHANGED <<conflicts, distributor, together>>

\* recuse: the check, then the status and the conflict in one commit.
RecuseChecks(s, p) ==
  /\ session[s] = Idle /\ assignment[p] \in {"assigned", "in_progress"}
  /\ session' = [session EXCEPT ![s] = [at |-> "recuse", pair |-> p]]
  /\ UNCHANGED <<assignment, response, conflicts, distributor, together>>

RecuseWrites(s) ==
  /\ session[s].at = "recuse"
  /\ assignment' = [assignment EXCEPT ![session[s].pair] = "recused"]
  /\ conflicts' = conflicts \cup {session[s].pair}
  /\ session' = [session EXCEPT ![s] = Idle]
  /\ UNCHANGED <<response, distributor, together>>

ReviewsNext ==
  \/ \E d \in Distributors : Distribute(d) \/ AssignReviewer(d) \/ CreateAssignments(d)
  \/ \E p \in Pairs : DeclareConflict(p)
  \/ \E s \in Sessions :
       \/ \E p \in Pairs : RecuseChecks(s, p) \/ \E f \in BOOLEAN : SaveChecks(s, p, f)
       \/ SaveReads(s) \/ SaveWrites(s) \/ RecuseWrites(s)

ReviewsSpec == ReviewsInit /\ [][ReviewsNext]_reviewVars

-----------------------------------------------------------------------------
(* Properties.                                                             *)

ReviewsTypeOK ==
  /\ assignment \in [Pairs -> Status]
  /\ response \in [Pairs -> [revision : Nat, final : BOOLEAN]]
  /\ conflicts \subseteq Pairs

\* A submitted assignment has its final response, a final response belongs to
\* an assignment that is submitted, or recused after a race, and who recused
\* holds a conflict, so that no later distribution proposes the pair.
StatusMatchesResponse ==
  /\ ReviewsTypeOK
  /\ \A p \in Pairs :
       /\ assignment[p] = "submitted" => response[p].final
       /\ response[p].final => assignment[p] \in {"submitted", "recused"}
       /\ assignment[p] = "recused" => p \in conflicts

\* No reviewer has more assignments in the round than the cap, and when
\* distributions overlapped, each counting without what the others insert, no
\* more than the cap for each that was in progress.
CapRespected == \A r \in Pool : Existing(r) <= Cap[r] * together

\* Both, whatever requests interleave.
ReviewsSafe == StatusMatchesResponse /\ CapRespected

\* A plan gives each of its submissions one reviewer, none of them blocked,
\* and overloads nobody; a reviewer is chosen only while no other reviewer
\* free for all the submissions carries less.
DistributionSound ==
  \A S \in (SUBSET Submissions) \ {{}} : \A order \in SetToSeqs(S) :
    LET result == Distribution(order, Pool)
        plan == result.plan
        Free(r) == (S \X {r}) \cap Blocked = {} /\ Load(plan, r) < Cap[r]
    IN  ~result.failed =>
          /\ plan \cap Blocked = {} /\ plan \subseteq S \X Pool
          /\ \A s \in S : Cardinality({p \in plan : p[1] = s}) = 1
          /\ \A r \in Pool : Planned(plan, r) > 0 =>
               /\ Load(plan, r) <= Cap[r]
               /\ \A q \in Pool : Free(q) => Load(plan, r) <= Load(plan, q) + 1

-----------------------------------------------------------------------------
(* What a message of the code says, and a race breaks.                     *)

\* "A finalized review is immutable unless an organizer reopens it."
FinalizedIsImmutable ==
  [][\A p \in Pairs : assignment[p] = "submitted" =>
       response'[p] = response[p] /\ assignment'[p] # "in_progress"]_reviewVars
=============================================================================

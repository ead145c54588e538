----------------------------- MODULE Evaluation -----------------------------
(***************************************************************************)
(* The scorecard of a review round and the reviewer's page: the weighted   *)
(* score, the queue with its filter and selection, saving, finalizing and  *)
(* recusing from a page that stays usable while a request is under way,    *)
(* the same reviewer in another tab, the organizer's results and the       *)
(* advice of the AI.  How two saves of one assignment interleave inside    *)
(* saveResponse is the matter of Reviews: a save is one step here.         *)
(***************************************************************************)
EXTENDS Integers, FiniteSets, Sequences, Functions

CONSTANTS
  Queue,       \* the reviewer's assignments: numbers, in the order of the queue
  Cards,       \* the scorecards organizers try to create a round with
  Inputs,      \* what may be typed or chosen for a criterion
  MaxSaves,    \* bound on saves
  MaxAdvice    \* bound on AI assessments

\* A card is a function from criteria to records with type, required and weight,
\* min and max of a numeric criterion, the scores of a dropdown's options.
NoInput == [input |-> -1, typedFor |-> 0]
NoReview == 0
NoScore == -1

\* Scores are hundredths of a percent.
FullScore == 10000
Hundredths == 0..FullScore

ASSUME EvaluationAssumption ==
  /\ IsFiniteSet(Queue) /\ Queue \subseteq Nat \ {NoReview}
  /\ Inputs \subseteq Int /\ MaxSaves \in Nat /\ MaxAdvice \in Nat
  /\ \A c \in Cards :
       /\ IsFiniteSet(DOMAIN c)
       /\ \A k \in DOMAIN c :
            /\ c[k].type \in {"numeric", "dropdown", "free_text"} /\ c[k].weight \in Int
            /\ c[k].type = "numeric" => c[k].min \in Int /\ c[k].max \in Int
            /\ c[k].type = "dropdown" => \A o \in DOMAIN c[k].options : c[k].options[o] \in Int

VARIABLES
  card,       \* the scorecard of the round, once a plan is created
  reviews,    \* review_assignments and review_responses of the reviewer
  desk,       \* the reviewer's page
  advice,     \* review_ai_assessments of the proposal
  saves       \* how many saves were answered

evaluationVars == <<card, reviews, desk, advice, saves>>

-----------------------------------------------------------------------------
(* rules.ts                                                                *)

Criteria == UNION {DOMAIN c : c \in Cards}
Scoring(c) == {k \in DOMAIN c : c[k].type # "free_text"}

Weights(c) == [k \in DOMAIN c |-> c[k].weight]

\* validateScorecard
ValidScorecard(c) ==
  /\ DOMAIN c # {}
  /\ \A k \in DOMAIN c :
       /\ c[k].type = "numeric" => c[k].min < c[k].max /\ c[k].weight > 0
       /\ c[k].type = "dropdown" =>
            /\ c[k].weight >= 0 /\ Cardinality(DOMAIN c[k].options) >= 2
            /\ \A o \in DOMAIN c[k].options : c[k].options[o] \in 0..100
       /\ c[k].type = "free_text" => c[k].weight = 0
  /\ 0 < SumFunctionOnSet(Weights(c), Scoring(c))

Answered(c, answers) == {k \in DOMAIN c : answers[k].input # NoInput.input}

\* calculateWeightedScore throws on an answer outside its criterion, and on a
\* required one that is missing when the review is finalized.
Scorable(c, answers, requireComplete) ==
  /\ \A k \in Answered(c, answers) :
       /\ c[k].type = "numeric" => answers[k].input \in c[k].min..c[k].max
       /\ c[k].type = "dropdown" => answers[k].input \in DOMAIN c[k].options
  /\ requireComplete =>
       \A k \in DOMAIN c : c[k].required => k \in Answered(c, answers)

Span(criterion) == IF criterion.type = "numeric" THEN criterion.max - criterion.min ELSE 1

\* A criterion's points of 100, times its span.
Points(criterion, input) ==
  IF criterion.type = "numeric" THEN (input - criterion.min) * 100
  ELSE criterion.options[input]

\* Math.round of a quotient of natural numbers
Round(a, b) == (2 * a + b) \div (2 * b)

\* What the spans of some criteria divide, and a criterion's points over it.
ProductOnSet(f, S) == FoldFunctionOnSet(LAMBDA a, b : a * b, 1, f, S)
CommonSpan(c, scored) == ProductOnSet([k \in scored |-> Span(c[k])], scored)
Scaled(c, answers, scored) ==
  [k \in scored |-> Points(c[k], answers[k].input) * (CommonSpan(c, scored) \div Span(c[k]))]

\* The weighted mean of what was answered, in hundredths; NoScore is null.
WeightedScore(c, answers) ==
  LET scored == Scoring(c) \cap Answered(c, answers)
      weight == SumFunctionOnSet(Weights(c), scored)
      scaled == Scaled(c, answers, scored)
      total == SumFunctionOnSet([k \in scored |-> scaled[k] * c[k].weight], scored)
  IN  IF weight = 0 THEN NoScore ELSE Round(100 * total, weight * CommonSpan(c, scored))

-----------------------------------------------------------------------------
NoAnswers(c) == [k \in DOMAIN c |-> NoInput]
Unanswered(c) == [status |-> "assigned", answers |-> NoAnswers(c), score |-> NoScore, revision |-> 0]

NothingSent == [at |-> "none"]
NoPage == [loaded |-> FALSE, filter |-> "all", selected |-> NoReview, answers |-> << >>,
           queue |-> << >>, request |-> NothingSent]

EvaluationInit ==
  /\ card = << >> /\ reviews = << >>
  /\ desk = NoPage /\ advice = << >> /\ saves = 0

\* createReviewPlan, and the distribution of the proposal to the reviewer in
\* each of the rounds.
CreatesPlan(c) ==
  /\ card = << >> /\ ValidScorecard(c)
  /\ card' = c
  /\ reviews' = [q \in Queue |-> Unanswered(c)]
  /\ UNCHANGED <<desk, advice, saves>>

-----------------------------------------------------------------------------
(* The reviewer's page.                                                    *)

Incomplete(row) == row.status \in {"assigned", "in_progress"}
Visible(rows, filter) == {q \in Queue : filter = "incomplete" => Incomplete(rows[q])}

\* The first of a set in the order of the queue, or nobody.
First(S) == IF S = {} THEN NoReview ELSE CHOOSE q \in S : \A p \in S : q <= p

\* The first assignment still to do, or else the first of those shown.
Proposed(rows, shown) ==
  LET todo == {q \in shown : Incomplete(rows[q])}
  IN  IF todo # {} THEN First(todo) ELSE First(shown)

\* Every way to select an assignment takes over its saved answers.
Showing(rows, filter, selected) ==
  [loaded |-> TRUE, filter |-> filter, selected |-> selected, queue |-> rows,
   answers |-> IF selected = NoReview THEN << >> ELSE rows[selected].answers,
   request |-> NothingSent]

Opens ==
  /\ card # << >>
  /\ desk' = Showing(reviews, "all", Proposed(reviews, Queue))
  /\ UNCHANGED <<card, reviews, advice, saves>>

SelectAssignment(q) ==
  /\ desk.loaded /\ q \in Visible(desk.queue, desk.filter)
  /\ desk' = [Showing(desk.queue, desk.filter, q) EXCEPT !.request = desk.request]
  /\ UNCHANGED <<card, reviews, advice, saves>>

\* Mutant: changing the filter selects another assignment and keeps the form's answers.
BugChangeQueueFilter(filter) ==
  /\ desk.loaded /\ filter # desk.filter
  /\ desk' =
       LET shown == Visible(desk.queue, filter)
       IN  [desk EXCEPT !.filter = filter,
              !.selected = IF desk.selected \in shown THEN desk.selected ELSE First(shown)]
  /\ UNCHANGED <<card, reviews, advice, saves>>

ChangeQueueFilter(filter) ==
  /\ desk.loaded /\ filter # desk.filter
  /\ desk' =
       LET shown == Visible(desk.queue, filter)
       IN  IF desk.selected \in shown THEN [desk EXCEPT !.filter = filter]
           ELSE [Showing(desk.queue, filter, First(shown)) EXCEPT !.request = desk.request]
  /\ UNCHANGED <<card, reviews, advice, saves>>

\* The fields of a review that is not final stay enabled during a request.
Types(k, input) ==
  /\ desk.selected # NoReview /\ Incomplete(desk.queue[desk.selected])
  /\ k \in DOMAIN card
  /\ desk' = [desk EXCEPT !.answers[k] = [input |-> input, typedFor |-> desk.selected]]
  /\ UNCHANGED <<card, reviews, advice, saves>>

\* save and recuse send what is on the page, and remember the selection and the
\* filter of the moment: reload is a closure over them.
Sends(kind) ==
  /\ desk.selected # NoReview /\ Incomplete(desk.queue[desk.selected])
  /\ desk.request = NothingSent
  /\ desk' = [desk EXCEPT !.request =
                [at |-> "sent", kind |-> kind, review |-> desk.selected,
                 answers |-> desk.answers, filter |-> desk.filter]]
  /\ UNCHANGED <<card, reviews, advice, saves>>

\* saveReview and saveResponse for one assignment.
Saved(q, answers, finalize) ==
  [reviews EXCEPT ![q] =
     [status |-> IF finalize THEN "submitted" ELSE "in_progress", answers |-> answers,
      score |-> WeightedScore(card, answers), revision |-> @.revision + 1]]

MaySave(q, answers, finalize) ==
  Incomplete(reviews[q]) /\ Scorable(card, answers, finalize)

\* The request is carried out and the page reloads, or it is refused, or its
\* answer is lost: then the page keeps what it shows.
Answers(lost) ==
  /\ desk.request.at = "sent" /\ saves < MaxSaves
  /\ LET r == desk.request
         done == IF r.kind = "recuse" THEN Incomplete(reviews[r.review])
                 ELSE MaySave(r.review, r.answers, r.kind = "finalize")
         known == done \/ (r.kind = "recuse" /\ reviews[r.review].status = "recused")
     IN  /\ reviews' =
              IF ~done THEN reviews
              ELSE IF r.kind = "recuse" THEN [reviews EXCEPT ![r.review].status = "recused"]
              ELSE Saved(r.review, r.answers, r.kind = "finalize")
         /\ desk' = [desk EXCEPT !.request = IF known /\ ~lost THEN [r EXCEPT !.at = "reload"]
                                             ELSE NothingSent]
  /\ saves' = saves + 1
  /\ UNCHANGED <<card, advice>>

\* The reload keeps the selection and the filter of the click, if still shown;
\* one that fails is told, and changes nothing else.
Reload ==
  /\ desk.request.at = "reload"
  /\ LET shown == Visible(reviews, desk.request.filter)
         next == IF desk.request.review \in shown THEN desk.request.review
                 ELSE Proposed(reviews, shown)
     IN  \/ desk' = Showing(reviews, desk.filter, next)
         \/ desk' = [desk EXCEPT !.request = NothingSent]
  /\ UNCHANGED <<card, reviews, advice, saves>>

\* The same reviewer answers one more criterion in another tab and finalizes.
FinalizesElsewhere(q, k, input) ==
  /\ card # << >> /\ k \in DOMAIN card /\ saves < MaxSaves
  /\ LET answers == [reviews[q].answers EXCEPT ![k] = [input |-> input, typedFor |-> q]]
     IN  MaySave(q, answers, TRUE) /\ reviews' = Saved(q, answers, TRUE)
  /\ saves' = saves + 1
  /\ UNCHANGED <<card, desk, advice>>

-----------------------------------------------------------------------------
(* The organizer's results and the advice of the AI.                       *)

Submitted == {q \in DOMAIN reviews : reviews[q].status = "submitted"}
Scores == {q \in Submitted : reviews[q].score # NoScore}

\* listResults: the mean of the submitted scores of the proposal, in hundredths.
AggregateScore ==
  IF Scores = {} THEN NoScore
  ELSE Round(SumFunctionOnSet([q \in Scores |-> reviews[q].score], Scores), Cardinality(Scores))

PercentComplete ==
  LET completable == {q \in DOMAIN reviews : reviews[q].status # "recused"}
  IN  IF completable = {} THEN 0
      ELSE Round(100 * Cardinality(Submitted), Cardinality(completable))

\* The adapter lets through a score from 0 to 100 with its reasoning; anything
\* else is recorded as a failure, without a score.
RequestAiAssessment(score) ==
  /\ card # << >> /\ Len(advice) < MaxAdvice
  /\ advice' = Append(advice,
       [status |-> IF score \in Hundredths THEN "completed" ELSE "failed",
        score |-> IF score \in Hundredths THEN score ELSE NoScore, override |-> NoScore])
  /\ UNCHANGED <<card, reviews, desk, saves>>

OverrideAiAssessment(a, score) ==
  /\ a \in DOMAIN advice
  /\ advice' = [advice EXCEPT ![a].override = score]
  /\ UNCHANGED <<card, reviews, desk, saves>>

PlanNext == \E c \in Cards : CreatesPlan(c)

ReviewerNext ==
  \/ Opens \/ Reload
  \/ \E q \in Queue : SelectAssignment(q)
  \/ \E filter \in {"all", "incomplete"} : ChangeQueueFilter(filter)
  \/ \E k \in Criteria, input \in Inputs :
       \/ Types(k, input)
       \/ \E q \in Queue : FinalizesElsewhere(q, k, input)
  \/ \E kind \in {"draft", "finalize", "recuse"} : Sends(kind)
  \/ \E lost \in BOOLEAN : Answers(lost)

AdviceNext ==
  \/ \E score \in {NoScore, 5000} : RequestAiAssessment(score)
  \/ \E a \in 1..MaxAdvice : OverrideAiAssessment(a, 2500)

EvaluationNext == PlanNext \/ ReviewerNext \/ AdviceNext

EvaluationSpec == EvaluationInit /\ [][EvaluationNext]_evaluationVars

-----------------------------------------------------------------------------
(* Properties.                                                             *)

EvaluationTypeOK ==
  /\ card \in Cards \cup {<< >>}
  /\ \A q \in DOMAIN reviews :
       /\ reviews[q].status \in {"assigned", "in_progress", "submitted", "recused"}
       /\ reviews[q].revision \in 0..MaxSaves /\ reviews[q].score \in Hundredths \cup {NoScore}
  /\ desk.selected \in Queue \cup {NoReview} /\ saves \in 0..MaxSaves
  /\ \A a \in DOMAIN advice : advice[a].status = "failed" <=> advice[a].score = NoScore

\* What is stored for an assignment, and what its form shows, was typed for that
\* assignment, however the reviewer goes through the queue, filters it and types
\* while requests are under way, refused or lost.
AnswersStayHome ==
  /\ \A q \in DOMAIN reviews : \A k \in Answered(card, reviews[q].answers) :
       reviews[q].answers[k].typedFor = q
  /\ desk.selected # NoReview =>
       \A k \in Answered(card, desk.answers) : desk.answers[k].typedFor = desk.selected

\* The answered criteria that weigh, and what the answer of one is worth.
Weighing(c, answers) == {k \in Scoring(c) \cap Answered(c, answers) : c[k].weight > 0}
Percent(c, answers, k) == Round(100 * Points(c[k], answers[k].input), Span(c[k]))

\* A stored score is a mean of what was answered: it lies between the worst and
\* the best criterion, whatever the weights, the ranges and the blanks; and a
\* submitted review has every required answer.
ScoresAreMeans ==
  \A q \in DOMAIN reviews :
    LET answers == reviews[q].answers
        score == reviews[q].score
    IN  /\ reviews[q].revision > 0 => (score = NoScore <=> Weighing(card, answers) = {})
        /\ score # NoScore => \E j, k \in Weighing(card, answers) :
             Percent(card, answers, j) <= score /\ score <= Percent(card, answers, k)
        /\ reviews[q].status = "submitted" => Scorable(card, answers, TRUE)

\* Only finalized reviews count, and the aggregate lies between them; a round that
\* nobody is left to review is complete, and one that is shown as complete lacks
\* one of two hundred reviews at most, which the rounding makes up for.
ResultsAreFair ==
  /\ Scores # {} => \E p, q \in Scores :
       reviews[p].score <= AggregateScore /\ AggregateScore <= reviews[q].score
  /\ PercentComplete \in 0..100
  /\ LET left == {q \in DOMAIN reviews : Incomplete(reviews[q])} IN
       /\ Submitted # {} /\ left = {} => PercentComplete = 100
       /\ PercentComplete = 100 =>
            Submitted # {} /\ 200 * Cardinality(left) <= Cardinality(Submitted \cup left)

EvaluationSafe == EvaluationTypeOK /\ AnswersStayHome /\ ScoresAreMeans /\ ResultsAreFair
=============================================================================

------------------------------- MODULE MCLive -------------------------------
(***************************************************************************)
(* What must happen in the end: to an event of the outbox, to one          *)
(* recipient's delivery, to what the scheduled handler looks after, and to *)
(* the decision of one proposal, each under the fairness of its module.    *)
(* They share no variable; `side' says which of them a behaviour follows.  *)
(***************************************************************************)
EXTENDS Outbox, Delivery, Scheduled, Decision, TLC

CONSTANTS pub, d1

OneDelivery == (pub :> {d1}) @@ (d1 :> {})

VARIABLE side

LiveInit ==
  /\ Init /\ DeliveryInit /\ ScheduledInit /\ DecisionInit
  /\ side \in {"outbox", "recipient", "requests", "reminders", "decision"}

LiveNext ==
  /\ UNCHANGED side
  /\ IF side = "outbox" THEN Next ELSE UNCHANGED vars
  /\ IF side = "recipient" THEN DeliveryNext ELSE UNCHANGED deliveryVars
  \* cron with requests and nobody overdue, or with overdue speakers and no request:
  \* an invocation does one after the other, and neither reads what the other writes
  /\ IF side = "requests" THEN ScheduledNext /\ UNCHANGED overdue
     ELSE IF side = "reminders" THEN ScheduledNext /\ UNCHANGED outreach ELSE UNCHANGED scheduledVars
  /\ IF side = "decision" THEN DecisionNext ELSE UNCHANGED decisionVars

\* The fairness of each module, where a behaviour follows it: elsewhere there
\* is nothing to claim, to deliver or to hand over.
OutboxFairness ==
  /\ \A w \in Workers : WF_vars(side = "outbox" /\ Step(w))
  /\ \A e \in Events : WF_vars(side = "outbox" /\ BecomeDue(e))
  /\ \A e \in Events : SF_vars(side = "outbox" /\ \E w \in Workers : Receive(w, e))
  /\ SF_vars(side = "outbox" /\ \E w \in Workers : CronClaim(w))
ConsumerFairness == \A c \in Consumers : WF_deliveryVars(side = "recipient" /\ Work(c))
CronFairness ==
  /\ WF_scheduledVars(side \in {"requests", "reminders"} /\ Midnight)
  /\ \A i \in Crons : WF_scheduledVars(side \in {"requests", "reminders"} /\ Proceeds(i))
ReleaseFairness == \A h \in Handlers : WF_decisionVars(side = "decision" /\ HandlerStep(h))

LiveSpec ==
  /\ LiveInit /\ [][LiveNext]_<<vars, deliveryVars, scheduledVars, decisionVars, side>>
  /\ OutboxFairness /\ ConsumerFairness /\ CronFairness /\ ReleaseFairness
=============================================================================

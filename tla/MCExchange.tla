----------------------------- MODULE MCExchange -----------------------------
(***************************************************************************)
(* What the worker exchanges with others: events with its queue, messages  *)
(* with the mail provider, records with Airtable and Accelevents.  The     *)
(* modules share no variable, so each behaviour follows one of them, which *)
(* `side' names.  The outbox holds a publication (pub) whose handler       *)
(* inserts a calendar delivery row for each of two placements.             *)
(***************************************************************************)
EXTENDS Outbox, Delivery, Campaign, Airtable, Accelevents, TLC

CONSTANTS pub, cal1, cal2

FanoutChildren == (pub :> {cal1, cal2}) @@ (cal1 :> {}) @@ (cal2 :> {})

VARIABLE side

ExchangeInit ==
  /\ side \in {"outbox", "recipient", "communication", "values", "notes", "accelevents"}
  /\ Init /\ DeliveryInit /\ AcceleventsInit
  /\ CampaignInit
  /\ side # "communication" => \A r \in Recipients : committed[r] = "queued"
  /\ AirtableInit /\ (side \notin {"values", "notes"} => Present = {})

ExchangeNext ==
  /\ UNCHANGED side
  /\ IF side = "outbox" THEN Next ELSE UNCHANGED vars
  /\ IF side = "recipient" THEN DeliveryNext ELSE UNCHANGED deliveryVars
  /\ IF side = "communication" THEN CampaignNext ELSE UNCHANGED campaignVars
  \* what the program exports and what people add are columns of their own: either the
  \* records are edited or the notes of the rows, under any runs
  /\ IF side = "values" THEN AirtableNext /\ UNCHANGED time
     ELSE IF side = "notes" THEN AirtableNext /\ UNCHANGED record ELSE UNCHANGED airtableVars
  /\ IF side = "accelevents" THEN AcceleventsNext ELSE UNCHANGED acceleventsVars

ExchangeSpec ==
  ExchangeInit /\ [][ExchangeNext]_<<vars, deliveryVars, campaignVars, airtableVars,
                     acceleventsVars, side>>

\* One set of values serves the interchangeable actors of several modules.
Symmetry ==
  Permutations(Workers) \cup Permutations(Recipients)
=============================================================================

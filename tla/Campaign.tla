------------------------------ MODULE Campaign ------------------------------
(***************************************************************************)
(* The status of a communication, which every transaction on one of its    *)
(* recipients recomputes (recomputeCommunicationStatus).  The transactions *)
(* of different recipients lock different rows and run at READ COMMITTED:  *)
(* each reads its siblings as committed at that moment, together with its  *)
(* own uncommitted change, and overwrites the communication.               *)
(***************************************************************************)
EXTENDS Naturals, DeliveryPolicy

CONSTANTS
  Recipients,    \* recipients of one communication
  Transactions   \* transactions that may be open at the same time

ASSUME CampaignAssumption == Recipients # {}

VARIABLES
  committed,  \* each recipient's committed status
  campaign,   \* the committed status of the communication
  txn,        \* each transaction's step, row, new status and computed status
  alone,      \* history: transactions no other transaction overlapped
  settled     \* history: the last commit was of a transaction that ran alone

campaignVars == <<committed, campaign, txn, alone, settled>>

Closed == [at |-> "closed"]
Open == {t \in Transactions : txn[t] # Closed}
RowLocked(r) == \E t \in Open : txn[t].row = r

\* queueCommunication inserts every recipient and computes the status in the
\* same transaction, before anyone else can see them.
CampaignInit ==
  /\ committed \in [Recipients -> {"queued", "failed"}]
  /\ campaign = CampaignStatus(committed)
  /\ txn = [t \in Transactions |-> Closed]
  /\ alone = {}
  /\ settled = TRUE

\* A transaction writes its recipient: dispatch, retry, finalize or outcome.
\* The row lock makes a second writer of the same recipient wait.
WriteRecipient(t, r) ==
  /\ txn[t] = Closed /\ ~RowLocked(r)
  /\ \E status \in DeliveryStatus :
       txn' = [txn EXCEPT ![t] = [at |-> "recompute", row |-> r, status |-> status]]
  /\ alone' = IF Open = {} THEN {t} ELSE {}
  /\ UNCHANGED <<committed, campaign, settled>>

Visible(t) == [committed EXCEPT ![txn[t].row] = txn[t].status]

\* Bug: the status is computed before the recipient is written.
BugComputesFirst(t) ==
  /\ txn[t] # Closed /\ txn[t].at = "recompute"
  /\ txn' = [txn EXCEPT ![t] =
       [at |-> "commit", row |-> @.row, status |-> @.status,
        computed |-> CampaignStatus(committed)]]
  /\ UNCHANGED <<committed, campaign, alone, settled>>

\* SELECT the status of every recipient of the communication.
Recompute(t) ==
  /\ txn[t] # Closed /\ txn[t].at = "recompute"
  /\ txn' = [txn EXCEPT ![t] =
       [at |-> "commit", row |-> @.row, status |-> @.status,
        computed |-> CampaignStatus(Visible(t))]]
  /\ UNCHANGED <<committed, campaign, alone, settled>>

\* UPDATE communications and COMMIT: the row lock on the communication is
\* held only between these two, so they are one step.
Commit(t) ==
  /\ txn[t] # Closed /\ txn[t].at = "commit"
  /\ committed' = Visible(t)
  /\ campaign' = txn[t].computed
  /\ txn' = [txn EXCEPT ![t] = Closed]
  /\ settled' = (t \in alone)
  /\ alone' = alone \ {t}

\* The transaction fails or the invocation ends: nothing is written.
Rollback(t) ==
  /\ txn[t] # Closed
  /\ txn' = [txn EXCEPT ![t] = Closed]
  /\ alone' = alone \ {t}
  /\ UNCHANGED <<committed, campaign, settled>>

CampaignNext ==
  \E t \in Transactions :
    \/ \E r \in Recipients : WriteRecipient(t, r)
    \/ Recompute(t) \/ Commit(t) \/ Rollback(t)

CampaignSpec == CampaignInit /\ [][CampaignNext]_campaignVars

-----------------------------------------------------------------------------
CampaignTypeOK ==
  /\ committed \in [Recipients -> DeliveryStatus]
  /\ campaign \in CampaignStatuses
  /\ alone \subseteq Open
  /\ settled \in BOOLEAN

\* A transaction that nobody overlapped computes what it commits from exactly
\* the rows its commit leaves, and so leaves the communication with the status
\* its recipients add up to, whatever disagreement it found: the next
\* undisturbed transaction heals a status that two overlapping ones broke.
StatusSettles ==
  /\ CampaignTypeOK
  /\ settled => campaign = CampaignStatus(committed)
  /\ \A t \in alone : txn[t].at = "commit" => txn[t].computed = CampaignStatus(Visible(t))
=============================================================================

------------------------------ MODULE Delivery ------------------------------
(***************************************************************************)
(* The life of one communication recipient: the delivery requests in the   *)
(* outbox, the consumers that call the mail provider, organizers who retry *)
(* and the provider's outcomes that arrive by webhook and by poll          *)
(* (apps/worker/src/modules/communications/service.ts).                    *)
(*                                                                         *)
(* Transactions run at READ COMMITTED.  dispatchDelivery locks the row     *)
(* before it reads it, so its first transaction is one step; retryDelivery *)
(* and applyProviderOutcome read without a lock and write later, which is  *)
(* two steps.  The outbox is seen through what module Outbox promises of   *)
(* it: a requested row is handled at least once.                           *)
(***************************************************************************)
EXTENDS Naturals, FiniteSets, DeliveryPolicy

CONSTANTS
  Keys,        \* idempotency keys of delivery requests
  FirstKey,    \* the key queueCommunication derives for attempt 1
  Consumers,   \* invocations handling communication.delivery_requested
  Desks,       \* organizers' retry requests in progress
  Intakes,     \* webhook and poll requests in progress
  Reported,    \* event types the provider reports
  Sources,     \* webhook, poll: each words the provider's event id its own way
  ReusesKeys,  \* a client may send a retry key a second time
  MaxFaults,   \* bound on throws, crashes and duplicate messages
  MaxOutcomes  \* bound on recorded provider events

ASSUME DeliveryAssumption ==
  /\ FirstKey \in Keys /\ IsFiniteSet(Keys)
  /\ ReusesKeys \in BOOLEAN /\ Reported \subseteq EventTypes
  /\ MaxFaults \in Nat /\ MaxOutcomes \in Nat

VARIABLES
  recipient,    \* the communication_recipients row
  attempts,     \* delivery_attempts: number -> status and retryable flag
  requestRow,   \* each key's outbox row: absent, open, held or settled
  consumer,     \* each consumer's step, key, attempt number and result
  desk,         \* the row each retry request read, or Idle
  intake,       \* the outcome each intake holds and the status it read
  mail,         \* attempts whose message the provider took (external)
  recorded,     \* delivery_provider_events
  disturbances  \* throws, crashes and duplicates so far

deliveryVars ==
  <<recipient, attempts, requestRow, consumer, desk, intake, mail, recorded, disturbances>>

Numbers == 1..(Cardinality(Keys) + MaxFaults)
NoAttempt == [status |-> "none", retryable |-> TRUE]
Idle == [at |-> "idle"]
Outcome == [message : Numbers, type : Reported, source : Sources]

DeliveryInit ==
  /\ recipient = [status |-> "none", count |-> 0, email |-> FALSE, error |-> "none", message |-> 0]
  /\ attempts = [n \in Numbers |-> NoAttempt]
  /\ requestRow = [k \in Keys |-> "absent"]
  /\ consumer = [c \in Consumers |-> Idle]
  /\ desk = [d \in Desks |-> Idle]
  /\ intake = [i \in Intakes |-> Idle]
  /\ mail = {} /\ recorded = {} /\ disturbances = 0

-----------------------------------------------------------------------------
(* queueCommunication: the recipient and its first request, in one         *)
(* transaction.  A person without an email address fails at once.          *)

QueueAddressed ==
  /\ recipient.status = "none"
  /\ recipient' = [recipient EXCEPT !.status = "queued", !.email = TRUE]
  /\ requestRow' = [requestRow EXCEPT ![FirstKey] = "open"]
  /\ UNCHANGED <<attempts, consumer, desk, intake, mail, recorded, disturbances>>

QueueUnaddressed ==
  /\ recipient.status = "none"
  /\ recipient' = [recipient EXCEPT !.status = "failed", !.count = 1, !.error = "email_missing"]
  /\ attempts' = [attempts EXCEPT ![1].status = "failed"]
  /\ UNCHANGED <<requestRow, consumer, desk, intake, mail, recorded, disturbances>>

-----------------------------------------------------------------------------
(* dispatchDelivery, run by the handler of communication.delivery_requested *)

\* The consumer found the row not dispatched.  A second consumer of the same
\* row exists only when the queue delivered its message twice.
Start(c, k) ==
  /\ consumer[c] = Idle
  /\ \/ requestRow[k] = "open" /\ disturbances' = disturbances
     \/ requestRow[k] = "held" /\ disturbances < MaxFaults /\ disturbances' = disturbances + 1
  /\ requestRow' = [requestRow EXCEPT ![k] = "held"]
  /\ consumer' = [consumer EXCEPT ![c] = [at |-> "prepare", key |-> k]]
  /\ UNCHANGED <<recipient, attempts, desk, intake, mail, recorded>>

\* SELECT ... FOR UPDATE; delivered and bounced are terminal.
PrepareTerminal(c) ==
  /\ consumer[c].at = "prepare" /\ recipient.status \in {"delivered", "bounced"}
  /\ consumer' = [consumer EXCEPT ![c] = [at |-> "settle", key |-> @.key]]
  /\ UNCHANGED <<recipient, attempts, requestRow, desk, intake, mail, recorded, disturbances>>

\* Bug: an attempt in progress is resumed under its number.
BugResumesAttempt ==
  IF recipient.status = "sending" THEN recipient.count ELSE recipient.count + 1

AttemptNumber == recipient.count + 1

Prepare(c) ==
  /\ consumer[c].at = "prepare" /\ recipient.status \notin {"delivered", "bounced"}
  /\ attempts' = [attempts EXCEPT ![AttemptNumber].status = "sending"]
  /\ recipient' = [recipient EXCEPT !.status = "sending", !.count = AttemptNumber, !.error = "none"]
  /\ consumer' = [consumer EXCEPT
       ![c] = [at |-> "send", key |-> @.key, number |-> AttemptNumber]]
  /\ UNCHANGED <<requestRow, desk, intake, mail, recorded, disturbances>>

\* What the provider call or its absence leaves for the second transaction.
Answer(c, result, retryable) ==
  consumer' = [consumer EXCEPT ![c] =
    [at |-> "record", key |-> @.key, number |-> @.number,
     result |-> result, retryable |-> retryable]]

NotConfigured(c) ==
  /\ consumer[c].at = "send"
  /\ Answer(c, "blocked_external", TRUE)
  /\ UNCHANGED <<recipient, attempts, requestRow, desk, intake, mail, recorded, disturbances>>

ProviderAccepts(c) ==
  /\ consumer[c].at = "send"
  /\ mail' = mail \cup {consumer[c].number}
  /\ Answer(c, "accepted", TRUE)
  /\ UNCHANGED <<recipient, attempts, requestRow, desk, intake, recorded, disturbances>>

\* The provider refuses, or the call fails before or after it took the mail.
ProviderFails(c) ==
  /\ consumer[c].at = "send"
  /\ \E retryable \in BOOLEAN, taken \in BOOLEAN :
       /\ taken => retryable
       /\ mail' = IF taken THEN mail \cup {consumer[c].number} ELSE mail
       /\ Answer(c, "failed", retryable)
  /\ UNCHANGED <<recipient, attempts, requestRow, desk, intake, recorded, disturbances>>

\* The second transaction overwrites the status whatever it is by now.
RecordAccepted(c) ==
  /\ consumer[c].at = "record" /\ consumer[c].result = "accepted"
  /\ attempts' = [attempts EXCEPT ![consumer[c].number].status = "accepted"]
  /\ recipient' = [recipient EXCEPT !.status = "accepted", !.message = consumer[c].number]
  /\ consumer' = [consumer EXCEPT ![c] = [at |-> "settle", key |-> @.key]]
  /\ UNCHANGED <<requestRow, desk, intake, mail, recorded, disturbances>>

FailureCode(result) == IF result = "failed" THEN "provider" ELSE "unconfigured"

FinalizeFailedAttempt(c) ==
  /\ consumer[c].at = "record" /\ consumer[c].result # "accepted"
  /\ attempts' = [attempts EXCEPT ![consumer[c].number] =
       [status |-> consumer[c].result, retryable |-> consumer[c].retryable]]
  /\ recipient' = [recipient EXCEPT
       !.status = consumer[c].result, !.error = FailureCode(consumer[c].result)]
  /\ consumer' = [consumer EXCEPT ![c] = [at |-> "settle", key |-> @.key]]
  /\ UNCHANGED <<requestRow, desk, intake, mail, recorded, disturbances>>

\* The row becomes dispatched and the message is acknowledged.
SettleRequest(c) ==
  /\ consumer[c].at = "settle"
  /\ requestRow' = [requestRow EXCEPT ![consumer[c].key] = "settled"]
  /\ consumer' = [consumer EXCEPT ![c] = Idle]
  /\ UNCHANGED <<recipient, attempts, desk, intake, mail, recorded, disturbances>>

\* Bug: the row is not marked failed, so nobody claims it again.
BugLeavesRowHeld(c) ==
  /\ consumer[c].at \in {"prepare", "record", "settle"} /\ disturbances < MaxFaults
  /\ consumer' = [consumer EXCEPT ![c] = Idle]
  /\ disturbances' = disturbances + 1
  /\ UNCHANGED <<recipient, attempts, requestRow, desk, intake, mail, recorded>>

\* A transaction throws.  The promise of the recording transaction is
\* returned, not awaited, so the catch of the provider call misses it; the
\* queue handler marks the row failed whatever it is, and it is due again.
Throw(c) ==
  /\ consumer[c].at \in {"prepare", "record", "settle"} /\ disturbances < MaxFaults
  /\ requestRow' = [requestRow EXCEPT ![consumer[c].key] = "open"]
  /\ consumer' = [consumer EXCEPT ![c] = Idle]
  /\ disturbances' = disturbances + 1
  /\ UNCHANGED <<recipient, attempts, desk, intake, mail, recorded>>

\* The invocation is cut off; its message is delivered again, and finds the
\* row dispatched when another consumer settled it.
ConsumerCrash(c) ==
  /\ consumer[c] # Idle /\ disturbances < MaxFaults
  /\ requestRow' = [requestRow EXCEPT ![consumer[c].key] = IF @ = "settled" THEN @ ELSE "open"]
  /\ consumer' = [consumer EXCEPT ![c] = Idle]
  /\ disturbances' = disturbances + 1
  /\ UNCHANGED <<recipient, attempts, desk, intake, mail, recorded>>

-----------------------------------------------------------------------------
(* retryDelivery: read and assess without a lock, then insert and update.  *)

RetryRead(d) ==
  /\ desk[d] = Idle /\ recipient.status # "none"
  /\ RetryEligible(recipient, recipient.count > 0 => attempts[recipient.count].retryable)
  /\ desk' = [desk EXCEPT ![d] = [at |-> "commit", seen |-> recipient]]
  /\ UNCHANGED <<recipient, attempts, requestRow, consumer, intake, mail, recorded, disturbances>>

\* INSERT ... ON CONFLICT DO NOTHING, then the status whatever it is by now.
RetryCommit(d) ==
  /\ desk[d] # Idle
  /\ \E k \in Keys \ {FirstKey} :
       /\ requestRow[k] = "absent" \/ ReusesKeys
       /\ requestRow' = [requestRow EXCEPT ![k] = IF @ = "absent" THEN "open" ELSE @]
  /\ recipient' = [recipient EXCEPT !.status = "queued"]
  /\ desk' = [desk EXCEPT ![d] = Idle]
  /\ UNCHANGED <<attempts, consumer, intake, mail, recorded, disturbances>>

-----------------------------------------------------------------------------
(* applyProviderOutcome, called by the webhook route and by a poll.        *)

\* The provider reports on a message it took; the recipient is looked up by
\* its latest message id, without a lock.  Any other id is a 404.
OutcomeRead(i) ==
  /\ intake[i] = Idle
  /\ \E o \in Outcome :
       /\ o.message \in mail /\ o.message = recipient.message
       /\ Cardinality(recorded) < MaxOutcomes
       /\ intake' = [intake EXCEPT ![i] = [at |-> "commit", outcome |-> o, seen |-> recipient.status]]
  /\ UNCHANGED <<recipient, attempts, requestRow, consumer, desk, mail, recorded, disturbances>>

\* The unique (provider, providerEventId) drops a repeated event.
OutcomeDuplicate(i) ==
  /\ intake[i] # Idle /\ intake[i].outcome \in recorded
  /\ intake' = [intake EXCEPT ![i] = Idle]
  /\ UNCHANGED <<recipient, attempts, requestRow, consumer, desk, mail, recorded, disturbances>>

\* The new status is computed from the status read before.
OutcomeCommit(i) ==
  /\ intake[i] # Idle /\ intake[i].outcome \notin recorded
  /\ LET o == intake[i].outcome
         next == DeliveryStateForProviderEvent(intake[i].seen, o.type)
     IN  /\ recorded' = recorded \cup {o}
         /\ recipient' = [recipient EXCEPT
              !.status = next,
              !.error = IF next \in {"bounced", "failed"} THEN o.type ELSE @]
  /\ intake' = [intake EXCEPT ![i] = Idle]
  /\ UNCHANGED <<attempts, requestRow, consumer, desk, mail, disturbances>>

-----------------------------------------------------------------------------
Work(c) ==
  \/ \E k \in Keys : Start(c, k)
  \/ PrepareTerminal(c) \/ Prepare(c)
  \/ NotConfigured(c) \/ ProviderAccepts(c) \/ ProviderFails(c)
  \/ RecordAccepted(c) \/ FinalizeFailedAttempt(c) \/ SettleRequest(c)

DeliveryNext ==
  \/ QueueAddressed \/ QueueUnaddressed
  \/ \E c \in Consumers : Work(c) \/ Throw(c) \/ ConsumerCrash(c)
  \/ \E d \in Desks : RetryRead(d) \/ RetryCommit(d)
  \/ \E i \in Intakes : OutcomeRead(i) \/ OutcomeDuplicate(i) \/ OutcomeCommit(i)

DeliverySpec == DeliveryInit /\ [][DeliveryNext]_deliveryVars

\* The outbox hands every open request to a consumer, and a consumer that is
\* not cut off runs on (FairSpec of Outbox, AppliedUnlessLost).
DeliveryFairness == \A c \in Consumers : WF_deliveryVars(Work(c))
FairDeliverySpec == DeliverySpec /\ DeliveryFairness

-----------------------------------------------------------------------------
(* Properties.                                                             *)

DeliveryTypeOK ==
  /\ recipient \in [status : DeliveryStatus \cup {"none"}, count : Nat, email : BOOLEAN,
                    error : ErrorCodes, message : Numbers \cup {0}]
  /\ attempts \in [Numbers -> [status : AttemptStatus, retryable : BOOLEAN]]
  /\ requestRow \in [Keys -> {"absent", "open", "held", "settled"}]
  /\ mail \subseteq Numbers
  /\ recorded \subseteq Outcome
  /\ disturbances \in 0..MaxFaults

Sending(c) == consumer[c].at \in {"send", "record"}

\* delivery_attempts holds exactly the numbers 1..attemptCount; the provider is
\* never asked to send before the attempt is committed; no two requests to it
\* carry the same idempotency key; every attempt is paid for by a request that
\* somebody made or by a duplicate, a throw or a crash; and "delivered" rests on
\* a delivered event: whatever consumers, retries and crashes interleave.
DeliveryLedger ==
  /\ DeliveryTypeOK
  /\ \A n \in Numbers : attempts[n].status # "none" <=> n <= recipient.count
  /\ \A n \in mail : attempts[n].status # "none"
  /\ \A c, e \in Consumers :
       Sending(c) /\ Sending(e) /\ consumer[c].number = consumer[e].number => c = e
  /\ recipient.email =>
       recipient.count <= Cardinality({k \in Keys : requestRow[k] # "absent"}) + disturbances
  /\ recipient.status = "delivered" => \E o \in recorded : o.type = "delivered"

\* Only an invocation that read the recipient before it was delivered moves
\* it away from delivered.
OnlyStaleLeavesDelivered ==
  [][recipient.status = "delivered" /\ recipient'.status # "delivered" =>
       \/ \E c \in Consumers : Sending(c) /\ consumer'[c] # consumer[c]
       \/ \E d \in Desks : desk[d] # Idle /\ desk'[d] = Idle
       \/ \E i \in Intakes :
            intake[i] # Idle /\ intake[i].seen # "delivered" /\ intake'[i] = Idle]_deliveryVars

\* A recipient does not stay queued or sending.
EventuallyAttempted ==
  recipient.status \in {"queued", "sending"} ~> recipient.status \notin {"queued", "sending"}

=============================================================================

--------------------------- MODULE DeliveryPolicy ---------------------------
(***************************************************************************)
(* The pure rules of deliveries: what a status means, which provider event *)
(* leads where, when an organizer may retry, and the status of a campaign  *)
(* computed from its recipients (delivery-policy.ts and service.ts of      *)
(* apps/worker/src/modules/communications).                                *)
(***************************************************************************)
EXTENDS Naturals

DeliveryStatus ==
  {"queued", "sending", "accepted", "delivered", "bounced", "failed", "blocked_external"}

AttemptStatus == {"none", "sending", "accepted", "failed", "blocked_external"}

\* One provider event per class the code tells apart; "opened" stands for
\* every type it does not know.
EventTypes == {"delivered", "hardBounce", "softBounce", "invalid", "blocked", "deferred", "opened"}

\* lastErrorCode: a provider event, or one of the worker's own codes.
ErrorCodes == EventTypes \cup {"none", "provider", "unconfigured", "email_missing"}

MaxDeliveryAttempts == 3

DeliveryTruthForStatus(status) ==
  CASE status = "delivered" -> "delivered"
    [] status \in {"queued", "sending", "accepted"} -> "in_flight"
    [] OTHER -> "failed"

\* Bug: a delivered message is not final.
BugDowngradesDelivered(current, type) ==
  CASE type = "delivered" -> "delivered"
    [] type \in {"hardBounce", "softBounce"} -> "bounced"
    [] type \in {"blocked", "invalid"} -> "failed"
    [] type = "deferred" /\ current \notin {"bounced", "failed"} -> "accepted"
    [] OTHER -> current
DeliveryStateForProviderEvent(current, type) ==
  IF current = "delivered" THEN current ELSE
  CASE type = "delivered" -> "delivered"
    [] type \in {"hardBounce", "softBounce"} -> "bounced"
    [] type \in {"blocked", "invalid"} -> "failed"
    [] type = "deferred" /\ current \notin {"bounced", "failed"} -> "accepted"
    [] OTHER -> current

\* assessDeliveryRetry: r is the recipient row, retryable is false when the
\* last attempt was marked permanent.
RetryEligible(r, retryable) ==
  /\ r.email
  /\ r.count < MaxDeliveryAttempts
  /\ r.status \in {"failed", "bounced", "blocked_external"}
  /\ ~(r.status = "bounced" /\ r.error = "hardBounce")
  /\ ~(r.status = "failed" /\ (r.error = "invalid" \/ ~retryable))

CampaignStatuses == {"sending", "complete", "partial_failure", "failed", "blocked_external"}

\* recomputeCommunicationStatus for recipients with the given statuses.
CampaignStatus(status) ==
  LET Truth(r) == DeliveryTruthForStatus(status[r])
      failures == {r \in DOMAIN status : Truth(r) = "failed"}
  IN  IF \E r \in DOMAIN status : Truth(r) = "in_flight" THEN "sending"
      ELSE IF failures = {} THEN "complete"
      ELSE IF failures # DOMAIN status THEN "partial_failure"
      ELSE IF \A r \in failures : status[r] = "blocked_external" THEN "blocked_external"
      ELSE "failed"
=============================================================================

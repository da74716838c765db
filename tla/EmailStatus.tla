---------------------------- MODULE EmailStatus ----------------------------
(***************************************************************************)
(* The statuses of a customer e-mail: of each delivery to the provider, of *)
(* the notification that owns the deliveries, and how the second is        *)
(* derived from the first.                                                 *)
(***************************************************************************)
EXTENDS Naturals, Sequences

DeliveryStatuses ==
  {"QUEUED", "SENDING", "SENT", "DELIVERED", "DELIVERY_DELAYED", "BOUNCED",
   "COMPLAINED", "SUPPRESSED", "FAILED", "DELIVERY_UNCERTAIN", "CANCELLED"}

NotificationStatuses ==
  DeliveryStatuses \cup
  {"MISSING_RECIPIENT", "PENDING", "PARTIALLY_SENT", "NEEDS_CORRECTION"}

\* What the provider accepted, whatever became of it.
Successes ==
  {"SENT", "DELIVERED", "DELIVERY_DELAYED", "BOUNCED", "COMPLAINED",
   "SUPPRESSED"}

\* The order of precedence in which one delivery decides for all.
Precedence ==
  <<"DELIVERY_UNCERTAIN", "SENDING", "QUEUED", "COMPLAINED", "BOUNCED",
    "SUPPRESSED">>

\* The status of a notification whose deliveries have the statuses S # {}.
Derived(S) ==
  LET deciding == {p \in DOMAIN Precedence : Precedence[p] \in S}
  IN
  IF deciding # {}
    THEN Precedence[CHOOSE p \in deciding : \A q \in deciding : p <= q]
  ELSE IF "FAILED" \in S
    THEN IF S \cap Successes # {} THEN "PARTIALLY_SENT" ELSE "FAILED"
  ELSE IF S = {"CANCELLED"} THEN "CANCELLED"
  ELSE IF "DELIVERY_DELAYED" \in S THEN "DELIVERY_DELAYED"
  ELSE IF S = {"DELIVERED"} THEN "DELIVERED"
  ELSE "SENT"

\* Statuses that a delivery does not override.
Overrides == {"CANCELLED", "NEEDS_CORRECTION"}

Editable == {"MISSING_RECIPIENT", "PENDING"}

Claimable == {"QUEUED", "SENDING"}

PossiblySent ==
  {"SENDING", "SENT", "DELIVERED", "DELIVERY_DELAYED", "BOUNCED", "COMPLAINED",
   "SUPPRESSED", "PARTIALLY_SENT", "DELIVERY_UNCERTAIN", "NEEDS_CORRECTION"}

Cancellable == Editable \cup {"QUEUED", "FAILED"}

\* How far a delivery got: a webhook event never lowers it.
Rank(s) ==
  CASE s = "QUEUED"           -> 0
    [] s = "SENDING"          -> 1
    [] s = "SENT"             -> 2
    [] s = "DELIVERY_DELAYED" -> 3
    [] s = "FAILED"           -> 4
    [] s = "DELIVERED"        -> 5
    [] OTHER                  -> 6
=============================================================================

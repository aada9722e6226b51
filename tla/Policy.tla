------------------------------- MODULE Policy -------------------------------
(***************************************************************************)
(* Who may generate, and how a generation is paid for: the pure part of    *)
(* the policy engine (policy/engine.py, policy/loader.py) and the billing  *)
(* plan the chat orchestrator draws from it (chat/orchestrator.py).        *)
(***************************************************************************)
EXTENDS Integers

Modes == {"credits", "byok"}

SubscriptionStatuses == {"none", "active", "expired"}

(* The key_status column; "missing" stands for a user without a key row.   *)
ByokStatuses ==
    {"missing", "invalid", "valid", "validating", "offline", "expired"}

PolicyStates ==
    [subscription_status: SubscriptionStatuses,
     trial_used: BOOLEAN,
     credits_balance: Nat,
     byok_enabled: BOOLEAN,
     byok_status: ByokStatuses]

BlockReasons ==
    {"trial_used", "subscription_required", "subscription_expired",
     "credits_empty", "byok_disabled", "byok_invalid"}

-----------------------------------------------------------------------------
(* A stored "active" whose period is over counts as expired from that      *)
(* moment, whether or not the billing provider has reported it.            *)
EffectiveSubscriptionStatus(status, periodOver) ==
    IF status = "active" /\ periodOver THEN "expired" ELSE status

(* evaluate() for mode byok: the subscription first, then the switch, then *)
(* the status of the key; only a valid key is good enough.                 *)
EvaluateByok(state) ==
    IF state.subscription_status = "expired" THEN "subscription_expired"
    ELSE IF state.subscription_status = "none" THEN "subscription_required"
    ELSE IF ~state.byok_enabled THEN "byok_disabled"
    ELSE IF state.byok_status # "valid" THEN "byok_invalid"
    ELSE "allow"

(* evaluate() for mode credits: credits of an active subscription, or the  *)
(* one lifetime trial of a user who never had one.                         *)
EvaluateCredits(state) ==
    IF state.subscription_status = "active"
    THEN IF state.credits_balance = 0 THEN "credits_empty" ELSE "allow"
    ELSE IF state.subscription_status = "expired" THEN "subscription_expired"
    ELSE IF state.trial_used THEN "trial_used" ELSE "allow"

(* The decision: "allow" or the reason of the block.                       *)
Evaluate(state, mode) ==
    IF mode = "byok" THEN EvaluateByok(state) ELSE EvaluateCredits(state)

(* Faulty: the trial of a user without a subscription is never consumed.   *)
BillingPlanNoTrial(state, mode) ==
    IF mode = "credits" /\ state.subscription_status = "active"
    THEN "debit"
    ELSE "free"

(* How the final answer will be billed, fixed when access is granted:      *)
(* "debit" one credit, "trial" consume the trial, or "free".               *)
BillingPlan(state, mode) ==
    IF mode = "byok" THEN "free"
    ELSE IF state.subscription_status = "active" THEN "debit"
    ELSE IF state.subscription_status = "none" /\ ~state.trial_used THEN "trial"
    ELSE "free"

(* What GET /v1/policy/effective tells the client beforehand.              *)
Effective(state) ==
    [credits_balance |-> state.credits_balance,
     is_subscribed |-> state.subscription_status = "active",
     trial_remaining |->
        IF state.subscription_status = "none" /\ ~state.trial_used THEN 1 ELSE 0,
     byok_enabled |-> state.byok_enabled /\ state.byok_status = "valid",
     can_generate_credits_mode |-> Evaluate(state, "credits") = "allow",
     can_generate_byok_mode |-> Evaluate(state, "byok") = "allow",
     reasons |-> {Evaluate(state, m) : m \in Modes} \ {"allow"}]
=============================================================================

---------------------------- MODULE PolicyProofs ----------------------------
(***************************************************************************)
(* What the policy engine and the billing plan agree on, for every policy  *)
(* state.  evaluate() and _billing_plan() are two functions in two modules *)
(* that read the same record; nothing in the code ties them together.      *)
(***************************************************************************)
EXTENDS Policy, TLAPS

(* Every generation evaluate() allows in mode credits is paid for: by a    *)
(* credit the user has, or by a trial that is still there.                 *)
THEOREM AllowedCreditsArePaid ==
  ASSUME NEW state \in PolicyStates, Evaluate(state, "credits") = "allow"
  PROVE  \/ BillingPlan(state, "credits") = "debit" /\ state.credits_balance > 0
         \/ BillingPlan(state, "credits") = "trial" /\ ~state.trial_used
<1>1. CASE state.subscription_status = "active"
  <2>1. state.credits_balance # 0
    BY <1>1 DEF Evaluate, EvaluateCredits
  <2>2. BillingPlan(state, "credits") = "debit"
    BY <1>1 DEF BillingPlan
  <2> QED BY <2>1, <2>2 DEF PolicyStates
<1>2. CASE state.subscription_status = "none"
  <2>1. ~state.trial_used
    BY <1>2 DEF Evaluate, EvaluateCredits
  <2> QED BY <1>2, <2>1 DEF BillingPlan
<1>3. state.subscription_status # "expired"
  BY DEF Evaluate, EvaluateCredits
<1> QED BY <1>1, <1>2, <1>3 DEF PolicyStates, SubscriptionStatuses

(* A generation with the user's own key is allowed exactly when the        *)
(* subscription is active and the key both enabled and valid, which is     *)
(* what is_subscribed and byok_enabled of the effective policy announce.   *)
THEOREM OwnKeyIsAnnounced ==
  ASSUME NEW state \in PolicyStates
  PROVE  Effective(state).can_generate_byok_mode
            <=> Effective(state).is_subscribed /\ Effective(state).byok_enabled
<1>1. CASE state.subscription_status = "active"
  BY <1>1 DEF Effective, Evaluate, EvaluateByok, PolicyStates
<1>2. CASE state.subscription_status = "none"
  BY <1>2 DEF Effective, Evaluate, EvaluateByok, PolicyStates
<1>3. CASE state.subscription_status = "expired"
  BY <1>3 DEF Effective, Evaluate, EvaluateByok, PolicyStates
<1> QED BY <1>1, <1>2, <1>3 DEF PolicyStates, SubscriptionStatuses

(* The client is told of a remaining trial exactly when the next message   *)
(* in mode credits would be allowed and consume it.                        *)
THEOREM TrialIsAnnounced ==
  ASSUME NEW state \in PolicyStates
  PROVE  Effective(state).trial_remaining = 1
            <=> /\ Effective(state).can_generate_credits_mode
                /\ BillingPlan(state, "credits") = "trial"
<1>1. CASE state.subscription_status = "active"
  BY <1>1 DEF Effective, BillingPlan
<1>2. CASE state.subscription_status = "none" /\ state.trial_used
  BY <1>2 DEF Effective, BillingPlan
<1>3. CASE state.subscription_status = "none" /\ ~state.trial_used
  BY <1>3 DEF Effective, Evaluate, EvaluateCredits, BillingPlan
<1>4. CASE state.subscription_status = "expired"
  BY <1>4 DEF Effective, BillingPlan
<1> QED BY <1>1, <1>2, <1>3, <1>4 DEF PolicyStates, SubscriptionStatuses
=============================================================================

----------------------------- MODULE MCBilling -----------------------------
(***************************************************************************)
(* A small instance of Billing: a period that Adapty announces twice, with *)
(* another product and no expiry the second time, and then expires, a      *)
(* StoreKit transaction, a token package, an operator, and three payments  *)
(* of one device that may change hands, the last of which was sold as a    *)
(* subscription and is listed as a single payment.                         *)
(***************************************************************************)
EXTENDS Billing

CONSTANTS u1, u2, d1, h1, h2, s1, s2, s3, Missing

Str(x) == <<"str", x>>
Purchaser == "event_properties.customer_user_id"
Txn == "event_properties.transaction_id"
Original == "event_properties.original_transaction_id"
Product == "event_properties.vendor_product_id"
Expires == "event_properties.subscription_expires_at"

Event(id, type, product, exp) ==
    "profile_event_id" :> Str(id) @@ "event_type" :> Str(type) @@ Purchaser :> Str(u1)
    @@ Txn :> <<"int", "t1">> @@ Product :> Str(product) @@ Expires :> Str(exp)

NoExpiry(b) == [place \in DOMAIN b \ {Expires} |-> b[place]]

Adapty(b) == [op |-> "adapty", shape |-> "object", body |-> b]
Signed(txn, product, exp) ==
    [compact |-> TRUE, alg |-> "ES256", signer |-> "apple", leafSigned |-> TRUE,
     bundle |-> "app", txn |-> txn, product |-> product, exp |-> exp, revoked |-> FALSE]

Started == Adapty(Event("e1", "trial_started", "week", 1))
Updated == Adapty(NoExpiry(Event("e2", "access_level_updated", "month", 1))
                    @@ "is_active" :> <<"bool", TRUE>> @@ "access_level_id" :> Str("premium"))
Expired == Adapty(Event("e3", "subscription_expired", "week", 1))
Synced == [op |-> "sync", user |-> u1, jws |-> Signed("t1", "month", 2)]
Bought == [op |-> "purchase", user |-> u1, jws |-> Signed("t2", "10_tokens", Missing)]
Called == [op |-> "callback",
           body |-> "Status" :> Str("completed") @@ "OperationType" :> Str("payment")
                    @@ "AccountId" :> Str(d1)]
Given == [op |-> "grant_subscription", user |-> u1, days |-> 1, exp |-> Missing,
          plan |-> "manual", credits |-> Missing, key |-> "k"]

OneRequest ==
    "started" :> Started @@ "updated" :> Updated @@ "expired" :> Expired @@ "synced" :> Synced
    @@ "bought" :> Bought @@ "called" :> Called @@ "given" :> Given
    @@ "credited" :> [op |-> "grant", user |-> u1, amount |-> 2, key |-> "k"]

Sold(s, product, type) ==
    [payment_id |-> s, product |-> product, payment_type |-> type,
     status |-> "succeeded", paid_at |-> Missing, device |-> d1]
Payments ==
    s1 :> Sold(s1, [code |-> "10_tokens", keyword |-> Missing, trialSuffix |-> FALSE,
                    countsTokens |-> TRUE], "one_time")
    @@ s2 :> Sold(s2, [code |-> "year_trial", keyword |-> "year", trialSuffix |-> TRUE,
                       countsTokens |-> FALSE], "subscription")
    @@ s3 :> Sold(s3, [code |-> "month", keyword |-> "month", trialSuffix |-> FALSE,
                       countsTokens |-> FALSE], "one_time")

Settings ==
    [adaptyTokens |-> PositiveEntries("week" :> <<"int", 2>> @@ "month" :> <<"bool", TRUE>>),
     adaptyFallback |-> 1, tokenProducts |-> "10_tokens" :> 1, cpTokens |-> "month" :> 2,
     cpFallback |-> 1, periodCredits |-> 1, paid_statuses |-> {"succeeded"},
     freshness |-> 0, period |-> "month" :> 1 @@ "year" :> 2,
     storekit |-> [testMode |-> FALSE, trustXcode |-> FALSE, roots |-> TRUE,
                   bundle |-> "app"]]

Symmetry == Permutations({h1, h2})
============================================================================

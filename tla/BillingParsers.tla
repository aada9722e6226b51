--------------------------- MODULE BillingParsers ---------------------------
(***************************************************************************)
(* The pure functions of the billing webhooks: what is read from a body of *)
(* Adapty or of the payment aggregator, whose fields may arrive in several *)
(* places and with several JSON types, what kind of event it is, and which *)
(* payments may be credited.  (billing_adapty/parser.py,                   *)
(* billing_cloudpayments/parser.py and verify.py, config.py,               *)
(* subscription/storekit.py)                                               *)
(*                                                                         *)
(* A parsed JSON object is a function from the places that are present to  *)
(* tagged values <<type, value>>, type in {"str", "int", "bool", "other"}; *)
(* an empty string is of type "other".  The letter case of a text is not   *)
(* modelled.                                                               *)
(***************************************************************************)
EXTENDS Integers, TLC

CONSTANTS
    Uuids,      \* texts that are well-formed UUIDs
    Absent      \* Python's None

Texts == {"str", "int"}
Never == Absent     \* an expiry that is not set

(* The first of the places that holds a value of one of the types.         *)
FirstOf(body, places, types) ==
    LET fits == {i \in DOMAIN places :
                    places[i] \in DOMAIN body /\ body[places[i]][1] \in types}
    IN  IF fits = {} THEN Absent
        ELSE body[places[CHOOSE i \in fits : \A j \in fits : i <= j]][2]

-----------------------------------------------------------------------------
(* Adapty events.                                                          *)
GRANTING_EVENTS == {"trial_started", "subscription_started", "subscription_renewed"}
EXPIRING_EVENTS == {"subscription_expired", "subscription_cancelled"}
NOOP_EVENTS == {"subscription_renewal_cancelled", "trial_renewal_cancelled"}
KNOWN_EVENTS ==
    GRANTING_EVENTS \union EXPIRING_EVENTS \union NOOP_EVENTS
        \union {"access_level_updated"}

parse_event_id(b) ==
    FirstOf(b, <<"profile_event_id", "event_properties.profile_event_id",
                 "event_id", "id">>, Texts)
parse_event_type(b) ==
    FirstOf(b, <<"event_type", "event", "event_properties.event_type", "type">>, Texts)
parse_customer_user_id(b) ==
    LET raw == FirstOf(b, <<"customer_user_id", "profile.customer_user_id",
                            "event_properties.customer_user_id", "user_id">>, Texts)
    IN  IF raw \in Uuids THEN raw ELSE Absent
parse_vendor_product_id(b) ==
    FirstOf(b, <<"event_properties.vendor_product_id", "event_properties.product_id",
                 "vendor_product_id", "product_id">>, Texts)
(* A text that is no ISO date counts as no expiry: the event is applied.   *)
parse_expires_at(b) ==
    LET raw == FirstOf(b, <<"event_properties.subscription_expires_at",
                            "event_properties.expires_at", "subscription_expires_at",
                            "expires_at", "profile.expires_at">>, Texts)
    IN  IF raw \in Int THEN raw ELSE Never
parse_transaction_id(b) ==
    FirstOf(b, <<"event_properties.transaction_id", "transaction_id">>, Texts)
parse_original_transaction_id(b) ==
    FirstOf(b, <<"event_properties.original_transaction_id",
                 "original_transaction_id">>, Texts)
parse_is_active(b) ==
    FirstOf(b, <<"event_properties.is_active", "is_active">>, {"bool"})
parse_access_level_id(b) ==
    FirstOf(b, <<"event_properties.access_level_id", "access_level_id">>, Texts)

classify_event(b) ==
    LET type == parse_event_type(b)
        active == parse_is_active(b)
    IN  CASE type \in GRANTING_EVENTS -> "granting"
          [] type \in EXPIRING_EVENTS -> "expiring"
          [] type \in NOOP_EVENTS -> "noop"
          [] OTHER ->
                IF active = TRUE /\ parse_access_level_id(b) = "premium" THEN "granting"
                ELSE IF active = FALSE THEN "expiring" ELSE "noop"

(* The billing period of an event: its transaction, else the chain of      *)
(* transactions, else the event itself.                                    *)
PeriodOf(b) ==
    IF parse_transaction_id(b) # Absent THEN parse_transaction_id(b)
    ELSE IF parse_original_transaction_id(b) # Absent
    THEN parse_original_transaction_id(b) ELSE parse_event_id(b)

-----------------------------------------------------------------------------
(* Product tables of the settings: only positive integers survive.         *)
PositiveEntries(raw) ==
    LET good == {p \in DOMAIN raw : raw[p][1] = "int" /\ raw[p][2] > 0}
    IN  [p \in good |-> raw[p][2]]

CreditsOr(table, product, fallback) ==
    IF product \in DOMAIN table THEN table[product] ELSE fallback

-----------------------------------------------------------------------------
(* The callback of the payment aggregator.                                 *)
parse_gate(b) ==
    /\ FirstOf(b, <<"Status">>, Texts) = "completed"
    /\ FirstOf(b, <<"OperationType">>, Texts) = "payment"
parse_user_id(b) ==
    LET raw == FirstOf(b, <<"AccountId", "Data.user_id">>, Texts)
    IN  IF raw \in Uuids THEN raw ELSE Absent

(* The kind of a product by its name, which the module takes as a record   *)
(* of what the keyword tests find: the interval keyword, if any, a trial   *)
(* suffix, and the form of a token package.                                *)
classify_product(product, interval, tokenProducts) ==
    CASE product.code \in tokenProducts -> "tokens"
      [] interval \in {"year", "month", "week", "day"} -> "subscription"
      [] product.countsTokens -> "tokens"
      [] product.keyword # Absent \/ product.trialSuffix -> "subscription"
      [] OTHER -> "unknown"

infer_interval_unit_from_code(product) == product.keyword

(* Length of a period in the module's unit of time.                        *)
_compute_expiry(now, unit, Length) ==
    now + (IF unit \in DOMAIN Length THEN Length[unit] ELSE Length["month"])

(* The payments of a listing that may be credited: paid, fresh and with    *)
(* every field that crediting needs.                                       *)
select_creditable_payments(data, paid_statuses, now, freshness) ==
    {p \in data :
        /\ p.status \in paid_statuses
        /\ p.paid_at # Absent
        /\ p.paid_at >= now - freshness
        /\ p.payment_id # Absent
        /\ p.product # Absent
        /\ p.payment_type # Absent}

-----------------------------------------------------------------------------
(* A verified StoreKit transaction: the signature is accepted when the     *)
(* chain is anchored in an Apple root, or, with the flag, in the local     *)
(* Xcode certificate; a test signature only in test mode.                  *)
AcceptsSignature(jws, config) ==
    /\ jws.compact
    /\ IF jws.alg = "HS256"
       THEN config.testMode /\ jws.signer = "test"
       ELSE /\ jws.leafSigned
            /\ \/ config.trustXcode /\ jws.signer = "xcode"
               \/ config.roots /\ jws.signer = "apple"

(* What is left of its payload: no transaction without an id or of another *)
(* bundle.                                                                 *)
AcceptsPayload(jws, config) ==
    /\ config.bundle # Absent => jws.bundle = config.bundle
    /\ jws.txn # Absent
=============================================================================

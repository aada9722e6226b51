------------------------------- MODULE Billing -------------------------------
(***************************************************************************)
(* How credits and subscriptions come in: the StoreKit sync and the token  *)
(* purchase of the client, the Adapty webhook, the callback of the payment *)
(* aggregator and the two grants of an operator.  Each runs as a database  *)
(* transaction whose statements interleave with those of the others; the   *)
(* senders of webhooks deliver a call again and again, in any order.       *)
(*                                                                         *)
(* Every call has the same shape: recognise, remember the delivery, read   *)
(* and write the subscription row, grant, commit.  What a transaction has  *)
(* written is held in its job until Commit; a row that is held makes the   *)
(* others wait.  WalletService.grant is one step here: module Wallet shows *)
(* its statements to be atomic.                                            *)
(* (billing_adapty/service.py, billing_cloudpayments/service.py,           *)
(* subscription/service.py, token_purchase/service.py, admin/service.py)   *)
(***************************************************************************)
EXTENDS BillingParsers, FiniteSets

CONSTANTS
    Handlers,   \* requests being served at the same time
    Users,      \* rows of users
    Calls,      \* names of the calls that may be delivered
    Request,    \* Request[c]: the content of call c, a record with its op
    Sales,      \* payments known to the aggregator
    Payment,    \* Payment[s]: the listing's record of sale s, without paid_at
    Devices,    \* deviceIds
    Config,     \* settings
    MaxTime,    \* bound of the clock
    MaxStarts   \* bound of the calls accepted in a behaviour

ASSUME UserIdsAssumption == Users \subseteq Uuids /\ Devices \subseteq Uuids
ASSUME BoundsAssumption == MaxTime \in Nat /\ MaxStarts \in Nat
ASSUME AbsentAssumption == Absent \notin Calls \union Sales

VARIABLES
    now,            \* the clock
    paid,           \* paid[s]: when the sale was paid, Absent before
    device_user,    \* auth_devices: the user a device belongs to
    subscriptions,  \* committed rows by user
    ledger,         \* committed entries of ledger_transactions
    balance,        \* committed wallets
    adapty_events,  \* committed event ids of adapty_webhook_events
    cp_events,      \* committed payments of cloudpayments_webhook_events
    answered,       \* Adapty calls answered applied or duplicate
    starts,         \* calls accepted so far
    job             \* job[h]: what handler h is doing

tables == <<subscriptions, ledger, balance, adapty_events, cp_events, answered>>
vars == <<now, paid, device_user, tables, starts, job>>

-----------------------------------------------------------------------------
(* Contents of the calls.                                                  *)
Op(c) == Request[c].op
Body(c) == Request[c].body
Jws(c) == Request[c].jws

Row(status, plan, exp) == [status |-> status, plan |-> plan, exp |-> exp]
NoRow == Row("none", Absent, Never)     \* no row of subscriptions
Columns == {"status", "plan", "exp"}

Idle == [pc |-> "idle", call |-> Absent, user |-> Absent, seen |-> NoRow,
         want |-> Absent, draft |-> Absent, entry |-> Absent,
         sale |-> Absent, listed |-> {}, todo |-> {}]

(* Lazy expiry: a stored subscription counts until it expires.             *)
Subscribed(row) ==
    /\ row # NoRow
    /\ row.status = "active"
    /\ row.exp # Never => row.exp > now

Verified(c) ==
    AcceptsSignature(Jws(c), Config.storekit) /\ AcceptsPayload(Jws(c), Config.storekit)

ActiveTransaction(jws) == ~jws.revoked /\ jws.exp # Never /\ jws.exp > now

(* An Adapty body that is acted on: the early returns of handle are its    *)
(* conjuncts.                                                              *)
Recognised(c) ==
    /\ Request[c].shape = "object"
    /\ parse_event_id(Body(c)) # Absent
    /\ parse_customer_user_id(Body(c)) \in Users
    /\ parse_event_type(Body(c)) \in KNOWN_EVENTS

(* The user a callback is about: the identifier itself or the owner of the *)
(* device.                                                                 *)
Resolve(x) ==
    IF x \in Users THEN x ELSE IF x \in Devices THEN device_user[x] ELSE Absent

-----------------------------------------------------------------------------
(* The credits of a payment: its class is what the aggregator says, its    *)
(* amount what the settings say; Absent when it is skipped.                *)
KindOf(s) ==
    CASE Payment[s].payment_type = "one_time" -> "tokens"
      [] Payment[s].payment_type = "subscription" -> "subscription"
      [] OTHER -> "unknown"
CreditsOf(s) ==
    CASE KindOf(s) = "tokens" -> CreditsOr(Config.tokenProducts, Payment[s].product.code, 0)
      [] KindOf(s) = "subscription" ->
            CreditsOr(Config.cpTokens, Payment[s].product.code, Config.cpFallback)
      [] OTHER -> 0
Skipped(s) == CreditsOf(s) <= 0

(* Mutant: the key names the event, not the period.                        *)
FaultyAdaptyKey(c) == <<"adapty-txn", parse_event_id(Body(c))>>
AdaptyKey(c) == <<"adapty-txn", PeriodOf(Body(c))>>

(* What call c grants, a callback for sale s: the idempotency key, the     *)
(* amount and, for the reader, the product it is for.                      *)
GrantOf(c, s) ==
    CASE Op(c) = "sync" ->
            [key |-> <<"sub-grant", Jws(c).txn>>, amount |-> Config.periodCredits,
             meta |-> Jws(c).product]
      [] Op(c) = "purchase" ->
            [key |-> <<"token-purchase", Jws(c).txn>>,
             amount |-> CreditsOr(Config.tokenProducts, Jws(c).product, 0),
             meta |-> Jws(c).product]
      [] Op(c) = "adapty" ->
            [key |-> AdaptyKey(c),
             amount |-> CreditsOr(Config.adaptyTokens, parse_vendor_product_id(Body(c)),
                                  Config.adaptyFallback),
             meta |-> parse_vendor_product_id(Body(c))]
      [] Op(c) = "callback" ->
            [key |-> <<"cp-txn", s>>, amount |-> CreditsOf(s),
             meta |-> Payment[s].product.code]
      [] Op(c) = "grant" ->
            [key |-> <<"admin", Request[c].key>>, amount |-> Request[c].amount,
             meta |-> "admin"]
      [] Op(c) = "grant_subscription" ->
            [key |-> <<"admin-sub-grant", Request[c].key>>,
             amount |-> IF Request[c].credits = Absent THEN Config.periodCredits
                        ELSE Request[c].credits,
             meta |-> Request[c].plan]

(* The entry of the ledger that a job posts.                               *)
EntryOf(j) ==
    LET g == GrantOf(j.call, j.sale)
    IN  [user |-> j.user, key |-> g.key, kind |-> "credit", amount |-> g.amount,
         meta |-> g.meta]

(* Whether a job that has written its row goes on to grant.                *)
Grants(j) ==
    CASE Op(j.call) = "sync" -> j.want.status = "active"
      [] Op(j.call) = "adapty" -> classify_event(Body(j.call)) = "granting"
      [] OTHER -> GrantOf(j.call, j.sale).amount > 0

-----------------------------------------------------------------------------
Init ==
    /\ now = 0
    /\ paid = [s \in Sales |-> Absent]
    /\ device_user \in [Devices -> Users]
    /\ subscriptions = [u \in Users |-> NoRow]
    /\ ledger = {}
    /\ balance = [u \in Users |-> 0]
    /\ adapty_events = {} /\ cp_events = {} /\ answered = {}
    /\ starts = 0
    /\ job = [h \in Handlers |-> Idle]

Start(h, c, pc, u, want) ==
    /\ job[h].pc = "idle"
    /\ starts < MaxStarts
    /\ starts' = starts + 1
    /\ job' = [job EXCEPT ![h] = [Idle EXCEPT !.pc = pc, !.call = c, !.user = u,
                                              !.want = want]]
    /\ UNCHANGED <<now, paid, device_user, tables>>

(* POST /v1/subscription/sync: the status is computed from the clock first.*)
Sync(h, c) ==
    /\ Op(c) = "sync" /\ Verified(c)
    /\ LET status == IF ActiveTransaction(Jws(c)) THEN "active" ELSE "expired"
       IN  Start(h, c, "read", Request[c].user, Row(status, Jws(c).product, Jws(c).exp))

(* POST /v1/tokens/purchase: subscribers only, known products only.        *)
Purchase(h, c) ==
    /\ Op(c) = "purchase"
    /\ Subscribed(subscriptions[Request[c].user])
    /\ Verified(c)
    /\ Jws(c).product \in DOMAIN Config.tokenProducts
    /\ Start(h, c, "grant", Request[c].user, Absent)

(* POST /v1/admin/wallet/grant and /subscription/grant, for users that     *)
(* exist; the term of a subscription lies in the future.                   *)
AdminGrant(h, c) ==
    /\ Op(c) = "grant" /\ Request[c].user \in Users
    /\ Start(h, c, "grant", Request[c].user, Absent)
AdminGrantSubscription(h, c) ==
    /\ Op(c) = "grant_subscription" /\ Request[c].user \in Users
    /\ LET exp == IF Request[c].days # Absent THEN now + Request[c].days
                  ELSE Request[c].exp
       IN  /\ exp > now
           /\ Start(h, c, "upsert", Request[c].user, Row("active", Request[c].plan, exp))

(* POST /v1/billing/adapty/webhook, up to the first write.                 *)
Webhook(h, c) ==
    /\ Op(c) = "adapty" /\ Recognised(c)
    /\ Start(h, c, "record", parse_customer_user_id(Body(c)), Absent)

(* POST /v1/billing/cloudpayments/webhook, up to the outgoing request: the *)
(* transaction that resolved the user is closed.                           *)
Callback(h, c) ==
    /\ Op(c) = "callback" /\ parse_gate(Body(c))
    /\ Resolve(parse_user_id(Body(c))) # Absent
    /\ Start(h, c, "verify", Resolve(parse_user_id(Body(c))), Absent)

-----------------------------------------------------------------------------
(* Locks: a delivery recorded but not committed, a subscription row        *)
(* written, a wallet granted to.                                           *)
(* Mutant: the payment of a callback is not recorded before it is credited.*)
FaultyDelivery(j) ==
    IF j.call # Absent /\ Op(j.call) = "adapty"
    THEN <<"event", parse_event_id(Body(j.call))>> ELSE Absent
Delivery(j) ==
    IF j.call = Absent THEN Absent
    ELSE IF Op(j.call) = "adapty" THEN <<"event", parse_event_id(Body(j.call))>>
    ELSE IF Op(j.call) = "callback" /\ j.sale # Absent THEN <<"payment", j.sale>>
    ELSE Absent
HoldsDelivery(j, d) == Delivery(j) = d /\ j.pc \in {"read", "write", "upsert", "grant", "commit"}
HoldsRow(j, u) == j.user = u /\ j.draft # Absent
(* Mutant: the wallet row is not locked.                                   *)
FaultyHoldsWallet(j, u) == FALSE
HoldsWallet(j, u) == j.user = u /\ j.entry # Absent

Free(h, Holds(_)) == \A g \in Handlers \ {h} : ~Holds(job[g])
RowFree(h) == Free(h, LAMBDA j : HoldsRow(j, job[h].user))
WalletFree(h) == Free(h, LAMBDA j : HoldsWallet(j, job[h].user))
DeliveryFree(h, d) == Free(h, LAMBDA j : HoldsDelivery(j, d))

Untouched == UNCHANGED <<now, paid, device_user, starts>>
Becomes(h, j) == job' = [job EXCEPT ![h] = j]

(* Mutant: the delivery is recorded in a transaction of its own.           *)
FaultyFail(h) ==
    /\ job[h].pc # "idle"
    /\ Becomes(h, Idle)
    /\ adapty_events' = adapty_events \union
          (IF job[h].pc = "grant" /\ Op(job[h].call) = "adapty"
           THEN {parse_event_id(Body(job[h].call))} ELSE {})
    /\ UNCHANGED <<subscriptions, ledger, balance, cp_events, answered>> /\ Untouched
(* Any failure: a conflict, the database, the network, a crash.  The       *)
(* transaction is rolled back; the sender may deliver the call again.      *)
Fail(h) ==
    /\ job[h].pc # "idle"
    /\ Becomes(h, Idle)
    /\ UNCHANGED tables /\ Untouched

(* INSERT INTO adapty_webhook_events ... ON CONFLICT DO NOTHING.  A        *)
(* delivery already recorded ends here.                                    *)
RecordEvent(h) ==
    LET c == job[h].call
        id == parse_event_id(Body(c))
        semantics == classify_event(Body(c))
        want == IF semantics = "granting"
                THEN Row("active", parse_vendor_product_id(Body(c)), parse_expires_at(Body(c)))
                ELSE [status |-> "expired"]
    IN  /\ job[h].pc = "record"
        /\ DeliveryFree(h, <<"event", id>>)
        /\ \/ /\ id \in adapty_events
              /\ answered' = answered \union {c}
              /\ Becomes(h, Idle)
           \/ /\ id \notin adapty_events
              /\ UNCHANGED answered
              /\ Becomes(h, [job[h] EXCEPT !.want = want,
                                !.pc = IF semantics = "noop" THEN "commit" ELSE "read"])
        /\ UNCHANGED <<subscriptions, ledger, balance, adapty_events, cp_events>> /\ Untouched

(* SELECT of the row, no lock.                                             *)
ReadRow(h) ==
    /\ job[h].pc = "read"
    /\ Becomes(h, [job[h] EXCEPT !.pc = "write", !.seen = subscriptions[job[h].user]])
    /\ UNCHANGED tables /\ Untouched

(* The columns an ORM row would send in its UPDATE: those whose value      *)
(* differs from the one that was read.                                     *)
Changed(want, seen) ==
    [c \in {d \in DOMAIN want : want[d] # seen[d]} |-> want[c]]
NewRow(want) ==
    [c \in Columns |-> IF c \in DOMAIN want THEN want[c]
                       ELSE IF c = "exp" THEN Never ELSE Absent]

(* Mutant: a change of plan is not granted.                                *)
FaultyAfterWrite(j) == IF Grants(j) /\ j.seen = NoRow THEN "grant" ELSE "commit"
AfterWrite(j) == IF Grants(j) THEN "grant" ELSE "commit"

(* Flush of the ORM row: an UPDATE of the changed columns, or an INSERT,   *)
(* which fails when another transaction has inserted the row meanwhile.    *)
WriteRow(h) ==
    LET j == job[h] IN
    /\ j.pc = "write"
    /\ RowFree(h)
    /\ \/ /\ j.seen # NoRow
          /\ Becomes(h, [j EXCEPT !.draft = Changed(j.want, j.seen), !.pc = AfterWrite(j)])
       \/ /\ j.seen = NoRow /\ subscriptions[j.user] = NoRow
          /\ Becomes(h, [j EXCEPT !.draft = NewRow(j.want), !.pc = AfterWrite(j)])
       \/ /\ j.seen = NoRow /\ subscriptions[j.user] # NoRow
          /\ Becomes(h, Idle)
    /\ UNCHANGED tables /\ Untouched

(* INSERT ... ON CONFLICT (user_id) DO UPDATE of all columns.              *)
UpsertRow(h) ==
    LET j == job[h] IN
    /\ j.pc = "upsert"
    /\ RowFree(h)
    /\ Becomes(h, [j EXCEPT !.draft = j.want, !.pc = AfterWrite(j)])
    /\ UNCHANGED tables /\ Untouched

(* WalletService.grant: post once for the user and key; a replay posts     *)
(* nothing, a key used for another amount is a conflict.                   *)
Grant(h) ==
    LET j == job[h]
        g == GrantOf(j.call, j.sale)
        same == {e \in ledger : e.user = j.user /\ e.key = g.key}
    IN  /\ j.pc = "grant"
        /\ WalletFree(h)
        /\ \/ /\ g.amount > 0 /\ same = {}
              /\ Becomes(h, [j EXCEPT !.entry = EntryOf(j), !.pc = "commit"])
           \/ /\ \E e \in same : e.amount = g.amount
              /\ Becomes(h, [j EXCEPT !.pc = "commit"])
           \/ /\ g.amount <= 0 \/ \E e \in same : e.amount # g.amount
              /\ Becomes(h, Idle)
        /\ UNCHANGED tables /\ Untouched

(* Mutants: one transaction for all payments; a callback credits one       *)
(* payment and returns.                                                    *)
FaultyOneTransaction(j) ==
    IF j.todo = {} THEN [Idle EXCEPT !.listed = j.listed]
    ELSE [j EXCEPT !.pc = "next", !.sale = Absent, !.want = Absent]
FaultyReturnsEarly(j) ==
    IF j.todo = {} \/ j.sale # Absent THEN [Idle EXCEPT !.listed = j.listed]
    ELSE [Idle EXCEPT !.pc = "next", !.call = j.call, !.user = j.user,
                      !.listed = j.listed, !.todo = j.todo]

(* A callback goes on with the payments that are left, each in a           *)
(* transaction of its own; every other call ends.                          *)
NextPayment(j) ==
    IF j.todo = {} THEN [Idle EXCEPT !.listed = j.listed]
    ELSE [Idle EXCEPT !.pc = "next", !.call = j.call, !.user = j.user,
                      !.listed = j.listed, !.todo = j.todo]

(* Mutant: the UPDATE replaces the row by the changed columns.             *)
FaultyMerged(row, draft) == draft
Merged(row, draft) ==
    [c \in Columns |-> IF c \in DOMAIN draft THEN draft[c] ELSE row[c]]

Commit(h) ==
    LET j == job[h] IN
    /\ j.pc = "commit"
    /\ subscriptions' =
          IF j.draft = Absent THEN subscriptions
          ELSE [subscriptions EXCEPT ![j.user] = Merged(@, j.draft)]
    /\ ledger' = ledger \union ({j.entry} \ {Absent})
    /\ balance' = IF j.entry = Absent THEN balance
                  ELSE [balance EXCEPT ![j.user] = @ + j.entry.amount]
    /\ adapty_events' = adapty_events \union
          (IF Op(j.call) = "adapty" THEN {parse_event_id(Body(j.call))} ELSE {})
    /\ cp_events' = cp_events \union ({j.sale} \ {Absent})
    /\ answered' = answered \union (IF Op(j.call) = "adapty" THEN {j.call} ELSE {})
    /\ Becomes(h, IF Op(j.call) = "callback" THEN NextPayment(j) ELSE Idle)
    /\ Untouched

-----------------------------------------------------------------------------
(* The payments of the device, as the aggregator lists them now; those     *)
(* that may be credited are credited one by one.                           *)
Verify(h) ==
    LET x == parse_user_id(Body(job[h].call))
        data == {[Payment[s] EXCEPT !.paid_at = paid[s]] :
                    s \in {t \in Sales : Payment[t].device = x}}
        creditable == {p.payment_id :
                         p \in select_creditable_payments(data, Config.paid_statuses, now,
                                                          Config.freshness)}
    IN  /\ job[h].pc = "verify"
        /\ Becomes(h, NextPayment([job[h] EXCEPT !.listed = creditable,
                                                 !.todo = creditable]))
        /\ UNCHANGED tables /\ Untouched

(* One payment: skipped when its class or product is unknown, left alone   *)
(* when it was credited before, else recorded and credited.                *)
TakePayment(h, s) ==
    LET rest == [job[h] EXCEPT !.todo = @ \ {s}]
        exp == _compute_expiry(now, infer_interval_unit_from_code(Payment[s].product),
                               Config.period)
    IN  /\ job[h].pc = "next" /\ s \in job[h].todo
        /\ \/ /\ Skipped(s)
              /\ Becomes(h, NextPayment(rest))
           \/ /\ ~Skipped(s) /\ DeliveryFree(h, <<"payment", s>>)
              /\ s \in cp_events
              /\ Becomes(h, NextPayment(rest))
           \/ /\ ~Skipped(s) /\ DeliveryFree(h, <<"payment", s>>)
              /\ s \notin cp_events
              /\ Becomes(h,
                   IF KindOf(s) = "subscription"
                   THEN [rest EXCEPT !.sale = s, !.pc = "upsert",
                                     !.want = Row("active", Payment[s].product.code, exp)]
                   ELSE [rest EXCEPT !.sale = s, !.pc = "grant"])
        /\ UNCHANGED tables /\ Untouched

-----------------------------------------------------------------------------
(* The world around: a link, which the checkout sells only for a product   *)
(* it recognises, is paid; a device logs in to another account; time.      *)
validate_product(product) ==
    LET kind == classify_product(product, Absent, DOMAIN Config.tokenProducts)
    IN  /\ kind # "unknown"
        /\ kind = "tokens" => CreditsOr(Config.tokenProducts, product.code, 0) > 0

Pay(s) ==
    /\ paid[s] = Absent
    /\ validate_product(Payment[s].product)
    /\ paid' = [paid EXCEPT ![s] = now]
    /\ UNCHANGED <<now, device_user, tables, starts, job>>

Relogin(d, u) ==
    /\ device_user[d] # u
    /\ device_user' = [device_user EXCEPT ![d] = u]
    /\ UNCHANGED <<now, paid, tables, starts, job>>

Tick ==
    /\ now < MaxTime
    /\ now' = now + 1
    /\ UNCHANGED <<paid, device_user, tables, starts, job>>

Accept(h, c) ==
    \/ Sync(h, c) \/ Purchase(h, c) \/ AdminGrant(h, c) \/ AdminGrantSubscription(h, c)
    \/ Webhook(h, c) \/ Callback(h, c)

Step(h) ==
    \/ RecordEvent(h) \/ ReadRow(h) \/ WriteRow(h) \/ UpsertRow(h) \/ Grant(h) \/ Commit(h)
    \/ Verify(h) \/ \E s \in Sales : TakePayment(h, s)

Next ==
    \/ \E h \in Handlers, c \in Calls : Accept(h, c)
    \/ \E h \in Handlers : Step(h) \/ Fail(h)
    \/ \E s \in Sales : Pay(s)
    \/ \E d \in Devices, u \in Users : Relogin(d, u)
    \/ Tick

Spec == Init /\ [][Next]_vars

-----------------------------------------------------------------------------
(* Every table and every job keeps its type.                               *)
GrantKeys ==
    {"sub-grant", "token-purchase", "adapty-txn", "cp-txn", "admin", "admin-sub-grant"}

RowOK(r) ==
    /\ DOMAIN r = Columns
    /\ r.status \in {"active", "expired"}
    /\ r.exp \in Int \union {Never}

TypeOK ==
    /\ now \in 0..MaxTime /\ starts \in 0..MaxStarts
    /\ paid \in [Sales -> 0..MaxTime \union {Absent}]
    /\ device_user \in [Devices -> Users]
    /\ DOMAIN subscriptions = Users
    /\ \A u \in Users : subscriptions[u] = NoRow \/ RowOK(subscriptions[u])
    /\ \A e \in ledger : e.user \in Users /\ e.key[1] \in GrantKeys /\ e.amount \in Nat \ {0}
    /\ balance \in [Users -> Nat]
    /\ cp_events \subseteq Sales
    /\ answered \subseteq Calls
    /\ DOMAIN job = Handlers
    /\ \A h \in Handlers : job[h].pc \in {"idle", "record", "read", "write", "upsert",
                                          "grant", "commit", "verify", "next"}

(* A webhook that was answered "applied" or "duplicate" is not delivered   *)
(* again by a sender that honours the answer: its effect must be in the    *)
(* tables, whatever failed in between and whoever recorded the delivery.   *)
(* (AdaptyWebhookService._apply: record, write, grant in one transaction)  *)
AnsweredIsCredited ==
    \A c \in answered :
        /\ parse_event_id(Body(c)) \in adapty_events
        /\ classify_event(Body(c)) = "granting" =>
              \E e \in ledger : e.user = parse_customer_user_id(Body(c))
                                /\ e.key = AdaptyKey(c)

(* A payment is credited at most once and to one user, although callbacks  *)
(* repeat and overlap and its device may change hands between them; and it *)
(* is remembered exactly when it is credited.                              *)
(* (CloudPaymentsWebhookService._apply_payment)                            *)
PaymentCreditedOnce ==
    \A s \in Sales :
        LET credits == {e \in ledger : e.key = <<"cp-txn", s>>}
        IN  /\ Cardinality(credits) <= 1
            /\ s \in cp_events <=> credits # {}

(* However many granting events Adapty sends for a billing period, and in  *)
(* whatever order, the period is granted once to its user.                 *)
(* (AdaptyWebhookService._apply, _grant)                                   *)
OneGrantPerPeriod ==
    \A c \in {b \in Calls : Op(b) = "adapty" /\ Recognised(b)} :
        LET period == {b \in Calls :
                /\ Op(b) = "adapty" /\ Recognised(b)
                /\ PeriodOf(Body(b)) = PeriodOf(Body(c))
                /\ parse_customer_user_id(Body(b)) = parse_customer_user_id(Body(c))}
        IN  Cardinality({e \in ledger :
                /\ e.user = parse_customer_user_id(Body(c))
                /\ e.key \in {AdaptyKey(b) : b \in period}}) <= 1

(* Access and credits come together: a subscription becomes active only in *)
(* the transaction of a call that credits its period, or finds the period  *)
(* credited; a conflict or a failure after the row was written leaves no   *)
(* free access behind, also when two writers of the row overlap.  Only an  *)
(* operator may give access without credits.                               *)
(* (sync, _apply, _apply_payment, grant_subscription)                      *)
Active(row) == row.status = "active"
Credited(j, entries) ==
    LET g == GrantOf(j.call, j.sale) IN
    \/ \E e \in entries : e.user = j.user /\ e.key = g.key
    \/ Op(j.call) = "grant_subscription" /\ g.amount <= 0
ActivationIsGranted ==
    [][\A u \in Users :
         ~Active(subscriptions[u]) /\ Active(subscriptions'[u]) =>
            \E h \in Handlers : /\ HoldsRow(job[h], u)
                               /\ job[h].pc = "commit"
                               /\ Credited(job[h], ledger')]_vars

(* Rows are locked in one order, delivery, subscription, wallet, so that   *)
(* no two transactions wait for each other.                                *)
Waits(h, g) ==
    LET j == job[h]  k == job[g] IN
    \/ j.pc = "record" /\ HoldsDelivery(k, Delivery(j))
    \/ j.pc \in {"write", "upsert"} /\ HoldsRow(k, j.user)
    \/ j.pc = "grant" /\ HoldsWallet(k, j.user)
    \/ j.pc = "next" /\ \E s \in j.todo : HoldsDelivery(k, <<"payment", s>>)
NoWaitCycle ==
    \A h, g \in Handlers : h # g => ~(Waits(h, g) /\ Waits(g, h))

(* A callback that is done leaves none of the payments it verified behind: *)
(* one that was credited before, or is skipped, does not stop the rest.    *)
(* (CloudPaymentsWebhookService.handle)                                    *)
CallbackReconciles ==
    \A h \in Handlers : job[h].pc = "idle" =>
        \A s \in job[h].listed : Skipped(s) \/ s \in cp_events

(* The billing calls together are a credit ledger: whatever they do to the *)
(* entries and balances are steps of module Ledger, one entry at a time    *)
(* and never a key twice.  (Books!Spec, the entry that Books!Next posts    *)
(* named by what the step adds to the ledger.)                             *)
Callbacks == {c \in Calls : Op(c) = "callback"}
Posting ==
    {GrantOf(c, s) : c \in Callbacks, s \in Sales}
        \union {GrantOf(c, Absent) : c \in Calls \ Callbacks}
Books == INSTANCE Ledger WITH
    Users <- Users,
    Keys <- {g.key : g \in Posting},
    Metas <- {g.meta : g \in Posting},
    Amounts <- {g.amount : g \in Posting},
    balance <- balance,
    ledger <- ledger
PostsOne == \E e \in ledger' \ ledger : e \in Books!Entries /\ Books!Post(e)
IsLedger == Books!Init /\ [][PostsOne]_<<balance, ledger>>

(* What the calls, the listing and the settings hold: the users that the   *)
(* gateway has authenticated, whole numbers for amounts and days, the id   *)
(* of a payment, the length of a month, and event ids that name one event. *)
ASSUME RequestsAssumption ==
    \A c \in Calls :
        /\ Op(c) \in {"sync", "purchase", "adapty", "callback", "grant", "grant_subscription"}
        /\ Op(c) \in {"sync", "purchase"} => Request[c].user \in Users
        /\ Op(c) = "sync" => Jws(c).exp \in Int \union {Never}
        /\ Op(c) = "grant_subscription" =>
              IF Request[c].days # Absent THEN Request[c].days \in Int
              ELSE Request[c].exp \in Int
ASSUME AmountsAssumption == \A g \in Posting : g.amount \in Int
ASSUME EntriesAssumption == Absent \notin Books!Entries
ASSUME PaymentsAssumption ==
    \A s \in Sales : "payment_id" \in DOMAIN Payment[s]
                     /\ Payment[s].payment_id \in {s, Absent}
ASSUME PeriodsAssumption ==
    /\ "month" \in DOMAIN Config.period
    /\ \A unit \in DOMAIN Config.period : Config.period[unit] \in Int
ASSUME EventIdsAssumption ==
    \A b, c \in Calls :
        /\ Op(b) = "adapty" /\ Recognised(b)
        /\ Op(c) = "adapty" /\ Recognised(c)
        /\ parse_event_id(Body(b)) = parse_event_id(Body(c))
        => Body(b) = Body(c)
=============================================================================

--------------------------- MODULE BillingProofs ---------------------------
(***************************************************************************)
(* What the calls that bring in credits and subscriptions never do, for    *)
(* every number of handlers, users, calls and payments.  The invariant     *)
(* ties what a transaction holds (a delivery, a row, an entry that is not  *)
(* committed) to the place it is at, to what the tables contain and to     *)
(* what the other transactions hold.                                       *)
(***************************************************************************)
EXTENDS Billing, FiniteSetTheorems, TLAPS

Fields == {"pc", "call", "user", "seen", "want", "draft", "entry", "sale", "listed", "todo"}
Places ==
    {"idle", "record", "read", "write", "upsert", "grant", "commit", "verify", "next"}

IsAdapty(c) == c \in Calls /\ Op(c) = "adapty" /\ Recognised(c)
Granting(c) == classify_event(Body(c)) = "granting"

JobTyped(j) ==
    /\ DOMAIN j = Fields
    /\ j.pc \in Places
    /\ j.pc # "idle" => j.call \in Calls /\ j.user \in Users
    /\ j.listed \subseteq Sales
    /\ j.pc = "idle" => j.todo = {}

(* Which calls reach a place.                                              *)
PlaceOK(j) ==
    /\ j.pc = "record" => Op(j.call) = "adapty"
    /\ j.pc \in {"read", "write"} => Op(j.call) \in {"sync", "adapty"}
    /\ j.pc = "upsert" => Op(j.call) \in {"callback", "grant_subscription"}
    /\ j.pc \in {"verify", "next"} => Op(j.call) = "callback"
    /\ j.pc # "idle" /\ Op(j.call) = "adapty" =>
          Recognised(j.call) /\ j.user = parse_customer_user_id(Body(j.call))

(* A callback has a payment in hand from TakePayment to Commit, one that   *)
(* is worth credits and is not recorded yet.                               *)
HasSale(j) == j.pc \in {"upsert", "grant", "commit"} /\ Op(j.call) = "callback"
SaleOK(j) ==
    IF HasSale(j) THEN j.sale \in Sales /\ ~Skipped(j.sale) /\ j.sale \notin cp_events
    ELSE j.sale = Absent

(* The columns that a call means to write, and those that it has written.  *)
ColumnsOK(d) ==
    /\ DOMAIN d \subseteq Columns
    /\ "status" \in DOMAIN d => d.status \in {"active", "expired"}
    /\ "exp" \in DOMAIN d => d.exp \in Int \union {Never}
WantOK(j) ==
    j.pc \in {"read", "write", "upsert"} \/ j.draft # Absent =>
        /\ ColumnsOK(j.want) /\ "status" \in DOMAIN j.want
        /\ j.pc = "upsert" => DOMAIN j.want = Columns
        /\ Op(j.call) = "adapty" => (j.want.status = "active" <=> Granting(j.call))
SeenOK(j) == j.pc = "write" /\ j.seen # NoRow => subscriptions[j.user] # NoRow
DraftOK(j) ==
    j.draft # Absent =>
        /\ j.pc \in {"grant", "commit"}
        /\ ColumnsOK(j.draft)
        /\ DOMAIN j.draft = Columns \/ subscriptions[j.user] # NoRow
        /\ "status" \in DOMAIN j.draft => j.draft.status = j.want.status

(* The entry that a transaction has posted and not committed is the one    *)
(* its call grants, and no entry of its user has that key yet.             *)
EntryOK(j) ==
    j.entry # Absent =>
        /\ j.pc = "commit"
        /\ j.entry = EntryOf(j)
        /\ GrantOf(j.call, j.sale).amount > 0
        /\ ~Books!KeyPosted(j.user, GrantOf(j.call, j.sale).key)

(* No transaction that owes credits commits without them.                  *)
Owes(j) ==
    \/ Op(j.call) = "callback"
    \/ Op(j.call) = "adapty" /\ Granting(j.call)
    \/ j.draft # Absent /\ j.want.status = "active"
GrantedOK(j) ==
    j.pc = "commit" /\ Owes(j) => j.entry # Absent \/ Credited(j, ledger)

(* Every payment that a callback has verified is still to do, in hand, or  *)
(* dealt with.                                                             *)
ListedOK(j) ==
    \A s \in j.listed : s \in j.todo \/ s = j.sale \/ Skipped(s) \/ s \in cp_events

JobOK(j) ==
    /\ JobTyped(j) /\ PlaceOK(j) /\ SaleOK(j) /\ WantOK(j) /\ SeenOK(j) /\ DraftOK(j)
    /\ EntryOK(j) /\ GrantedOK(j) /\ ListedOK(j)

(* No payment is in the hands of two transactions, no wallet either.       *)
Apart(j, k) ==
    /\ j.sale = k.sale => j.sale = Absent
    /\ j.entry # Absent /\ k.entry # Absent => j.user # k.user

KeyOnce == \A e, f \in ledger : e.user = f.user /\ e.key = f.key => e = f

(* A payment is remembered exactly when it is credited, and credited once. *)
PaymentsOK ==
    /\ \A s \in cp_events : \E e \in ledger : e.key = <<"cp-txn", s>>
    /\ \A e \in ledger, s \in Sales : e.key = <<"cp-txn", s>> => s \in cp_events
    /\ \A e, f \in ledger, s \in Sales :
          e.key = <<"cp-txn", s>> /\ f.key = <<"cp-txn", s>> => e = f

(* An event that is remembered has been granted.                           *)
EventsOK ==
    \A c \in Calls :
        IsAdapty(c) /\ Granting(c) /\ parse_event_id(Body(c)) \in adapty_events =>
            Books!KeyPosted(parse_customer_user_id(Body(c)), AdaptyKey(c))
AnsweredOK ==
    \A c \in answered : IsAdapty(c) /\ parse_event_id(Body(c)) \in adapty_events

BInv ==
    /\ TypeOK
    /\ KeyOnce /\ PaymentsOK /\ EventsOK /\ AnsweredOK
    /\ \A h \in Handlers : JobOK(job[h])
    /\ \A h, g \in Handlers : h # g => Apart(job[h], job[g])

-----------------------------------------------------------------------------
(* What a call grants.                                                     *)

(* The key of a grant tells which kind of call it is from, and the key of  *)
(* a callback which payment it is for.                                     *)
LEMMA GrantShape ==
    ASSUME NEW c \in Calls, NEW s
    PROVE  /\ GrantOf(c, s).key[1] \in GrantKeys
           /\ \A x : GrantOf(c, s).key = <<"cp-txn", x>> => Op(c) = "callback" /\ x = s
           /\ Op(c) = "callback" =>
                 GrantOf(c, s).key = <<"cp-txn", s>> /\ GrantOf(c, s).amount = CreditsOf(s)
           /\ Op(c) = "adapty" => GrantOf(c, s).key = AdaptyKey(c)
<1>1. CASE Op(c) = "sync"
  BY <1>1 DEF GrantOf, GrantKeys
<1>2. CASE Op(c) = "purchase"
  BY <1>2 DEF GrantOf, GrantKeys
<1>3. CASE Op(c) = "adapty"
  BY <1>3 DEF GrantOf, GrantKeys, AdaptyKey
<1>4. CASE Op(c) = "callback"
  BY <1>4 DEF GrantOf, GrantKeys
<1>5. CASE Op(c) = "grant"
  BY <1>5 DEF GrantOf, GrantKeys
<1>6. CASE Op(c) = "grant_subscription"
  BY <1>6 DEF GrantOf, GrantKeys
<1>7. QED
  BY <1>1, <1>2, <1>3, <1>4, <1>5, <1>6, RequestsAssumption

(* The entry of a job is an entry of the abstract ledger, and one can tell *)
(* it from no entry.                                                       *)
LEMMA EntryFits ==
    ASSUME NEW j, JobTyped(j), SaleOK(j), j.pc \in {"grant", "commit"}
    PROVE  /\ GrantOf(j.call, j.sale).amount \in Int
           /\ EntryOf(j) \in Books!Entries
           /\ EntryOf(j) # Absent
           /\ EntryOf(j).user = j.user
           /\ EntryOf(j).kind = "credit"
           /\ EntryOf(j).key = GrantOf(j.call, j.sale).key
           /\ EntryOf(j).amount = GrantOf(j.call, j.sale).amount
<1> DEFINE g == GrantOf(j.call, j.sale)
<1>1. j.call \in Calls /\ j.user \in Users
  BY DEF JobTyped
<1>2. g \in Posting
  BY <1>1 DEF SaleOK, HasSale, Posting, Callbacks
<1>3. g.amount \in Int
  BY <1>2, AmountsAssumption
<1>4. EntryOf(j) = [user |-> j.user, key |-> g.key, kind |-> "credit",
                    amount |-> g.amount, meta |-> g.meta]
  BY DEF EntryOf
<1>5. EntryOf(j) \in Books!Entries
  <2>1. /\ g.key \in {x.key : x \in Posting}
        /\ g.meta \in {x.meta : x \in Posting}
        /\ g.amount \in {x.amount : x \in Posting}
    BY <1>2
  <2>2. QED
    BY <1>1, <1>4, <2>1 DEF Books!Entries, Books!Kinds
<1>6. EntryOf(j) # Absent
  BY <1>5, EntriesAssumption
<1>7. QED
  BY <1>3, <1>4, <1>5, <1>6

(* One event id, one event.                                                *)
LEMMA SameEvent ==
    ASSUME NEW b, IsAdapty(b), NEW c, IsAdapty(c),
           parse_event_id(Body(b)) = parse_event_id(Body(c))
    PROVE  /\ AdaptyKey(b) = AdaptyKey(c)
           /\ parse_customer_user_id(Body(b)) = parse_customer_user_id(Body(c))
           /\ Granting(b) <=> Granting(c)
<1>1. Body(b) = Body(c)
  BY EventIdsAssumption DEF IsAdapty
<1>2. QED
  BY <1>1 DEF AdaptyKey, Granting

-----------------------------------------------------------------------------
(* A step of one handler that leaves the tables alone.                     *)

(* What is said of a job depends on its record and three tables only.      *)
LEMMA JobKept ==
    ASSUME NEW h, NEW j, job'[h] = j, JobOK(j), UNCHANGED <<subscriptions, ledger, cp_events>>
    PROVE  JobOK(job[h])'
<1>1. JobTyped(job[h])' /\ PlaceOK(job[h])' /\ WantOK(job[h])'
  BY DEF JobOK, JobTyped, PlaceOK, WantOK
<1>2. SaleOK(job[h])' /\ SeenOK(job[h])' /\ DraftOK(job[h])' /\ ListedOK(job[h])'
  BY DEF JobOK, SaleOK, HasSale, SeenOK, DraftOK, ListedOK
<1>3. EntryOK(job[h])'
  BY DEF JobOK, EntryOK, EntryOf, Books!KeyPosted
<1>4. GrantedOK(job[h])'
  BY DEF JobOK, GrantedOK, Owes, Credited
<1>5. QED
  BY <1>1, <1>2, <1>3, <1>4 DEF JobOK

(* The invariant survives when the new record of the job is sound and      *)
(* holds nothing that another one holds.                                   *)
LEMMA JobStep ==
    ASSUME BInv, NEW h \in Handlers, NEW j, job' = [job EXCEPT ![h] = j], JobOK(j),
           \A g \in Handlers \ {h} : Apart(j, job[g]),
           UNCHANGED <<now, paid, device_user, subscriptions, ledger, balance,
                       adapty_events, cp_events>>,
           starts' \in 0..MaxStarts, answered' \subseteq Calls, AnsweredOK'
    PROVE  BInv'
<1> DEFINE Keeps(g) == job'[g] = IF g = h THEN j ELSE job[g]
<1>1. DOMAIN job = Handlers /\ DOMAIN job' = Handlers /\ \A g \in Handlers : Keeps(g)
  BY DEF BInv, TypeOK
<1>2. \A g \in Handlers : JobOK(job[g])'
  BY <1>1, JobKept DEF BInv
<1>3. \A f, g \in Handlers : f # g => Apart(job[f], job[g])'
  BY <1>1 DEF BInv, Apart
<1>4. TypeOK'
  BY <1>1 DEF BInv, TypeOK, RowOK, JobOK, JobTyped, Places
<1>5. KeyOnce' /\ PaymentsOK' /\ EventsOK'
  BY DEF BInv, KeyOnce, PaymentsOK, EventsOK, Books!KeyPosted
<1>6. QED
  BY <1>2, <1>3, <1>4, <1>5 DEF BInv

-----------------------------------------------------------------------------
(* The steps before the grant.                                             *)

(* A transaction without a payment or an entry keeps out of everybody's    *)
(* way.                                                                    *)
LEMMA HoldsNothing ==
    ASSUME NEW j, j.sale = Absent, j.entry = Absent
    PROVE  \A k : Apart(j, k)
BY DEF Apart

(* The record of an idle handler is sound.                                 *)
LEMMA IdleOK ==
    ASSUME NEW j, DOMAIN j = Fields, j.pc = "idle", j.sale = Absent, j.draft = Absent,
           j.entry = Absent, j.listed \subseteq Sales, j.todo = {}, ListedOK(j)
    PROVE  JobOK(j)
BY DEF JobOK, JobTyped, Places, PlaceOK, SaleOK, HasSale, WantOK, SeenOK, DraftOK, EntryOK,
       GrantedOK

(* Any call is accepted as a job at its first place.                       *)
LEMMA StartStep ==
    ASSUME BInv, NEW h \in Handlers, NEW c \in Calls, NEW pc, NEW u \in Users, NEW want,
           Start(h, c, pc, u, want),
           pc \in {"record", "read", "upsert", "grant", "verify"},
           pc = "record" => Op(c) = "adapty",
           pc = "read" => Op(c) = "sync",
           pc = "upsert" => Op(c) = "grant_subscription" /\ DOMAIN want = Columns,
           pc = "grant" => Op(c) \in {"purchase", "grant"},
           pc = "verify" => Op(c) = "callback",
           pc \in {"read", "upsert"} => ColumnsOK(want) /\ "status" \in DOMAIN want,
           Op(c) = "adapty" => Recognised(c) /\ u = parse_customer_user_id(Body(c))
    PROVE  BInv'
<1>1. PICK j : j = [Idle EXCEPT !.pc = pc, !.call = c, !.user = u, !.want = want]
  OBVIOUS
<1>2. /\ DOMAIN j = Fields /\ j.pc = pc /\ j.call = c /\ j.user = u /\ j.want = want
      /\ j.sale = Absent /\ j.draft = Absent /\ j.entry = Absent
      /\ j.listed = {} /\ j.seen = NoRow
  BY <1>1 DEF Idle, Fields
<1>3. /\ job' = [job EXCEPT ![h] = j]
      /\ starts' = starts + 1 /\ starts < MaxStarts
      /\ UNCHANGED <<now, paid, device_user, subscriptions, ledger, balance,
                     adapty_events, cp_events, answered>>
  BY <1>1 DEF Start, tables
<1>4. JobOK(j)
  <2>1. JobTyped(j) /\ PlaceOK(j)
    BY <1>2 DEF JobTyped, PlaceOK, Places
  <2>2. SaleOK(j) /\ SeenOK(j) /\ DraftOK(j) /\ EntryOK(j) /\ GrantedOK(j) /\ ListedOK(j)
    BY <1>2 DEF SaleOK, HasSale, SeenOK, DraftOK, EntryOK, GrantedOK, ListedOK
  <2>3. WantOK(j)
    BY <1>2 DEF WantOK
  <2>4. QED
    BY <2>1, <2>2, <2>3 DEF JobOK
<1>5. starts' \in 0..MaxStarts
  BY <1>3, BoundsAssumption DEF BInv, TypeOK
<1>6. answered' \subseteq Calls /\ AnsweredOK'
  BY <1>3 DEF BInv, TypeOK, AnsweredOK
<1>7. QED
  BY <1>2, <1>3, <1>4, <1>5, <1>6, HoldsNothing, JobStep

(* A row of a known status and a known end, or none.                       *)
LEMMA RowColumns ==
    ASSUME NEW status \in {"active", "expired"}, NEW plan, NEW exp \in Int \union {Never}
    PROVE  /\ DOMAIN Row(status, plan, exp) = Columns
           /\ ColumnsOK(Row(status, plan, exp))
           /\ Row(status, plan, exp).status = status
BY DEF Row, ColumnsOK, Columns

(* Every call is accepted in a job that meets the invariant.               *)
LEMMA AcceptStep ==
    ASSUME BInv, NEW h \in Handlers, NEW c \in Calls, Accept(h, c)
    PROVE  BInv'
<1>1. CASE Sync(h, c)
  <2>1. PICK status \in {"active", "expired"} :
            Start(h, c, "read", Request[c].user, Row(status, Jws(c).product, Jws(c).exp))
    BY <1>1 DEF Sync
  <2>2. Op(c) = "sync" /\ Request[c].user \in Users /\ Jws(c).exp \in Int \union {Never}
    BY <1>1, RequestsAssumption DEF Sync
  <2>3. PICK want : want = Row(status, Jws(c).product, Jws(c).exp)
    OBVIOUS
  <2>4. ColumnsOK(want) /\ "status" \in DOMAIN want
    <3>1. status \in {"active", "expired"} /\ Jws(c).exp \in Int \union {Never}
      BY <2>1, <2>2
    <3>2. ColumnsOK(Row(status, Jws(c).product, Jws(c).exp))
      BY <3>1, RowColumns
    <3>3. DOMAIN Row(status, Jws(c).product, Jws(c).exp) = Columns
      BY <3>1, RowColumns
    <3>4. QED
      BY <2>3, <3>2, <3>3 DEF Columns
  <2>5. Start(h, c, "read", Request[c].user, want)
    BY <2>1, <2>3
  <2>6. QED
    BY <2>2, <2>4, <2>5, StartStep
<1>2. CASE Purchase(h, c)
  BY <1>2, RequestsAssumption, StartStep DEF Purchase
<1>3. CASE AdminGrant(h, c)
  BY <1>3, StartStep DEF AdminGrant
<1>4. CASE AdminGrantSubscription(h, c)
  <2>1. Op(c) = "grant_subscription" /\ Request[c].user \in Users
    BY <1>4 DEF AdminGrantSubscription
  <2>2. PICK exp \in Int : Start(h, c, "upsert", Request[c].user,
                                 Row("active", Request[c].plan, exp))
    BY <1>4, <2>1, RequestsAssumption, BoundsAssumption
       DEF AdminGrantSubscription, BInv, TypeOK
  <2>3. QED
    BY <2>1, <2>2, RowColumns, StartStep DEF Columns
<1>5. CASE Webhook(h, c)
  BY <1>5, StartStep DEF Webhook, Recognised
<1>6. CASE Callback(h, c)
  <2>1. Resolve(parse_user_id(Body(c))) \in Users
    BY <1>6 DEF Callback, Resolve, BInv, TypeOK
  <2>2. QED
    BY <1>6, <2>1, StartStep DEF Callback
<1>7. QED
  BY <1>1, <1>2, <1>3, <1>4, <1>5, <1>6 DEF Accept

(* A failure rolls everything back.                                        *)
LEMMA FailStep ==
    ASSUME BInv, NEW h \in Handlers, Becomes(h, Idle), UNCHANGED tables, Untouched
    PROVE  BInv'
<1>1. PICK j : j = Idle
  OBVIOUS
<1>2. /\ DOMAIN j = Fields /\ j.pc = "idle" /\ j.sale = Absent /\ j.draft = Absent
      /\ j.entry = Absent /\ j.listed = {} /\ j.todo = {}
  BY <1>1 DEF Idle, Fields
<1>3. JobOK(j)
  BY <1>2, IdleOK DEF ListedOK
<1>4. /\ job' = [job EXCEPT ![h] = j]
      /\ UNCHANGED <<now, paid, device_user, subscriptions, ledger, balance,
                     adapty_events, cp_events, answered, starts>>
  BY <1>1 DEF Becomes, tables, Untouched
<1>5. /\ starts' \in 0..MaxStarts /\ answered' \subseteq Calls /\ AnsweredOK'
  BY <1>4 DEF BInv, TypeOK, AnsweredOK
<1>6. QED
  BY <1>2, <1>3, <1>4, <1>5, HoldsNothing, JobStep

-----------------------------------------------------------------------------
(* The row of the subscription.                                            *)

(* What a step on the row finds: a job with a call and a user, and no      *)
(* entry yet.                                                              *)
LEMMA AtPlace ==
    ASSUME BInv, NEW h \in Handlers, NEW k, k = job[h], k.pc # "idle"
    PROVE  /\ DOMAIN k = Fields /\ k.call \in Calls /\ k.user \in Users
           /\ JobOK(k)
           /\ k.pc # "commit" => k.entry = Absent
           /\ k.pc \notin {"grant", "commit"} => k.draft = Absent
           /\ \A g \in Handlers \ {h} : Apart(k, job[g])
BY DEF BInv, JobOK, JobTyped, EntryOK, DraftOK

(* An event is a duplicate, or goes on with the columns its kind asks      *)
(* for.                                                                    *)
LEMMA RecordEventStep ==
    ASSUME BInv, NEW h \in Handlers, RecordEvent(h)
    PROVE  BInv'
<1>1. PICK k : k = job[h]
  OBVIOUS
<1> DEFINE c == k.call
           id == parse_event_id(Body(c))
           semantics == classify_event(Body(c))
           want == IF semantics = "granting"
                   THEN Row("active", parse_vendor_product_id(Body(c)),
                            parse_expires_at(Body(c)))
                   ELSE [status |-> "expired"]
<1>2. k.pc = "record"
  BY <1>1 DEF RecordEvent
<1>3. /\ DOMAIN k = Fields /\ c \in Calls /\ k.user \in Users /\ JobOK(k)
      /\ k.entry = Absent /\ k.draft = Absent /\ IsAdapty(c)
      /\ k.user = parse_customer_user_id(Body(c))
      /\ k.sale = Absent
  BY <1>1, <1>2, AtPlace DEF JobOK, PlaceOK, SaleOK, HasSale, IsAdapty
<1>4. UNCHANGED <<now, paid, device_user, subscriptions, ledger, balance,
                  adapty_events, cp_events, starts>>
  BY DEF RecordEvent, Untouched
<1>5. starts' \in 0..MaxStarts
  BY <1>4 DEF BInv, TypeOK
<1>6. CASE /\ id \in adapty_events
           /\ answered' = answered \union {c}
           /\ Becomes(h, Idle)
  <2>1. PICK j : j = Idle
    OBVIOUS
  <2>2. /\ DOMAIN j = Fields /\ j.pc = "idle" /\ j.sale = Absent /\ j.draft = Absent
        /\ j.entry = Absent /\ j.listed = {} /\ j.todo = {}
    BY <2>1 DEF Idle, Fields
  <2>3. job' = [job EXCEPT ![h] = j]
    BY <1>6, <2>1 DEF Becomes
  <2>4. answered' \subseteq Calls /\ AnsweredOK'
    BY <1>3, <1>4, <1>6 DEF BInv, TypeOK, AnsweredOK
  <2>5. JobOK(j)
    BY <2>2, IdleOK DEF ListedOK
  <2>6. QED
    BY <1>4, <1>5, <2>2, <2>3, <2>4, <2>5, HoldsNothing, JobStep
<1>7. CASE /\ UNCHANGED answered
           /\ Becomes(h, [k EXCEPT !.want = want,
                             !.pc = IF semantics = "noop" THEN "commit" ELSE "read"])
  <2>1. PICK w : w = want
    OBVIOUS
  <2>2. PICK j : j = [k EXCEPT !.want = w,
                         !.pc = IF semantics = "noop" THEN "commit" ELSE "read"]
    OBVIOUS
  <2>3. /\ DOMAIN j = Fields /\ j.want = w
        /\ j.pc = IF semantics = "noop" THEN "commit" ELSE "read"
        /\ j.call = c /\ j.user = k.user /\ j.seen = k.seen /\ j.sale = k.sale
        /\ j.entry = k.entry /\ j.draft = k.draft /\ j.listed = k.listed /\ j.todo = k.todo
    BY <1>3, <2>2 DEF Fields
  <2>4. job' = [job EXCEPT ![h] = j]
    BY <1>7, <2>1, <2>2 DEF Becomes
  <2>5. answered' \subseteq Calls /\ AnsweredOK'
    BY <1>4, <1>7 DEF BInv, TypeOK, AnsweredOK
  <2>6. /\ ColumnsOK(w) /\ "status" \in DOMAIN w
        /\ w.status = "active" <=> Granting(c)
    <3>1. CASE semantics = "granting"
      <4>1. parse_expires_at(Body(c)) \in Int \union {Never}
        BY DEF parse_expires_at
      <4>2. QED
        BY <2>1, <3>1, <4>1, RowColumns DEF Columns, Granting
    <3>2. CASE semantics # "granting"
      BY <2>1, <3>2 DEF ColumnsOK, Columns, Granting
    <3>3. QED
      BY <3>1, <3>2
  <2>7. JobOK(j)
    <3>1. JobTyped(j) /\ PlaceOK(j)
      BY <1>2, <1>3, <2>3 DEF JobOK, JobTyped, PlaceOK, Places, IsAdapty
    <3>2. SaleOK(j) /\ SeenOK(j) /\ DraftOK(j) /\ EntryOK(j)
      BY <1>3, <2>3 DEF SaleOK, HasSale, SeenOK, DraftOK, EntryOK, IsAdapty
    <3>3. ListedOK(j)
      BY <1>3, <2>3 DEF JobOK, ListedOK
    <3>4. WantOK(j)
      BY <1>3, <2>3, <2>6 DEF WantOK
    <3>5. GrantedOK(j)
      BY <1>3, <2>3 DEF GrantedOK, Owes, Granting, IsAdapty
    <3>6. QED
      BY <3>1, <3>2, <3>3, <3>4, <3>5 DEF JobOK
  <2>8. QED
    BY <1>3, <1>4, <1>5, <2>3, <2>4, <2>5, <2>7, HoldsNothing, JobStep
<1>8. QED
  BY <1>1, <1>6, <1>7 DEF RecordEvent

(* A row that was seen is still there when it is written.                  *)
LEMMA ReadRowStep ==
    ASSUME BInv, NEW h \in Handlers, ReadRow(h)
    PROVE  BInv'
<1>1. PICK k : k = job[h]
  OBVIOUS
<1>2. PICK j : j = [k EXCEPT !.pc = "write", !.seen = subscriptions[k.user]]
  OBVIOUS
<1>3. k.pc = "read"
  BY <1>1 DEF ReadRow
<1>4. /\ DOMAIN k = Fields /\ k.call \in Calls /\ k.user \in Users /\ JobOK(k)
      /\ k.entry = Absent /\ k.draft = Absent /\ k.sale = Absent
  BY <1>1, <1>3, AtPlace DEF JobOK, SaleOK, HasSale
<1>5. /\ DOMAIN j = Fields /\ j.pc = "write" /\ j.seen = subscriptions[k.user]
      /\ j.call = k.call /\ j.user = k.user /\ j.want = k.want /\ j.sale = k.sale
      /\ j.entry = k.entry /\ j.draft = k.draft /\ j.listed = k.listed /\ j.todo = k.todo
  BY <1>2, <1>4 DEF Fields
<1>6. /\ job' = [job EXCEPT ![h] = j]
      /\ UNCHANGED <<now, paid, device_user, subscriptions, ledger, balance,
                     adapty_events, cp_events, answered, starts>>
  BY <1>1, <1>2 DEF ReadRow, Becomes, tables, Untouched
<1>7. starts' \in 0..MaxStarts /\ answered' \subseteq Calls /\ AnsweredOK'
  BY <1>6 DEF BInv, TypeOK, AnsweredOK
<1>8. JobOK(j)
  <2>1. JobTyped(j) /\ PlaceOK(j) /\ ListedOK(j)
    BY <1>3, <1>4, <1>5 DEF JobOK, JobTyped, PlaceOK, Places, ListedOK
  <2>2. SaleOK(j) /\ SeenOK(j) /\ DraftOK(j) /\ EntryOK(j) /\ GrantedOK(j)
    BY <1>4, <1>5 DEF SaleOK, HasSale, SeenOK, DraftOK, EntryOK, GrantedOK
  <2>3. WantOK(j)
    BY <1>3, <1>4, <1>5 DEF JobOK, WantOK
  <2>4. QED
    BY <2>1, <2>2, <2>3 DEF JobOK
<1>9. QED
  BY <1>4, <1>5, <1>6, <1>7, <1>8, HoldsNothing, JobStep

(* Only what differs from the row that was read is written, or, where      *)
(* there was none, a whole row.                                            *)
LEMMA ChangedColumns ==
    ASSUME NEW want, NEW seen, ColumnsOK(want), "status" \in DOMAIN want
    PROVE  /\ ColumnsOK(Changed(want, seen))
           /\ "status" \in DOMAIN Changed(want, seen) =>
                 Changed(want, seen).status = want.status
           /\ ColumnsOK(NewRow(want)) /\ DOMAIN NewRow(want) = Columns
           /\ NewRow(want).status = want.status
<1>1. /\ DOMAIN Changed(want, seen) \subseteq DOMAIN want
      /\ \A c \in DOMAIN Changed(want, seen) : Changed(want, seen)[c] = want[c]
  BY DEF Changed
<1>2. ColumnsOK(Changed(want, seen))
  BY <1>1 DEF ColumnsOK
<1>3. /\ DOMAIN NewRow(want) = Columns
      /\ NewRow(want).status = want.status
      /\ NewRow(want).exp = IF "exp" \in DOMAIN want THEN want.exp ELSE Never
  BY DEF NewRow, Columns
<1>4. ColumnsOK(NewRow(want))
  BY <1>3 DEF ColumnsOK
<1>5. QED
  BY <1>1, <1>2, <1>3, <1>4

(* A job that has written its row goes on to grant, unless it owes         *)
(* nothing.                                                                *)
LEMMA WrittenOwes ==
    ASSUME NEW k, JobOK(k), k.pc \in {"write", "upsert"},
           NEW j, JobTyped(j), SaleOK(j), j.call = k.call, j.user = k.user, j.sale = k.sale,
           j.want = k.want, j.pc = AfterWrite(k)
    PROVE  GrantedOK(j)
<1> SUFFICES ASSUME j.pc = "commit", Owes(j)
             PROVE  Credited(j, ledger)
  BY DEF GrantedOK
<1>1. ~Grants(k) /\ k.call \in Calls
  BY DEF AfterWrite, JobOK, JobTyped
<1>2. GrantOf(k.call, k.sale).amount \in Int
  BY EntryFits
<1>3. CASE Op(k.call) = "sync"
  BY <1>1, <1>3 DEF Grants, Owes
<1>4. CASE Op(k.call) = "adapty"
  BY <1>1, <1>4 DEF Grants, Owes, Granting, JobOK, WantOK
<1>5. CASE Op(k.call) = "callback"
  <2>1. GrantOf(k.call, k.sale).amount <= 0
    BY <1>1, <1>2, <1>5 DEF Grants
  <2>2. j.sale \in Sales /\ ~Skipped(j.sale)
    BY <1>5 DEF SaleOK, HasSale
  <2>3. QED
    BY <1>1, <1>2, <1>5, <2>1, <2>2, GrantShape DEF Skipped
<1>6. CASE Op(k.call) = "grant_subscription"
  BY <1>1, <1>2, <1>6 DEF Grants, Credited
<1>7. QED
  BY <1>3, <1>4, <1>5, <1>6 DEF JobOK, PlaceOK

(* The flush of a row, the columns of which are known.                     *)
LEMMA WrittenStep ==
    ASSUME BInv, NEW h \in Handlers, NEW k, k = job[h], k.pc \in {"write", "upsert"},
           NEW draft, ColumnsOK(draft),
           "status" \in DOMAIN draft => draft.status = k.want.status,
           DOMAIN draft = Columns \/ subscriptions[k.user] # NoRow,
           Becomes(h, [k EXCEPT !.draft = draft, !.pc = AfterWrite(k)]),
           UNCHANGED tables, Untouched
    PROVE  BInv'
<1>1. PICK j : j = [k EXCEPT !.draft = draft, !.pc = AfterWrite(k)]
  OBVIOUS
<1>2. /\ DOMAIN k = Fields /\ k.call \in Calls /\ k.user \in Users /\ JobOK(k)
      /\ k.entry = Absent /\ k.draft = Absent
      /\ \A g \in Handlers \ {h} : Apart(k, job[g])
  BY AtPlace
<1>3. /\ DOMAIN j = Fields /\ j.pc = AfterWrite(k) /\ j.draft = draft /\ j.seen = k.seen
      /\ j.call = k.call /\ j.user = k.user /\ j.want = k.want /\ j.sale = k.sale
      /\ j.entry = k.entry /\ j.listed = k.listed /\ j.todo = k.todo
  BY <1>1, <1>2 DEF Fields
<1>4. /\ job' = [job EXCEPT ![h] = j]
      /\ UNCHANGED <<now, paid, device_user, subscriptions, ledger, balance,
                     adapty_events, cp_events, answered, starts>>
  BY <1>1 DEF Becomes, tables, Untouched
<1>5. starts' \in 0..MaxStarts /\ answered' \subseteq Calls /\ AnsweredOK'
  BY <1>4 DEF BInv, TypeOK, AnsweredOK
<1>6. j.pc \in {"grant", "commit"}
  BY <1>3 DEF AfterWrite
<1>7. JobTyped(j) /\ PlaceOK(j) /\ ListedOK(j)
  BY <1>2, <1>3, <1>6 DEF JobOK, JobTyped, PlaceOK, Places, ListedOK
<1>8. SaleOK(j)
  BY <1>2, <1>3, <1>6 DEF JobOK, SaleOK, HasSale, PlaceOK
<1>9. SeenOK(j) /\ DraftOK(j) /\ EntryOK(j)
  BY <1>2, <1>3, <1>6 DEF SeenOK, DraftOK, EntryOK
<1>10. WantOK(j)
  BY <1>2, <1>3, <1>6 DEF JobOK, WantOK
<1>11. GrantedOK(j)
  BY <1>2, <1>3, <1>7, <1>8, WrittenOwes
<1>12. JobOK(j)
  BY <1>7, <1>8, <1>9, <1>10, <1>11 DEF JobOK
<1>13. \A g \in Handlers \ {h} : Apart(j, job[g])
  BY <1>2, <1>3 DEF Apart
<1>14. QED
  BY <1>4, <1>5, <1>12, <1>13, JobStep

(* An UPDATE of what changed, an INSERT of a whole row, or a conflict.     *)
LEMMA WriteRowStep ==
    ASSUME BInv, NEW h \in Handlers, WriteRow(h)
    PROVE  BInv'
<1>1. PICK k : k = job[h]
  OBVIOUS
<1>2. k.pc = "write" /\ UNCHANGED tables /\ Untouched
  BY <1>1 DEF WriteRow
<1>3. ColumnsOK(k.want) /\ "status" \in DOMAIN k.want /\ SeenOK(k)
  BY <1>1, <1>2, AtPlace DEF JobOK, WantOK
<1>4. CASE /\ k.seen # NoRow
           /\ Becomes(h, [k EXCEPT !.draft = Changed(k.want, k.seen), !.pc = AfterWrite(k)])
  <2>1. subscriptions[k.user] # NoRow
    BY <1>2, <1>3, <1>4 DEF SeenOK
  <2>2. QED
    BY <1>1, <1>2, <1>3, <1>4, <2>1, ChangedColumns, WrittenStep
<1>5. CASE /\ k.seen = NoRow
           /\ Becomes(h, [k EXCEPT !.draft = NewRow(k.want), !.pc = AfterWrite(k)])
  BY <1>1, <1>2, <1>3, <1>5, ChangedColumns, WrittenStep
<1>6. CASE Becomes(h, Idle)
  BY <1>2, <1>6, FailStep
<1>7. QED
  BY <1>1, <1>4, <1>5, <1>6 DEF WriteRow

(* The upsert writes a whole row.                                          *)
LEMMA UpsertRowStep ==
    ASSUME BInv, NEW h \in Handlers, UpsertRow(h)
    PROVE  BInv'
<1>1. PICK k : k = job[h]
  OBVIOUS
<1>2. /\ k.pc = "upsert" /\ UNCHANGED tables /\ Untouched
      /\ Becomes(h, [k EXCEPT !.draft = k.want, !.pc = AfterWrite(k)])
  BY <1>1 DEF UpsertRow
<1>3. ColumnsOK(k.want) /\ DOMAIN k.want = Columns
  BY <1>1, <1>2, AtPlace DEF JobOK, WantOK
<1>4. QED
  BY <1>1, <1>2, <1>3, WrittenStep

-----------------------------------------------------------------------------
(* The grant.                                                              *)

(* An entry that is posted is nobody else's and not in the ledger; a       *)
(* replay finds it there.                                                  *)
LEMMA GrantStep ==
    ASSUME BInv, NEW h \in Handlers, Grant(h)
    PROVE  BInv'
<1>1. PICK k : k = job[h]
  OBVIOUS
<1> DEFINE g == GrantOf(k.call, k.sale)
           same == {e \in ledger : e.user = k.user /\ e.key = g.key}
<1>2. k.pc = "grant" /\ UNCHANGED tables /\ Untouched
  BY <1>1 DEF Grant
<1>3. /\ DOMAIN k = Fields /\ k.call \in Calls /\ k.user \in Users /\ JobOK(k)
      /\ k.entry = Absent
      /\ \A o \in Handlers \ {h} : Apart(k, job[o])
  BY <1>1, <1>2, AtPlace
<1>4. UNCHANGED <<now, paid, device_user, subscriptions, ledger, balance,
                  adapty_events, cp_events, answered, starts>>
  BY <1>2 DEF tables, Untouched
<1>5. starts' \in 0..MaxStarts /\ answered' \subseteq Calls /\ AnsweredOK'
  BY <1>4 DEF BInv, TypeOK, AnsweredOK
<1>6. CASE g.amount > 0 /\ same = {} /\ Becomes(h, [k EXCEPT !.entry = EntryOf(k), !.pc = "commit"])
  <2>1. PICK j : j = [k EXCEPT !.entry = EntryOf(k), !.pc = "commit"]
    OBVIOUS
  <2>2. /\ DOMAIN j = Fields /\ j.pc = "commit" /\ j.entry = EntryOf(k) /\ j.draft = k.draft
        /\ j.call = k.call /\ j.user = k.user /\ j.want = k.want /\ j.sale = k.sale
        /\ j.seen = k.seen /\ j.listed = k.listed /\ j.todo = k.todo
    BY <1>3, <2>1 DEF Fields
  <2>3. job' = [job EXCEPT ![h] = j]
    BY <1>6, <2>1 DEF Becomes
  <2>4. EntryOf(j) = EntryOf(k)
    BY <2>2 DEF EntryOf
  <2>5. /\ JobTyped(j) /\ PlaceOK(j) /\ SaleOK(j) /\ ListedOK(j)
    BY <1>2, <1>3, <2>2 DEF JobOK, JobTyped, PlaceOK, SaleOK, HasSale, ListedOK, Places
  <2>6. WantOK(j) /\ SeenOK(j) /\ DraftOK(j)
    BY <1>2, <1>3, <2>2 DEF JobOK, WantOK, SeenOK, DraftOK
  <2>7. EntryOK(j)
    BY <1>6, <2>2, <2>4 DEF EntryOK, Books!KeyPosted
  <2>8. GrantedOK(j)
    BY <2>2, <2>4, <2>5, EntryFits DEF GrantedOK
  <2>9. JobOK(j)
    BY <2>5, <2>6, <2>7, <2>8 DEF JobOK
  <2>10. \A o \in Handlers \ {h} : job[o].user # k.user \/ job[o].entry = Absent
    BY <1>1 DEF Grant, WalletFree, Free, HoldsWallet
  <2>11. \A o \in Handlers \ {h} : Apart(j, job[o])
    BY <1>3, <2>2, <2>10 DEF Apart
  <2>12. QED
    BY <1>4, <1>5, <2>3, <2>9, <2>11, JobStep
<1>7. CASE (\E e \in same : e.amount = g.amount) /\ Becomes(h, [k EXCEPT !.pc = "commit"])
  <2>1. PICK j : j = [k EXCEPT !.pc = "commit"]
    OBVIOUS
  <2>2. /\ DOMAIN j = Fields /\ j.pc = "commit" /\ j.entry = k.entry /\ j.draft = k.draft
        /\ j.call = k.call /\ j.user = k.user /\ j.want = k.want /\ j.sale = k.sale
        /\ j.seen = k.seen /\ j.listed = k.listed /\ j.todo = k.todo
    BY <1>3, <2>1 DEF Fields
  <2>3. job' = [job EXCEPT ![h] = j]
    BY <1>7, <2>1 DEF Becomes
  <2>4. /\ JobTyped(j) /\ PlaceOK(j) /\ SaleOK(j) /\ ListedOK(j)
    BY <1>2, <1>3, <2>2 DEF JobOK, JobTyped, PlaceOK, SaleOK, HasSale, ListedOK, Places
  <2>5. WantOK(j) /\ SeenOK(j) /\ DraftOK(j) /\ EntryOK(j)
    BY <1>2, <1>3, <2>2 DEF JobOK, WantOK, SeenOK, DraftOK, EntryOK
  <2>6. GrantedOK(j)
    BY <1>7, <2>2 DEF GrantedOK, Credited
  <2>7. JobOK(j)
    BY <2>4, <2>5, <2>6 DEF JobOK
  <2>8. \A o \in Handlers \ {h} : Apart(j, job[o])
    BY <1>3, <2>2 DEF Apart
  <2>9. QED
    BY <1>4, <1>5, <2>3, <2>7, <2>8, JobStep
<1>8. CASE Becomes(h, Idle)
  BY <1>2, <1>8, FailStep
<1>9. QED
  BY <1>1, <1>6, <1>7, <1>8 DEF Grant

-----------------------------------------------------------------------------
(* The payments of a callback.                                             *)

(* What is left of a job when it turns to its next payment.                *)
LEMMA NextShape ==
    ASSUME NEW q, DOMAIN q = Fields, NEW j, j = NextPayment(q)
    PROVE  /\ DOMAIN j = Fields /\ j.pc \in {"idle", "next"}
           /\ j.sale = Absent /\ j.draft = Absent /\ j.entry = Absent
           /\ j.listed = q.listed /\ j.todo = q.todo
           /\ j.pc = "idle" => j.todo = {}
           /\ j.pc = "next" => j.call = q.call /\ j.user = q.user
BY DEF NextPayment, Idle, Fields

(* A callback between two payments is sound when none was forgotten.       *)
LEMMA NextOK ==
    ASSUME NEW q, DOMAIN q = Fields, q.call \in Calls, Op(q.call) = "callback",
           q.user \in Users, q.listed \subseteq Sales,
           \A s \in q.listed : s \in q.todo \/ Skipped(s) \/ s \in cp_events,
           NEW j, j = NextPayment(q)
    PROVE  JobOK(j)
<1>1. /\ DOMAIN j = Fields /\ j.pc \in {"idle", "next"}
      /\ j.sale = Absent /\ j.draft = Absent /\ j.entry = Absent
      /\ j.listed = q.listed /\ j.todo = q.todo
      /\ j.pc = "idle" => j.todo = {}
      /\ j.pc = "next" => j.call = q.call /\ j.user = q.user
  BY NextShape
<1>2. JobTyped(j) /\ PlaceOK(j)
  BY <1>1 DEF JobTyped, Places, PlaceOK
<1>3. SaleOK(j) /\ WantOK(j) /\ SeenOK(j) /\ DraftOK(j) /\ EntryOK(j) /\ GrantedOK(j)
  BY <1>1 DEF SaleOK, HasSale, WantOK, SeenOK, DraftOK, EntryOK, GrantedOK
<1>4. ListedOK(j)
  BY <1>1 DEF ListedOK
<1>5. QED
  BY <1>2, <1>3, <1>4 DEF JobOK

(* Everything that was verified is still to do.                            *)
LEMMA VerifyStep ==
    ASSUME BInv, NEW h \in Handlers, Verify(h)
    PROVE  BInv'
<1>1. PICK k : k = job[h]
  OBVIOUS
<1> DEFINE x == parse_user_id(Body(k.call))
           data == {[Payment[s] EXCEPT !.paid_at = paid[s]] :
                       s \in {t \in Sales : Payment[t].device = x}}
           creditable == {p.payment_id :
                            p \in select_creditable_payments(data, Config.paid_statuses, now,
                                                             Config.freshness)}
<1>2. /\ k.pc = "verify" /\ UNCHANGED tables /\ Untouched
      /\ Becomes(h, NextPayment([k EXCEPT !.listed = creditable, !.todo = creditable]))
  BY <1>1 DEF Verify
<1>3. /\ DOMAIN k = Fields /\ k.call \in Calls /\ k.user \in Users
      /\ Op(k.call) = "callback"
  BY <1>1, <1>2, AtPlace DEF JobOK, PlaceOK
<1>4. creditable \subseteq Sales
  <2>1. SUFFICES ASSUME NEW p \in data, p.payment_id # Absent
                 PROVE  p.payment_id \in Sales
    BY DEF select_creditable_payments
  <2>2. PICK s \in Sales : p = [Payment[s] EXCEPT !.paid_at = paid[s]]
    OBVIOUS
  <2>3. p.payment_id = Payment[s].payment_id
    BY <2>2, PaymentsAssumption
  <2>4. QED
    BY <2>1, <2>3, PaymentsAssumption
<1>5. PICK q : q = [k EXCEPT !.listed = creditable, !.todo = creditable]
  OBVIOUS
<1> HIDE DEF creditable
<1>6. /\ DOMAIN q = Fields /\ q.call = k.call /\ q.user = k.user
      /\ q.listed = creditable /\ q.todo = creditable
  BY <1>3, <1>5 DEF Fields
<1>7. PICK j : j = NextPayment(q)
  OBVIOUS
<1>8. JobOK(j) /\ j.sale = Absent /\ j.entry = Absent
  BY <1>3, <1>4, <1>6, <1>7, NextShape, NextOK
<1>9. /\ job' = [job EXCEPT ![h] = j]
      /\ UNCHANGED <<now, paid, device_user, subscriptions, ledger, balance,
                     adapty_events, cp_events, answered, starts>>
  BY <1>2, <1>5, <1>7 DEF Becomes, tables, Untouched
<1>10. starts' \in 0..MaxStarts /\ answered' \subseteq Calls /\ AnsweredOK'
  BY <1>9 DEF BInv, TypeOK, AnsweredOK
<1>11. QED
  BY <1>8, <1>9, <1>10, HoldsNothing, JobStep

(* A payment is skipped, was credited before, or is now in nobody else's   *)
(* hands.                                                                  *)
LEMMA TakePaymentStep ==
    ASSUME BInv, NEW h \in Handlers, NEW s \in Sales, TakePayment(h, s)
    PROVE  BInv'
<1>1. PICK k : k = job[h]
  OBVIOUS
<1>2. PICK rest : rest = [k EXCEPT !.todo = @ \ {s}]
  OBVIOUS
<1> DEFINE exp == _compute_expiry(now, infer_interval_unit_from_code(Payment[s].product),
                                  Config.period)
<1>3. /\ k.pc = "next" /\ s \in k.todo /\ UNCHANGED tables /\ Untouched
  BY <1>1 DEF TakePayment
<1>4. /\ DOMAIN k = Fields /\ k.call \in Calls /\ k.user \in Users /\ JobOK(k)
      /\ Op(k.call) = "callback" /\ k.entry = Absent /\ k.draft = Absent /\ k.sale = Absent
  BY <1>1, <1>3, AtPlace DEF JobOK, PlaceOK, SaleOK, HasSale
<1>5. /\ DOMAIN rest = Fields /\ rest.pc = "next" /\ rest.todo = k.todo \ {s}
      /\ rest.call = k.call /\ rest.user = k.user /\ rest.want = k.want
      /\ rest.sale = k.sale /\ rest.seen = k.seen
      /\ rest.entry = k.entry /\ rest.draft = k.draft /\ rest.listed = k.listed
  BY <1>2, <1>3, <1>4 DEF Fields
<1>6. UNCHANGED <<now, paid, device_user, subscriptions, ledger, balance,
                  adapty_events, cp_events, answered, starts>>
  BY <1>3 DEF tables, Untouched
<1>7. starts' \in 0..MaxStarts /\ answered' \subseteq Calls /\ AnsweredOK'
  BY <1>6 DEF BInv, TypeOK, AnsweredOK
<1>8. k.listed \subseteq Sales /\ ListedOK(k)
  BY <1>4 DEF JobOK, JobTyped
<1>9. CASE (Skipped(s) \/ s \in cp_events) /\ Becomes(h, NextPayment(rest))
  <2>1. PICK j : j = NextPayment(rest)
    OBVIOUS
  <2>2. \A t \in rest.listed : t \in rest.todo \/ Skipped(t) \/ t \in cp_events
    BY <1>4, <1>5, <1>8, <1>9, AbsentAssumption DEF ListedOK
  <2>3. JobOK(j) /\ j.sale = Absent /\ j.entry = Absent
    BY <1>4, <1>5, <1>8, <2>1, <2>2, NextShape, NextOK
  <2>4. job' = [job EXCEPT ![h] = j]
    BY <1>9, <2>1 DEF Becomes
  <2>5. QED
    BY <1>6, <1>7, <2>3, <2>4, HoldsNothing, JobStep
<1>10. ASSUME ~Skipped(s), s \notin cp_events, DeliveryFree(h, <<"payment", s>>),
              NEW j, job' = [job EXCEPT ![h] = j],
              DOMAIN j = Fields, j.sale = s, j.todo = rest.todo, j.listed = k.listed,
              j.call = k.call, j.user = k.user, j.draft = Absent, j.entry = Absent,
              \/ j.pc = "grant"
              \/ j.pc = "upsert" /\ ColumnsOK(j.want) /\ DOMAIN j.want = Columns
       PROVE  BInv'
  <2>1. JobTyped(j) /\ PlaceOK(j) /\ SaleOK(j)
    BY <1>4, <1>8, <1>10 DEF JobTyped, Places, PlaceOK, SaleOK, HasSale
  <2>2. WantOK(j)
    BY <1>4, <1>10 DEF WantOK, Columns
  <2>3. SeenOK(j) /\ DraftOK(j) /\ EntryOK(j) /\ GrantedOK(j)
    BY <1>10 DEF SeenOK, DraftOK, EntryOK, GrantedOK
  <2>4. ListedOK(j)
    BY <1>4, <1>5, <1>8, <1>10, AbsentAssumption DEF ListedOK
  <2>5. JobOK(j)
    BY <2>1, <2>2, <2>3, <2>4 DEF JobOK
  <2>6. ASSUME NEW g \in Handlers \ {h}
        PROVE  job[g].sale # s
    <3>1. SUFFICES ASSUME job[g].sale = s
                   PROVE  FALSE
      OBVIOUS
    <3>2. JobTyped(job[g]) /\ SaleOK(job[g])
      BY DEF BInv, JobOK
    <3>3. HasSale(job[g]) /\ job[g].call \in Calls
      BY <3>1, <3>2, AbsentAssumption DEF SaleOK, HasSale, JobTyped
    <3>4. Delivery(job[g]) = <<"payment", s>>
      BY <3>1, <3>3, AbsentAssumption DEF Delivery, HasSale
    <3>5. ~HoldsDelivery(job[g], <<"payment", s>>)
      BY <1>10 DEF DeliveryFree, Free
    <3>6. QED
      BY <3>3, <3>4, <3>5 DEF HoldsDelivery, HasSale
  <2>7. \A g \in Handlers \ {h} : Apart(j, job[g])
    BY <1>10, <2>6 DEF Apart
  <2>8. QED
    BY <1>6, <1>7, <1>10, <2>5, <2>7, JobStep
<1>11. CASE /\ ~Skipped(s) /\ DeliveryFree(h, <<"payment", s>>) /\ s \notin cp_events
            /\ Becomes(h, [rest EXCEPT !.sale = s, !.pc = "upsert",
                              !.want = Row("active", Payment[s].product.code, exp)])
  <2>1. PICK want : want = Row("active", Payment[s].product.code, exp)
    OBVIOUS
  <2>2. PICK j : j = [rest EXCEPT !.sale = s, !.pc = "upsert", !.want = want]
    OBVIOUS
  <2>3. exp \in Int
    BY PeriodsAssumption, BoundsAssumption DEF _compute_expiry, BInv, TypeOK
  <2>4. ColumnsOK(want) /\ DOMAIN want = Columns
    BY <2>1, <2>3, RowColumns
  <2>5. /\ DOMAIN j = Fields /\ j.pc = "upsert" /\ j.sale = s /\ j.want = want
        /\ j.call = rest.call /\ j.user = rest.user /\ j.todo = rest.todo
        /\ j.entry = rest.entry /\ j.draft = rest.draft /\ j.listed = rest.listed
    BY <1>5, <2>2 DEF Fields
  <2>6. job' = [job EXCEPT ![h] = j]
    BY <1>11, <2>1, <2>2 DEF Becomes
  <2>7. QED
    BY <1>4, <1>5, <1>10, <1>11, <2>4, <2>5, <2>6
<1>12. CASE /\ ~Skipped(s) /\ DeliveryFree(h, <<"payment", s>>) /\ s \notin cp_events
            /\ Becomes(h, [rest EXCEPT !.sale = s, !.pc = "grant"])
  <2>1. PICK j : j = [rest EXCEPT !.sale = s, !.pc = "grant"]
    OBVIOUS
  <2>2. /\ DOMAIN j = Fields /\ j.pc = "grant" /\ j.sale = s
        /\ j.call = rest.call /\ j.user = rest.user /\ j.todo = rest.todo
        /\ j.entry = rest.entry /\ j.draft = rest.draft /\ j.listed = rest.listed
    BY <1>5, <2>1 DEF Fields
  <2>3. job' = [job EXCEPT ![h] = j]
    BY <1>12, <2>1 DEF Becomes
  <2>4. QED
    BY <1>4, <1>5, <1>10, <1>12, <2>2, <2>3
<1>13. QED
  BY <1>1, <1>2, <1>9, <1>11, <1>12 DEF TakePayment

-----------------------------------------------------------------------------
(* The steps of the world around leave calls and tables alone.             *)
LEMMA WorldStep ==
    ASSUME BInv, TypeOK', UNCHANGED <<tables, job>>
    PROVE  BInv'
<1>1. UNCHANGED <<subscriptions, ledger, adapty_events, cp_events, answered, job>>
  BY DEF tables
<1>2. \A h \in Handlers : JobOK(job[h])'
  BY <1>1, JobKept DEF BInv
<1>3. \A h, g \in Handlers : h # g => Apart(job[h], job[g])'
  BY <1>1 DEF BInv, Apart
<1>4. KeyOnce' /\ PaymentsOK' /\ EventsOK' /\ AnsweredOK'
  BY <1>1 DEF BInv, KeyOnce, PaymentsOK, EventsOK, AnsweredOK, Books!KeyPosted
<1>5. QED
  BY <1>2, <1>3, <1>4 DEF BInv

(* A payment, a login, the clock.                                          *)
LEMMA WorldSteps ==
    ASSUME BInv, (\E s \in Sales : Pay(s)) \/ (\E d \in Devices, u \in Users : Relogin(d, u))
                 \/ Tick \/ UNCHANGED vars
    PROVE  BInv'
<1>1. CASE \E s \in Sales : Pay(s)
  <2>1. UNCHANGED <<now, device_user, tables, starts, job>>
    BY <1>1 DEF Pay
  <2>2. paid' \in [Sales -> 0..MaxTime \union {Absent}]
    BY <1>1 DEF Pay, BInv, TypeOK
  <2>3. TypeOK'
    BY <2>1, <2>2 DEF tables, BInv, TypeOK, RowOK
  <2>4. QED
    BY <2>1, <2>3, WorldStep
<1>2. CASE \E d \in Devices, u \in Users : Relogin(d, u)
  <2>1. UNCHANGED <<now, paid, tables, starts, job>>
    BY <1>2 DEF Relogin
  <2>2. device_user' \in [Devices -> Users]
    BY <1>2 DEF Relogin, BInv, TypeOK
  <2>3. TypeOK'
    BY <2>1, <2>2 DEF tables, BInv, TypeOK, RowOK
  <2>4. QED
    BY <2>1, <2>3, WorldStep
<1>3. CASE Tick
  <2>1. UNCHANGED <<paid, device_user, tables, starts, job>>
    BY <1>3 DEF Tick
  <2>2. now' \in 0..MaxTime
    BY <1>3, BoundsAssumption DEF Tick, BInv, TypeOK
  <2>3. TypeOK'
    BY <2>1, <2>2 DEF tables, BInv, TypeOK, RowOK
  <2>4. QED
    BY <2>1, <2>3, WorldStep
<1>4. CASE UNCHANGED vars
  <2>1. UNCHANGED <<now, paid, device_user, tables, starts, job>>
    BY <1>4 DEF vars
  <2>2. TypeOK'
    BY <2>1 DEF tables, BInv, TypeOK, RowOK
  <2>3. QED
    BY <2>1, <2>2, WorldStep
<1>5. QED
  BY <1>1, <1>2, <1>3, <1>4

-----------------------------------------------------------------------------
(* The commit, which makes everything that was held visible at once.       *)

(* What a transaction holds when it commits.                               *)
LEMMA AtCommit ==
    ASSUME BInv, NEW h \in Handlers, Commit(h), NEW k, k = job[h]
    PROVE  /\ k.pc = "commit" /\ DOMAIN k = Fields /\ k.call \in Calls /\ k.user \in Users
           /\ JobOK(k)
           /\ \A g \in Handlers \ {h} : Apart(k, job[g])
           /\ UNCHANGED <<now, paid, device_user, starts>>
           /\ subscriptions' = IF k.draft = Absent THEN subscriptions
                               ELSE [subscriptions EXCEPT ![k.user] = Merged(@, k.draft)]
           /\ ledger' = ledger \union ({k.entry} \ {Absent})
           /\ balance' = IF k.entry = Absent THEN balance
                         ELSE [balance EXCEPT ![k.user] = @ + k.entry.amount]
           /\ adapty_events' = adapty_events \union
                (IF Op(k.call) = "adapty" THEN {parse_event_id(Body(k.call))} ELSE {})
           /\ cp_events' = cp_events \union ({k.sale} \ {Absent})
           /\ answered' = answered \union (IF Op(k.call) = "adapty" THEN {k.call} ELSE {})
           /\ job' = [job EXCEPT ![h] =
                        IF Op(k.call) = "callback" THEN NextPayment(k) ELSE Idle]
<1>1. k.pc = "commit"
  BY DEF Commit
<1>2. /\ DOMAIN k = Fields /\ k.call \in Calls /\ k.user \in Users /\ JobOK(k)
      /\ \A g \in Handlers \ {h} : Apart(k, job[g])
  BY <1>1, AtPlace
<1>3. UNCHANGED <<now, paid, device_user, starts>>
  BY DEF Commit, Untouched
<1>4. QED
  BY <1>1, <1>2, <1>3 DEF Commit, Becomes

(* The rows after a commit: no row is lost, and all are well formed.       *)
LEMMA CommitRows ==
    ASSUME BInv, NEW h \in Handlers, Commit(h)
    PROVE  /\ DOMAIN subscriptions' = Users
           /\ \A u \in Users : subscriptions'[u] = NoRow \/ RowOK(subscriptions'[u])
           /\ \A u \in Users : subscriptions[u] # NoRow => subscriptions'[u] # NoRow
<1>1. PICK k : k = job[h]
  OBVIOUS
<1>2. /\ k.user \in Users /\ DraftOK(k)
      /\ subscriptions' = IF k.draft = Absent THEN subscriptions
                          ELSE [subscriptions EXCEPT ![k.user] = Merged(@, k.draft)]
  BY <1>1, AtCommit DEF JobOK
<1>3. /\ DOMAIN subscriptions = Users
      /\ \A u \in Users : subscriptions[u] = NoRow \/ RowOK(subscriptions[u])
  BY DEF BInv, TypeOK
<1>4. CASE k.draft = Absent
  BY <1>2, <1>3, <1>4
<1>5. CASE k.draft # Absent
  <2>1. PICK row : row = Merged(subscriptions[k.user], k.draft)
    OBVIOUS
  <2>2. /\ DOMAIN subscriptions' = Users
        /\ \A u \in Users : subscriptions'[u] = IF u = k.user THEN row ELSE subscriptions[u]
    BY <1>2, <1>3, <1>5, <2>1
  <2>3. /\ DOMAIN row = Columns
        /\ \A c \in Columns : row[c] = IF c \in DOMAIN k.draft THEN k.draft[c]
                                       ELSE subscriptions[k.user][c]
    BY <2>1 DEF Merged
  <2>4. RowOK(row)
    BY <1>2, <1>3, <1>5, <2>3 DEF DraftOK, ColumnsOK, RowOK, Columns
  <2>5. row # NoRow
    BY <2>4 DEF RowOK, NoRow, Row
  <2>6. QED
    BY <1>3, <2>2, <2>4, <2>5
<1>6. QED
  BY <1>4, <1>5

(* A commit posts at most one entry, with a key that its user has not      *)
(* used; the entry and its credits appear together.                        *)
LEMMA CommitPosts ==
    ASSUME BInv, NEW h \in Handlers, Commit(h), NEW k, k = job[h]
    PROVE  \/ k.entry = Absent /\ UNCHANGED <<ledger, balance>>
           \/ /\ k.entry = EntryOf(k) /\ k.entry # Absent
              /\ k.entry \in Books!Entries
              /\ k.entry.user = k.user /\ k.entry.kind = "credit"
              /\ k.entry.key = GrantOf(k.call, k.sale).key
              /\ k.entry.amount \in Nat \ {0}
              /\ ~Books!KeyPosted(k.user, k.entry.key)
              /\ ledger' = ledger \union {k.entry}
              /\ balance' = [balance EXCEPT ![k.user] = @ + k.entry.amount]
<1>1. k.pc = "commit" /\ JobTyped(k) /\ SaleOK(k) /\ EntryOK(k)
  BY AtCommit DEF JobOK
<1>2. /\ ledger' = ledger \union ({k.entry} \ {Absent})
      /\ balance' = IF k.entry = Absent THEN balance
                    ELSE [balance EXCEPT ![k.user] = @ + k.entry.amount]
  BY AtCommit
<1>3. CASE k.entry = Absent
  BY <1>2, <1>3
<1>4. CASE k.entry # Absent
  <2>1. /\ k.entry = EntryOf(k)
        /\ GrantOf(k.call, k.sale).amount > 0
        /\ ~Books!KeyPosted(k.user, GrantOf(k.call, k.sale).key)
    BY <1>1, <1>4 DEF EntryOK
  <2>2. /\ EntryOf(k) \in Books!Entries /\ EntryOf(k) # Absent
        /\ EntryOf(k).user = k.user /\ EntryOf(k).kind = "credit"
        /\ EntryOf(k).key = GrantOf(k.call, k.sale).key
        /\ EntryOf(k).amount = GrantOf(k.call, k.sale).amount
        /\ GrantOf(k.call, k.sale).amount \in Int
    BY <1>1, EntryFits
  <2>3. k.entry.amount \in Nat \ {0}
    BY <2>1, <2>2
  <2>4. ledger' = ledger \union {k.entry}
    BY <1>2, <1>4
  <2>5. QED
    BY <1>2, <1>4, <2>1, <2>2, <2>3, <2>4
<1>5. QED
  BY <1>3, <1>4

(* A callback commits the payment in its hands together with its credits.  *)
LEMMA CommitPays ==
    ASSUME BInv, NEW h \in Handlers, Commit(h), NEW k, k = job[h], Op(k.call) = "callback"
    PROVE  /\ k.sale \in Sales /\ k.sale # Absent /\ k.sale \notin cp_events
           /\ k.entry # Absent /\ GrantOf(k.call, k.sale).key = <<"cp-txn", k.sale>>
<1>1. k.pc = "commit" /\ k.call \in Calls /\ SaleOK(k) /\ GrantedOK(k)
  BY AtCommit DEF JobOK
<1>2. k.sale \in Sales /\ k.sale # Absent /\ k.sale \notin cp_events
  BY <1>1, AbsentAssumption DEF SaleOK, HasSale
<1>3. GrantOf(k.call, k.sale).key = <<"cp-txn", k.sale>>
  BY <1>1, GrantShape
<1>4. ~Credited(k, ledger)
  BY <1>2, <1>3 DEF Credited, BInv, PaymentsOK
<1>5. k.entry # Absent
  BY <1>1, <1>4 DEF GrantedOK, Owes
<1>6. QED
  BY <1>2, <1>3, <1>5

(* A commit keeps deliveries and ledger in step.                           *)
LEMMA CommitTables ==
    ASSUME BInv, NEW h \in Handlers, Commit(h)
    PROVE  KeyOnce' /\ PaymentsOK' /\ EventsOK' /\ AnsweredOK' /\ answered' \subseteq Calls
<1>1. PICK k : k = job[h]
  OBVIOUS
<1>2. /\ k.pc = "commit" /\ k.call \in Calls /\ k.user \in Users /\ JobOK(k)
      /\ adapty_events' = adapty_events \union
           (IF Op(k.call) = "adapty" THEN {parse_event_id(Body(k.call))} ELSE {})
      /\ cp_events' = cp_events \union ({k.sale} \ {Absent})
      /\ answered' = answered \union (IF Op(k.call) = "adapty" THEN {k.call} ELSE {})
  BY <1>1, AtCommit
<1> DEFINE key == GrantOf(k.call, k.sale).key
<1>3. \/ k.entry = Absent /\ ledger' = ledger
      \/ /\ k.entry # Absent /\ k.entry.user = k.user /\ k.entry.key = key
         /\ ~Books!KeyPosted(k.user, key) /\ ledger' = ledger \union {k.entry}
  BY <1>1, CommitPosts
<1>4. KeyOnce'
  BY <1>3 DEF BInv, KeyOnce, Books!KeyPosted
<1>5. PaymentsOK'
  <2>1. CASE Op(k.call) = "callback"
    <3>1. /\ k.sale \in Sales /\ k.sale # Absent /\ k.sale \notin cp_events
          /\ k.entry # Absent /\ key = <<"cp-txn", k.sale>>
      BY <1>1, <2>1, CommitPays
    <3>2. cp_events' = cp_events \union {k.sale} /\ ledger' = ledger \union {k.entry}
      BY <1>2, <1>3, <3>1
    <3>3. k.entry.key = <<"cp-txn", k.sale>>
      BY <1>3, <3>1
    <3>4. \A e \in ledger : e.key # <<"cp-txn", k.sale>>
      BY <3>1 DEF BInv, PaymentsOK
    <3>5. QED
      BY <3>2, <3>3, <3>4 DEF BInv, PaymentsOK
  <2>2. CASE Op(k.call) # "callback"
    <3>1. cp_events' = cp_events
      <4>1. SaleOK(k)
        BY <1>2 DEF JobOK
      <4>2. k.sale = Absent
        BY <2>2, <4>1 DEF SaleOK, HasSale
      <4> QED
        BY <1>2, <4>2
    <3>2. \A s : key # <<"cp-txn", s>>
      BY <1>2, <2>2, GrantShape
    <3>3. CASE ledger' = ledger
      BY <3>1, <3>3 DEF BInv, PaymentsOK
    <3>4. CASE ledger' = ledger \union {k.entry} /\ k.entry.key = key
      <4>1. \A s : k.entry.key # <<"cp-txn", s>>
        BY <3>2, <3>4
      <4> QED
        BY <3>1, <3>4, <4>1 DEF BInv, PaymentsOK
    <3>5. QED
      BY <1>3, <3>3, <3>4
  <2>3. QED
    BY <2>1, <2>2
<1>6. ledger \subseteq ledger'
  BY <1>3
<1>7. EventsOK'
  <2>1. SUFFICES ASSUME NEW c \in Calls, IsAdapty(c), Granting(c),
                        parse_event_id(Body(c)) \in adapty_events'
                 PROVE  \E e \in ledger' : e.user = parse_customer_user_id(Body(c))
                                           /\ e.key = AdaptyKey(c)
    <3>1. \A c \in Calls : IsAdapty(c)' = IsAdapty(c) /\ Granting(c)' = Granting(c)
      BY DEF IsAdapty, Granting, Recognised, Op, Body
    <3>2. QED
      BY <2>1, <3>1 DEF EventsOK, Books!KeyPosted, IsAdapty, Granting
  <2>2. CASE parse_event_id(Body(c)) \in adapty_events
    BY <1>6, <2>1, <2>2 DEF BInv, EventsOK, Books!KeyPosted
  <2>3. CASE parse_event_id(Body(c)) \notin adapty_events
    <3>1. Op(k.call) = "adapty" /\ parse_event_id(Body(c)) = parse_event_id(Body(k.call))
      BY <1>2, <2>1, <2>3
    <3>2. IsAdapty(k.call) /\ k.user = parse_customer_user_id(Body(k.call))
      BY <1>2, <3>1 DEF JobOK, PlaceOK, IsAdapty
    <3>3. /\ AdaptyKey(k.call) = AdaptyKey(c) /\ Granting(k.call)
          /\ k.user = parse_customer_user_id(Body(c))
      BY <2>1, <3>1, <3>2, SameEvent
    <3>4. key = AdaptyKey(c)
      BY <1>2, <3>1, <3>3, GrantShape
    <3>5. k.entry # Absent \/ Credited(k, ledger)
      BY <1>2, <3>1, <3>3 DEF JobOK, GrantedOK, Owes
    <3>6. CASE k.entry # Absent
      BY <1>3, <3>3, <3>4, <3>6
    <3>7. CASE Credited(k, ledger)
      BY <1>6, <3>1, <3>3, <3>4, <3>7 DEF Credited
    <3>8. QED
      BY <3>5, <3>6, <3>7
  <2>4. QED
    BY <2>2, <2>3
<1>8. AnsweredOK' /\ answered' \subseteq Calls
  <2>1. Op(k.call) = "adapty" => IsAdapty(k.call)
    BY <1>2 DEF JobOK, PlaceOK, IsAdapty
  <2>2. QED
    BY <1>2, <2>1 DEF BInv, TypeOK, AnsweredOK
<1>9. QED
  BY <1>4, <1>5, <1>7, <1>8

(* The others go on as they were: what they hold is not what was committed.*)
LEMMA CommitOthers ==
    ASSUME BInv, NEW h \in Handlers, Commit(h), NEW g \in Handlers \ {h}
    PROVE  job'[g] = job[g] /\ JobOK(job[g])'
<1>1. PICK k : k = job[h]
  OBVIOUS
<1>2. PICK j : j = job[g]
  OBVIOUS
<1>3. JobOK(j) /\ Apart(k, j)
  BY <1>1, <1>2, AtCommit DEF BInv
<1>4. job'[g] = j
  BY <1>1, <1>2, AtCommit DEF BInv, TypeOK
<1>5. cp_events' = cp_events \union ({k.sale} \ {Absent})
  BY <1>1, AtCommit
<1>6. \/ ledger' = ledger
      \/ /\ k.entry # Absent /\ k.entry.user = k.user
         /\ ledger' = ledger \union {k.entry}
  BY <1>1, CommitPosts
<1>7. \A u \in Users : subscriptions[u] # NoRow => subscriptions'[u] # NoRow
  BY CommitRows
<1>8. JobTyped(job[g])' /\ PlaceOK(job[g])' /\ WantOK(job[g])'
  BY <1>3, <1>4 DEF JobOK, JobTyped, PlaceOK, WantOK
<1>9. SaleOK(job[g])'
  BY <1>3, <1>4, <1>5, AbsentAssumption DEF JobOK, SaleOK, HasSale, Apart
<1>10. SeenOK(job[g])' /\ DraftOK(job[g])'
  BY <1>3, <1>4, <1>7 DEF JobOK, JobTyped, SeenOK, DraftOK
<1>11. EntryOK(job[g])'
  <2>1. SUFFICES ASSUME j.entry # Absent
                 PROVE  EntryOK(job[g])'
    BY <1>4 DEF EntryOK
  <2>2. /\ j.pc = "commit" /\ j.entry = EntryOf(j)
        /\ GrantOf(j.call, j.sale).amount > 0
        /\ ~Books!KeyPosted(j.user, GrantOf(j.call, j.sale).key)
    BY <1>3, <2>1 DEF JobOK, EntryOK
  <2>3. \A e \in ledger' : e.user = j.user => e \in ledger
    BY <1>3, <1>6, <2>1 DEF Apart
  <2>4. ~ \E e \in ledger' : e.user = j.user /\ e.key = GrantOf(j.call, j.sale).key
    BY <2>2, <2>3 DEF Books!KeyPosted
  <2>5. QED
    BY <1>4, <2>2, <2>4 DEF EntryOK, EntryOf, Books!KeyPosted
<1>12. GrantedOK(job[g])'
  <2>1. ledger \subseteq ledger'
    BY <1>6
  <2>2. QED
    BY <1>3, <1>4, <2>1 DEF JobOK, GrantedOK, Owes, Credited
<1>13. ListedOK(job[g])'
  BY <1>3, <1>4, <1>5 DEF JobOK, ListedOK
<1>14. QED
  BY <1>2, <1>4, <1>8, <1>9, <1>10, <1>11, <1>12, <1>13 DEF JobOK

(* The handler itself is idle or turns to its next payment.                *)
LEMMA CommitSelf ==
    ASSUME BInv, NEW h \in Handlers, Commit(h)
    PROVE  job'[h].sale = Absent /\ job'[h].entry = Absent /\ JobOK(job[h])'
<1>1. PICK k : k = job[h]
  OBVIOUS
<1>2. PICK j : j = IF Op(k.call) = "callback" THEN NextPayment(k) ELSE Idle
  OBVIOUS
<1>3. /\ k.pc = "commit" /\ DOMAIN k = Fields /\ k.call \in Calls /\ k.user \in Users
      /\ JobOK(k)
      /\ cp_events' = cp_events \union ({k.sale} \ {Absent})
  BY <1>1, AtCommit
<1>4. job'[h] = j
  BY <1>1, <1>2, AtCommit DEF BInv, TypeOK
<1>5. /\ DOMAIN j = Fields /\ j.pc \in {"idle", "next"}
      /\ j.sale = Absent /\ j.draft = Absent /\ j.entry = Absent
      /\ j.pc = "idle" => j.todo = {}
      /\ j.pc = "next" =>
            Op(k.call) = "callback" /\ j.call = k.call /\ j.user = k.user
  <2>1. CASE Op(k.call) = "callback"
    BY <1>2, <1>3, <2>1, NextShape
  <2>2. CASE Op(k.call) # "callback"
    BY <1>2, <2>2 DEF Idle, Fields
  <2>3. QED
    BY <2>1, <2>2
<1>6. /\ j.listed \subseteq Sales
      /\ \A s \in j.listed : s \in j.todo \/ Skipped(s) \/ s \in cp_events'
  <2>1. CASE Op(k.call) = "callback"
    <3>1. j.listed = k.listed /\ j.todo = k.todo
      BY <1>2, <1>3, <2>1, NextShape
    <3>2. k.sale # Absent
      BY <1>1, <2>1, CommitPays
    <3>3. QED
      BY <1>3, <3>1, <3>2 DEF JobOK, JobTyped, ListedOK
  <2>2. CASE Op(k.call) # "callback"
    BY <1>2, <2>2 DEF Idle
  <2>3. QED
    BY <2>1, <2>2
<1>7. JobTyped(job[h])' /\ PlaceOK(job[h])'
  BY <1>3, <1>4, <1>5, <1>6 DEF JobTyped, Places, PlaceOK
<1>8. /\ SaleOK(job[h])' /\ WantOK(job[h])' /\ SeenOK(job[h])' /\ DraftOK(job[h])'
      /\ EntryOK(job[h])' /\ GrantedOK(job[h])'
  BY <1>4, <1>5 DEF SaleOK, HasSale, WantOK, SeenOK, DraftOK, EntryOK, GrantedOK
<1>9. ListedOK(job[h])'
  BY <1>4, <1>6 DEF ListedOK
<1>10. QED
  BY <1>4, <1>5, <1>7, <1>8, <1>9 DEF JobOK

(* A commit keeps the invariant.                                           *)
LEMMA CommitStep ==
    ASSUME BInv, NEW h \in Handlers, Commit(h)
    PROVE  BInv'
<1>1. PICK k : k = job[h]
  OBVIOUS
<1>2. \A g \in Handlers : JobOK(job[g])'
  BY CommitOthers, CommitSelf
<1>3. \A f, g \in Handlers : f # g => Apart(job[f], job[g])'
  <2>1. \A f \in Handlers \ {h} : job'[f] = job[f]
    BY CommitOthers
  <2>2. job'[h].sale = Absent /\ job'[h].entry = Absent
    BY CommitSelf
  <2>3. QED
    BY <2>1, <2>2 DEF BInv, Apart
<1>4. TypeOK'
  <2>1. UNCHANGED <<now, paid, device_user, starts>>
    BY <1>1, AtCommit
  <2>2. DOMAIN job' = Handlers
    BY <1>1, AtCommit DEF BInv, TypeOK
  <2>3. \A g \in Handlers : job'[g].pc \in Places
    BY <1>2 DEF JobOK, JobTyped
  <2>4. cp_events' \subseteq Sales
    <3>1. cp_events' = cp_events \union ({k.sale} \ {Absent})
      BY <1>1, AtCommit
    <3>2. k.sale \in Sales \/ k.sale = Absent
      BY <1>1, AtCommit DEF JobOK, SaleOK
    <3>3. QED
      BY <3>1, <3>2 DEF BInv, TypeOK
  <2>5. /\ \A e \in ledger' : e.user \in Users /\ e.key[1] \in GrantKeys
                              /\ e.amount \in Nat \ {0}
        /\ balance' \in [Users -> Nat]
    <3>1. k.call \in Calls /\ k.user \in Users
      BY <1>1, AtCommit
    <3>2. GrantOf(k.call, k.sale).key[1] \in GrantKeys
      BY <3>1, GrantShape
    <3>3. CASE UNCHANGED <<ledger, balance>>
      BY <3>3 DEF BInv, TypeOK
    <3>4. CASE /\ k.entry.user = k.user
               /\ k.entry.key = GrantOf(k.call, k.sale).key
               /\ k.entry.amount \in Nat \ {0}
               /\ ledger' = ledger \union {k.entry}
               /\ balance' = [balance EXCEPT ![k.user] = @ + k.entry.amount]
      <4>1. \A e \in ledger' : e.user \in Users /\ e.key[1] \in GrantKeys
                               /\ e.amount \in Nat \ {0}
        BY <3>1, <3>2, <3>4 DEF BInv, TypeOK
      <4>2. balance' \in [Users -> Nat]
        BY <3>1, <3>4 DEF BInv, TypeOK
      <4>3. QED
        BY <4>1, <4>2
    <3>5. QED
      BY <1>1, <3>3, <3>4, CommitPosts
  <2>6. /\ DOMAIN subscriptions' = Users
        /\ \A u \in Users : subscriptions'[u] = NoRow \/ RowOK(subscriptions'[u])
    BY CommitRows
  <2>7. answered' \subseteq Calls
    BY CommitTables
  <2>8. QED
    BY <2>1, <2>2, <2>3, <2>4, <2>5, <2>6, <2>7 DEF BInv, TypeOK, Places, RowOK
<1>5. QED
  BY <1>2, <1>3, <1>4, CommitTables DEF BInv

-----------------------------------------------------------------------------
(* The inductive invariant.                                                *)
LEMMA InitHolds ==
    ASSUME Init
    PROVE  BInv
<1>1. \A h \in Handlers : JobOK(job[h]) /\ job[h] = Idle
  <2>1. PICK j : j = Idle
    OBVIOUS
  <2>2. /\ DOMAIN j = Fields /\ j.pc = "idle" /\ j.sale = Absent /\ j.draft = Absent
        /\ j.entry = Absent /\ j.listed = {} /\ j.todo = {}
    BY <2>1 DEF Idle, Fields
  <2>3. JobOK(j)
    BY <2>2, IdleOK DEF ListedOK
  <2>4. QED
    BY <2>1, <2>3 DEF Init
<1>2. \A h, g \in Handlers : h # g => Apart(job[h], job[g])
  BY <1>1 DEF Apart, Idle
<1>3. TypeOK
  <2>1. /\ now \in 0..MaxTime /\ starts \in 0..MaxStarts
    BY BoundsAssumption DEF Init
  <2>2. /\ paid \in [Sales -> 0..MaxTime \union {Absent}]
        /\ device_user \in [Devices -> Users]
        /\ DOMAIN subscriptions = Users
        /\ \A u \in Users : subscriptions[u] = NoRow
        /\ ledger = {} /\ balance \in [Users -> Nat]
        /\ cp_events \subseteq Sales /\ answered \subseteq Calls
    BY DEF Init
  <2>3. DOMAIN job = Handlers /\ \A h \in Handlers : job[h].pc = "idle"
    BY DEF Init, Idle
  <2>4. QED
    BY <2>1, <2>2, <2>3 DEF TypeOK
<1>4. KeyOnce /\ PaymentsOK /\ EventsOK /\ AnsweredOK
  BY DEF Init, KeyOnce, PaymentsOK, EventsOK, AnsweredOK
<1>5. QED
  BY <1>1, <1>2, <1>3, <1>4 DEF BInv

(* Every step keeps the invariant.                                         *)
LEMMA NextHolds ==
    ASSUME BInv, [Next]_vars
    PROVE  BInv'
<1>1. ASSUME NEW h \in Handlers, NEW c \in Calls, Accept(h, c)
      PROVE  BInv'
  BY <1>1, AcceptStep
<1>2. ASSUME NEW h \in Handlers, Step(h)
      PROVE  BInv'
  BY <1>2, RecordEventStep, ReadRowStep, WriteRowStep, UpsertRowStep, GrantStep, CommitStep,
     VerifyStep, TakePaymentStep DEF Step
<1>3. ASSUME NEW h \in Handlers, Fail(h)
      PROVE  BInv'
  BY <1>3, FailStep DEF Fail
<1>4. QED
  BY <1>1, <1>2, <1>3, WorldSteps DEF Next

(* The inductive invariant of the billing calls: what a transaction holds  *)
(* at each place, what no two of them hold at once, and what the tables of *)
(* deliveries say about the ledger.                                        *)
THEOREM BillingSound == Spec => []BInv
<1>1. Init => BInv
  BY InitHolds
<1>2. BInv /\ [Next]_vars => BInv'
  BY NextHolds
<1>3. QED
  BY <1>1, <1>2, PTL DEF Spec

(* The tables and jobs of the billing calls keep their types: rows are     *)
(* whole, entries positive (tables.py: subscriptions, ledger_transactions).*)
THEOREM BillingIsTyped == Spec => []TypeOK
<1>1. BInv => TypeOK
  BY DEF BInv
<1>2. QED
  BY <1>1, BillingSound, PTL

(* A webhook that was answered is in the tables, with its credits          *)
(* (AdaptyWebhookService._apply).                                          *)
THEOREM AnsweredWebhooksAreCredited == Spec => []AnsweredIsCredited
<1>1. BInv => AnsweredIsCredited
  BY DEF BInv, AnsweredOK, EventsOK, TypeOK, AnsweredIsCredited, IsAdapty, Granting,
         Books!KeyPosted
<1>2. QED
  BY <1>1, BillingSound, PTL

(* A set whose members are all equal has at most one.                      *)
LEMMA AtMostOne ==
    ASSUME NEW S, \A x, y \in S : x = y
    PROVE  Cardinality(S) <= 1
<1>1. CASE S = {}
  BY <1>1, FS_EmptySet
<1>2. CASE S # {}
  <2>1. PICK x : S = {x}
    BY <1>2
  <2>2. QED
    BY <2>1, FS_Singleton
<1>3. QED
  BY <1>1, <1>2

(* A payment is credited once and to one user, and remembered exactly when *)
(* it is credited (CloudPaymentsWebhookService._apply_payment).            *)
THEOREM PaymentsCreditedOnce == Spec => []PaymentCreditedOnce
<1>1. BInv => PaymentCreditedOnce
  <2> SUFFICES ASSUME BInv, NEW s \in Sales,
                      NEW credits, credits = {e \in ledger : e.key = <<"cp-txn", s>>}
               PROVE  Cardinality(credits) <= 1 /\ (s \in cp_events <=> credits # {})
    BY DEF PaymentCreditedOnce
  <2>1. s \in cp_events <=> credits # {}
    BY DEF BInv, PaymentsOK
  <2>2. \A e, f \in credits : e = f
    BY DEF BInv, PaymentsOK
  <2>3. Cardinality(credits) <= 1
    BY <2>2, AtMostOne
  <2>4. QED
    BY <2>1, <2>3
<1>2. QED
  BY <1>1, BillingSound, PTL

(* A billing period is granted once to its user, however many events name  *)
(* it (AdaptyWebhookService._grant).                                       *)
THEOREM PeriodsGrantedOnce == Spec => []OneGrantPerPeriod
<1>1. BInv => OneGrantPerPeriod
  <2> SUFFICES ASSUME BInv, NEW c \in Calls, Op(c) = "adapty", Recognised(c),
                      NEW period,
                      \A b \in period : PeriodOf(Body(b)) = PeriodOf(Body(c)),
                      NEW user, NEW grants,
                      grants = {e \in ledger : e.user = user
                                               /\ e.key \in {AdaptyKey(b) : b \in period}}
               PROVE  Cardinality(grants) <= 1
    BY DEF OneGrantPerPeriod
  <2>1. \A b \in period : AdaptyKey(b) = AdaptyKey(c)
    BY DEF AdaptyKey
  <2>2. \A e \in grants : e \in ledger /\ e.user = user /\ e.key = AdaptyKey(c)
    BY <2>1
  <2>3. \A e, f \in grants : e = f
    BY <2>2 DEF BInv, KeyOnce
  <2>4. QED
    BY <2>3, AtMostOne
<1>2. QED
  BY <1>1, BillingSound, PTL

(* How far a transaction has come on the way from delivery to row to       *)
(* wallet.                                                                 *)
Rank(pc) ==
    CASE pc \in {"record", "next"} -> 0
      [] pc \in {"read", "write", "upsert"} -> 1
      [] pc = "grant" -> 2
      [] OTHER -> 3

(* Transactions wait only for one that has come further, so there is no    *)
(* circle of any length.                                                   *)
LEMMA WaitsGoForward ==
    ASSUME BInv, NEW h \in Handlers, NEW g \in Handlers, Waits(h, g)
    PROVE  Rank(job[h].pc) < Rank(job[g].pc)
<1>1. DraftOK(job[g]) /\ EntryOK(job[g])
  BY DEF BInv, JobOK
<1>2. CASE job[h].pc = "record" /\ HoldsDelivery(job[g], Delivery(job[h]))
  BY <1>2 DEF HoldsDelivery, Rank
<1>3. CASE job[h].pc \in {"write", "upsert"} /\ HoldsRow(job[g], job[h].user)
  BY <1>1, <1>3 DEF HoldsRow, DraftOK, Rank
<1>4. CASE job[h].pc = "grant" /\ HoldsWallet(job[g], job[h].user)
  BY <1>1, <1>4 DEF HoldsWallet, EntryOK, Rank
<1>5. CASE /\ job[h].pc = "next"
           /\ \E s \in job[h].todo : HoldsDelivery(job[g], <<"payment", s>>)
  BY <1>5 DEF HoldsDelivery, Rank
<1>6. QED
  BY <1>2, <1>3, <1>4, <1>5 DEF Waits

(* No two billing calls wait for each other (the order of the locks in     *)
(* sync, _apply, _apply_payment, grant_subscription).                      *)
THEOREM NobodyWaitsInACircle == Spec => []NoWaitCycle
<1>1. BInv => NoWaitCycle
  <2>1. \A pc : Rank(pc) \in Int
    BY DEF Rank
  <2>2. QED
    BY <2>1, WaitsGoForward DEF NoWaitCycle
<1>2. QED
  BY <1>1, BillingSound, PTL

(* A callback that is done has dealt with every payment it verified        *)
(* (CloudPaymentsWebhookService.handle).                                   *)
THEOREM CallbacksReconcile == Spec => []CallbackReconciles
<1>1. BInv => CallbackReconciles
  <2> SUFFICES ASSUME BInv, NEW h \in Handlers, job[h].pc = "idle", NEW s \in job[h].listed
               PROVE  Skipped(s) \/ s \in cp_events
    BY DEF CallbackReconciles
  <2>1. JobTyped(job[h]) /\ SaleOK(job[h]) /\ ListedOK(job[h])
    BY DEF BInv, JobOK
  <2>2. s \in Sales /\ job[h].todo = {} /\ job[h].sale = Absent
    BY <2>1 DEF JobTyped, SaleOK, HasSale
  <2>3. QED
    BY <2>1, <2>2, AbsentAssumption DEF ListedOK
<1>2. QED
  BY <1>1, BillingSound, PTL

-----------------------------------------------------------------------------
(* What a step does to rows and ledger it does in a commit.                *)
LEMMA OnlyCommits ==
    ASSUME [Next]_vars
    PROVE  (\E h \in Handlers : Commit(h)) \/ UNCHANGED <<subscriptions, ledger, balance>>
<1>1. ASSUME NEW h \in Handlers, NEW c \in Calls, Accept(h, c)
      PROVE  UNCHANGED <<subscriptions, ledger, balance>>
  <2>1. UNCHANGED tables
    BY <1>1 DEF Accept, Sync, Purchase, AdminGrant, AdminGrantSubscription, Webhook, Callback,
                Start
  <2>2. QED
    BY <2>1 DEF tables
<1>2. ASSUME NEW h \in Handlers, Step(h), ~Commit(h)
      PROVE  UNCHANGED <<subscriptions, ledger, balance>>
  BY <1>2 DEF Step, RecordEvent, ReadRow, WriteRow, UpsertRow, Grant, Verify, TakePayment, tables
<1>3. ASSUME NEW h \in Handlers, Fail(h)
      PROVE  UNCHANGED <<subscriptions, ledger, balance>>
  BY <1>3 DEF Fail, tables
<1>4. QED
  BY <1>1, <1>2, <1>3 DEF Next, Pay, Relogin, Tick, vars, tables

(* A subscription becomes active only together with the credits of its     *)
(* period (sync, _apply, _apply_payment, grant_subscription).              *)
THEOREM ActivationsAreGranted == Spec => ActivationIsGranted
<1> DEFINE Granted(u) ==
             ~Active(subscriptions[u]) /\ Active(subscriptions'[u]) =>
                \E h \in Handlers : /\ HoldsRow(job[h], u)
                                   /\ job[h].pc = "commit"
                                   /\ Credited(job[h], ledger')
<1>1. BInv /\ [Next]_vars => \A u \in Users : Granted(u)
  <2> SUFFICES ASSUME BInv, [Next]_vars, NEW u \in Users,
                      ~Active(subscriptions[u]), Active(subscriptions'[u])
               PROVE  \E h \in Handlers : /\ HoldsRow(job[h], u)
                                         /\ job[h].pc = "commit"
                                         /\ Credited(job[h], ledger')
    OBVIOUS
  <2>1. PICK h \in Handlers : Commit(h)
    BY OnlyCommits DEF Active
  <2>2. PICK k : k = job[h]
    OBVIOUS
  <2>3. /\ k.pc = "commit" /\ k.user \in Users /\ k.call \in Calls /\ JobOK(k)
        /\ subscriptions' = IF k.draft = Absent THEN subscriptions
                            ELSE [subscriptions EXCEPT ![k.user] = Merged(@, k.draft)]
    BY <2>1, <2>2, AtCommit
  <2>4. /\ k.draft # Absent /\ k.user = u
        /\ Active(Merged(subscriptions[u], k.draft))
    BY <2>3 DEF BInv, TypeOK, Active
  <2>5. "status" \in DOMAIN k.draft /\ k.draft.status = "active"
    BY <2>4 DEF Merged, Columns, Active
  <2>6. k.want.status = "active"
    BY <2>3, <2>4, <2>5 DEF JobOK, DraftOK
  <2>7. k.entry # Absent \/ Credited(k, ledger)
    BY <2>3, <2>4, <2>6 DEF JobOK, GrantedOK, Owes
  <2>8. Credited(k, ledger')
    BY <2>1, <2>2, <2>7, CommitPosts DEF Credited
  <2>9. QED
    BY <2>2, <2>3, <2>4, <2>8 DEF HoldsRow
<1>2. QED
  BY <1>1, BillingSound, PTL DEF Spec, ActivationIsGranted

(* The billing calls implement the ledger: whatever they do to entries and *)
(* balances is the posting of one entry under a key its user has not used. *)
THEOREM BillingImplementsLedger == Spec => IsLedger
<1>1. Init => Books!Init
  BY DEF Init, Books!Init
<1>2. BInv /\ [Next]_vars => [PostsOne]_<<balance, ledger>>
  <2> SUFFICES ASSUME BInv, [Next]_vars, ~UNCHANGED <<balance, ledger>>
               PROVE  PostsOne
    OBVIOUS
  <2>1. PICK h \in Handlers : Commit(h)
    BY OnlyCommits
  <2>2. PICK k : k = job[h]
    OBVIOUS
  <2>3. PICK e : e = k.entry
    OBVIOUS
  <2>4. /\ e \in Books!Entries
        /\ e.user = k.user /\ e.kind = "credit"
        /\ ~Books!KeyPosted(k.user, e.key)
        /\ ledger' = ledger \union {e}
        /\ balance' = [balance EXCEPT ![k.user] = @ + e.amount]
    BY <2>1, <2>2, <2>3, CommitPosts
  <2>5. e \in ledger' \ ledger
    BY <2>4 DEF Books!KeyPosted
  <2>6. Books!Post(e)
    BY <2>4 DEF Books!Post, Books!Delta
  <2>7. QED
    BY <2>4, <2>5, <2>6 DEF PostsOne
<1>3. QED
  BY <1>1, <1>2, BillingSound, PTL DEF Spec, IsLedger
=============================================================================
